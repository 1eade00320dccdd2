------------------------- MODULE SupervisorProofs -------------------------
(* What holds of Supervisor for every set of actions, plan, limit and     *)
(* bound.  First, on the command line and on the desktop: the types, that *)
(* only what is approved runs, that nothing is completed twice, that the  *)
(* budgets hold, that a failed run is undone and what a candidate holds.  *)
(* Then, on the command line: Supervisor implements AuditTrail - the      *)
(* ledger tells a legal story -, a final state is final, and the session  *)
(* on disk loads again, whatever is lost in a crash and read back.        *)
EXTENDS Supervisor, FiniteSetTheorems, SequenceTheorems, TLAPS

(* Appending keeps a list a list of actions, and only adds to its elements. *)
LEMMA AppendList ==
    ASSUME NEW s \in Lists, NEW a \in Actions
    PROVE  Append(s, a) \in Lists /\ Elems(Append(s, a)) = Elems(s) \cup {a}
<1>1. Append(s, a) \in Seq(Actions)
    BY DEF Lists
<1>2. Len(Append(s, a)) = Len(s) + 1 /\ Len(s) \in Nat
    BY DEF Lists
<1>3. \A i \in 1..Len(s) : Append(s, a)[i] = s[i]
    BY DEF Lists
<1>4. Append(s, a)[Len(s) + 1] = a
    BY DEF Lists
<1>5. Elems(Append(s, a)) \subseteq Elems(s) \cup {a}
    BY <1>2, <1>3, <1>4 DEF Elems
<1>6. Elems(s) \cup {a} \subseteq Elems(Append(s, a))
  <2>1. \A i \in 1..Len(s) : i \in 1..Len(Append(s, a))
      BY <1>2
  <2>2. Len(s) + 1 \in 1..Len(Append(s, a))
      BY <1>2
  <2>. QED
      BY <1>3, <1>4, <2>1, <2>2 DEF Elems
<1>. QED
    BY <1>1, <1>5, <1>6 DEF Lists

(* The session constants and the write combinators have their types. *)
LEMMA InitialTypes ==
    /\ FreshSession \in Session
    /\ NoSession \in Session
    /\ NoEntry \in EntryType
    /\ NothingDue \in DueType
    /\ Idle \in DeskType
    /\ NoRun \in WorkerType
<1>1. FreshSession \in Session /\ NoSession \in Session
  <2>1. <<>> \in Lists
      BY DEF Lists
  <2>2. [m \in Meters |-> 0] \in UsageType
      BY DEF UsageType
  <2>3. {"created", "absent"} \subseteq States
      BY DEF States
  <2>4. FreshSession \in Session
      BY <2>1, <2>2, <2>3 DEF FreshSession, Session
  <2>. QED
      BY <2>3, <2>4 DEF NoSession, Session
<1>2. NoEntry \in EntryType
    BY DEF NoEntry, EntryType
<1>3. NothingDue \in DueType
    BY <1>1, <1>2 DEF NothingDue, DueType
<1>4. Idle \in DeskType /\ NoRun \in WorkerType
    BY DEF Idle, NoRun, DeskType, WorkerType, WorkerPc, Lists, Files
<1>. QED
    BY <1>1, <1>2, <1>3, <1>4

(* What a call may owe is well typed: an entry about an action names one.  *)
LEMMA DueTypes ==
    /\ JustSave \in DueType
    /\ \A event \in ActionEvents, a \in Actions :
          SaveThen(event, a) \in DueType /\ JustAppend(event, a) \in DueType
    /\ \A event \in SessionEvents \cup {"other"}, a \in Actions \cup {NoAction} :
          SaveThen(event, a) \in DueType /\ JustAppend(event, a) \in DueType
<1>1. NothingDue \in DueType
    BY InitialTypes
<1>2. \A e \in EntryType :
          /\ [NothingDue EXCEPT !.save = "due", !.entry = e] \in DueType
          /\ [NothingDue EXCEPT !.entry = e] \in DueType
          /\ [NothingDue EXCEPT !.save = "due"] \in DueType
    BY <1>1 DEF DueType
<1>3. \A event \in ActionEvents, a \in Actions : Entry(event, a) \in EntryType
    BY DEF Entry, EntryType
<1>4. \A event \in SessionEvents \cup {"other"}, a \in Actions \cup {NoAction} :
          Entry(event, a) \in EntryType
    BY DEF Entry, EntryType
<1>5. NoEntry \in EntryType
    BY InitialTypes
<1>. QED
    BY <1>2, <1>3, <1>4, <1>5 DEF JustSave, SaveThen, JustAppend

(* Owing something keeps the type, and leaves the other thread alone.      *)
LEMMA OwesType ==
    ASSUME due \in [Threads -> DueType],
           NEW t \in Threads, NEW w \in DueType, Owes(t, w)
    PROVE  /\ due' \in [Threads -> DueType]
           /\ due'[t] = w
           /\ \A u \in Threads \ {t} : due'[u] = due[u]
BY DEF Owes

(* The ledger keeps its type whatever entry is appended.                   *)
LEMMA RecordedType ==
    ASSUME NEW l \in LedgerType, NEW e \in EntryType
    PROVE  Recorded(l, e) \in LedgerType
<1>1. CASE e.event \in SessionEvents
  <2>1. e.event \notin RunEvents \cup {"action_queued"}
      BY <1>1 DEF RunEvents, SessionEvents
  <2>2. Recorded(l, e) = [l EXCEPT !.marks = @ \cup {e.event}]
      BY <1>1, <2>1 DEF Recorded, RunEvents
  <2>. QED
      BY <1>1, <2>2 DEF LedgerType
<1>2. CASE e.event = "action_queued"
  <2>1. e.action \in Actions /\ e.event \notin SessionEvents
      BY <1>2 DEF EntryType, ActionEvents, RunEvents, SessionEvents
  <2>2. Append(l.queued, e.action) \in Lists
      BY <2>1, AppendList DEF LedgerType
  <2>. QED
      BY <1>2, <2>1, <2>2 DEF Recorded, LedgerType
<1>3. CASE e.event \in RunEvents
  <2>1. e.action \in Actions /\ e.event \notin SessionEvents \cup {"action_queued"}
      BY <1>3 DEF EntryType, ActionEvents, RunEvents, SessionEvents
  <2>2. /\ Append(l.started, e.action) \in Lists
        /\ Append(l.completed, e.action) \in Lists
        /\ Append(l.failed, e.action) \in Lists
        /\ Append(l.cancelled, e.action) \in Lists
      BY <2>1, AppendList DEF LedgerType
  <2>. QED
      BY <1>3, <2>1, <2>2 DEF Recorded, LedgerType, RunEvents
<1>4. CASE e.event \notin SessionEvents \cup RunEvents \cup {"action_queued"}
  <2>1. Recorded(l, e) = l
      BY <1>4 DEF Recorded, RunEvents
  <2>. QED
      BY <2>1
<1>. QED
    BY <1>1, <1>2, <1>3, <1>4

\* The two ways a run can fail: given up by the service, or abandoned.
FailsWith(usage) == EndsFailedCharged(usage) \/ EndsAbandoned(usage)

(* Each way a run ends leaves a well-typed session, debt and worker.       *)
LEMMA EndTypes ==
    ASSUME TypeOK, worker.action \in Actions, NEW usage \in UsageType,
           EndsCompleted(usage) \/ FailsWith(usage) \/ EndsCancelled
    PROVE  /\ mem' \in Session
           /\ due' \in [Threads -> DueType]
           /\ worker' \in WorkerType
           /\ worker'.action = worker.action
<1>. DEFINE a == worker.action
<1>1. mem \in Session /\ worker \in WorkerType /\ due \in [Threads -> DueType]
    BY DEF TypeOK
<1>2. /\ AddOnce(mem.failed, a) \in Lists
      /\ AddOnce(mem.cancelled, a) \in Lists
      /\ Append(mem.completed, a) \in Lists
    BY <1>1, AppendList DEF AddOnce, Session
<1>3. \A event \in RunEvents : SaveThen(event, a) \in DueType
    BY DueTypes DEF ActionEvents
<1>4. "worker" \in Threads
    BY DEF Threads
<1>5. CASE EndsCompleted(usage)
  <2>1. mem' \in Session
    <3>. DEFINE t == [mem EXCEPT !.completed = Append(@, a), !.usage = usage]
    <3>1. t \in Session
        BY <1>1, <1>2 DEF Session
    <3>2. mem' = [t EXCEPT !.state = IF Remaining(t) # {} THEN "waiting_approval" ELSE "paused"]
        BY <1>5 DEF EndsCompleted, Completed
    <3>. HIDE DEF t
    <3>. QED
        BY <3>1, <3>2 DEF Session, States
  <2>2. due' \in [Threads -> DueType]
      BY <1>1, <1>3, <1>4, <1>5, OwesType DEF EndsCompleted, RunEvents
  <2>. QED
      BY <1>1, <1>5, <2>1, <2>2 DEF EndsCompleted, WorkerType, WorkerPc
<1>6. CASE FailsWith(usage)
  <2>1. mem' \in Session
      BY <1>1, <1>2, <1>6 DEF FailsWith, EndsFailedCharged, EndsAbandoned, Session, States
  <2>2. due' \in [Threads -> DueType]
      BY <1>1, <1>3, <1>4, <1>6, OwesType DEF FailsWith, EndsFailedCharged, EndsAbandoned, RunEvents
  <2>. QED
      BY <1>1, <1>6, <2>1, <2>2 DEF FailsWith, EndsFailedCharged, EndsAbandoned, WorkerType, WorkerPc
<1>7. CASE EndsCancelled
  <2>1. mem' \in Session
      BY <1>1, <1>2, <1>7 DEF EndsCancelled, Session, States
  <2>2. due' \in [Threads -> DueType]
      BY <1>1, <1>3, <1>4, <1>7, OwesType DEF EndsCancelled, RunEvents
  <2>. QED
      BY <1>1, <1>7, <2>1, <2>2 DEF EndsCancelled, WorkerType, WorkerPc
<1>. QED
    BY <1>5, <1>6, <1>7

(* The usage the service computes stays a function into the naturals.     *)
LEMMA UsageTypes ==
    ASSUME TypeOK, worker.action \in Actions,
           NEW elapsed \in Durations(worker.action)
    PROVE  /\ Charged(worker.action, elapsed) \in UsageType
           /\ WithChanges(Charged(worker.action, elapsed)) \in UsageType
           /\ Counted(WithChanges(Charged(worker.action, elapsed))) \in UsageType
<1>1. elapsed \in Nat
    BY ConstantsAssumption DEF Durations
<1>2. mem.usage \in UsageType
    BY DEF TypeOK, Session
<1>3. Charged(worker.action, elapsed) \in UsageType
    BY <1>1, <1>2 DEF Charged, UsageType, Meters
<1>4. Cardinality(ChangedFiles) \in Nat
  <2>1. ChangedFiles \subseteq Files
      BY DEF ChangedFiles, TypeOK, WorkerType
  <2>2. IsFiniteSet(Files)
      BY ConstantsAssumption, FS_Union DEF Files
  <2>. QED
      BY <2>1, <2>2, FS_Subset, FS_CardinalityType
<1>. QED
    BY <1>3, <1>4 DEF WithChanges, Counted, UsageType, Meters

---------------------------------------------------------------------------
(* Type correctness.  One lemma per group of actions.                     *)

LEMMA PersistType ==
    ASSUME TypeOK, NEW t \in Threads, Persist(t)
    PROVE  TypeOK'
<1>1. due[t] \in DueType /\ NoSession \in Session /\ NothingDue \in DueType
    BY InitialTypes DEF TypeOK
<1>2. CASE TakeSnapshot(t)
  <2>1. [due[t] EXCEPT !.save = "taken", !.image = mem] \in DueType
      BY <1>1 DEF TypeOK, DueType
  <2>2. due' \in [Threads -> DueType]
      BY <1>2, <2>1, OwesType DEF TakeSnapshot, TypeOK
  <2>. QED
      BY <1>2, <2>2 DEF TakeSnapshot, TypeOK, disk
<1>3. CASE ReplaceFile(t)
  <2>1. [due[t] EXCEPT !.save = "no", !.image = NoSession] \in DueType
      BY <1>1 DEF DueType
  <2>2. due' \in [Threads -> DueType]
      BY <1>3, <2>1, OwesType DEF ReplaceFile, TypeOK
  <2>3. file' \in Session
      BY <1>1, <1>3 DEF ReplaceFile, DueType
  <2>. QED
      BY <1>3, <2>2, <2>3 DEF ReplaceFile, TypeOK
<1>4. CASE AppendEntry(t)
  <2>. DEFINE e == due[t].entry
  <2>1. e \in EntryType
      BY <1>1 DEF DueType
  <2>2. ledger' \in LedgerType
      BY <1>4, <2>1, RecordedType DEF AppendEntry, TypeOK
  <2>3. approvals' \in [Actions -> GrantType]
    <3>1. CASE e.event = "action_approved"
        BY <1>4, <2>1, <3>1 DEF AppendEntry, TypeOK, GrantType
    <3>2. CASE e.event # "action_approved"
        BY <1>4, <3>2 DEF AppendEntry, TypeOK
    <3>. QED
        BY <3>1, <3>2
  <2>4. due' \in [Threads -> DueType]
      BY <1>1, <1>4, OwesType DEF AppendEntry, TypeOK
  <2>. QED
      BY <1>4, <2>2, <2>3, <2>4 DEF AppendEntry, TypeOK
<1>. QED
    BY <1>2, <1>3, <1>4 DEF Persist

LEMMA DeskCallType ==
    ASSUME TypeOK, DeskCall
    PROVE  TypeOK'
<1>. USE DEF TypeOK, disk
<1>1. "desk" \in Threads /\ NoSession \in Session /\ FreshSession \in Session
    BY InitialTypes DEF Threads
<1>2. CASE CreateSession
  <2>1. JustAppend("session_created", NoAction) \in DueType
      BY DueTypes DEF SessionEvents
  <2>2. due' \in [Threads -> DueType]
      BY <1>1, <1>2, <2>1, OwesType DEF CreateSession
  <2>. QED
      BY <1>1, <1>2, <2>2 DEF CreateSession, Files
<1>3. CASE LoadSession
    BY <1>3 DEF LoadSession
<1>4. CASE Exit
    BY <1>1, <1>4 DEF Exit
<1>5. CASE \E p \in Plans : Plan(p)
  <2>1. PICK p \in Plans : Plan(p)
      BY <1>5
  <2>2. p \in Lists
      BY ConstantsAssumption DEF Lists
  <2>. QED
      BY <2>1, <2>2 DEF Plan, DeskType
<1>6. CASE \E a \in Actions, C \in Grants : Approve(a, C)
  <2>1. PICK a \in Actions, C \in Grants : Approve(a, C)
      BY <1>6
  <2>2. JustAppend("action_approved", a) \in DueType
      BY DueTypes DEF ActionEvents
  <2>3. due' \in [Threads -> DueType]
      BY <1>1, <2>1, <2>2, OwesType DEF Approve
  <2>4. C \subseteq Capability
      BY ConstantsAssumption
  <2>5. [caps |-> C, recorded |-> FALSE] \in GrantType
      BY <2>4 DEF GrantType
  <2>6. approvals' \in [Actions -> GrantType]
      BY <2>1, <2>5 DEF Approve
  <2>. QED
      BY <2>1, <2>3, <2>6 DEF Approve
<1>7. SaveThen("other", NoAction) \in DueType /\ SaveThen("candidate_ready", NoAction) \in DueType
    BY DueTypes DEF SessionEvents
<1>8. CASE Pause
  <2>1. due' \in [Threads -> DueType]
      BY <1>1, <1>7, <1>8, OwesType DEF Pause
  <2>. QED
      BY <1>8, <2>1 DEF Pause, Session, States
<1>9. CASE Resume
  <2>1. due' \in [Threads -> DueType]
      BY <1>1, <1>7, <1>9, OwesType DEF Resume
  <2>. QED
      BY <1>9, <2>1 DEF Resume, Session, States
<1>10. CASE FinalizeCandidate
  <2>1. due' \in [Threads -> DueType]
      BY <1>1, <1>7, <1>10, OwesType DEF FinalizeCandidate
  <2>. QED
      BY <1>10, <2>1 DEF FinalizeCandidate, Session, States
<1>11. CASE CancelLook
  <2>1. desk' \in DeskType
      BY <1>11, InitialTypes DEF CancelLook, DeskType
  <2>. QED
      BY <1>11, <2>1 DEF CancelLook
<1>12. CASE ManualCheckpoint
  <2>1. JustAppend("other", NoAction) \in DueType
      BY DueTypes
  <2>2. due' \in [Threads -> DueType]
      BY <1>1, <1>12, <2>1, OwesType DEF ManualCheckpoint
  <2>. QED
      BY <1>12, <2>2 DEF ManualCheckpoint
<1>. QED
    BY <1>2, <1>3, <1>4, <1>5, <1>6, <1>8, <1>9, <1>10, <1>11, <1>12 DEF DeskCall

LEMMA DeskStepType ==
    ASSUME TypeOK, DeskStep
    PROVE  TypeOK'
<1>. USE DEF TypeOK, disk
<1>1. "desk" \in Threads /\ NoSession \in Session /\ Idle \in DeskType
    BY InitialTypes DEF Threads
<1>2. JustSave \in DueType /\ SaveThen("other", NoAction) \in DueType
        /\ SaveThen("session_cancelled", NoAction) \in DueType
    BY DueTypes DEF SessionEvents
<1>3. CASE PlanOne
  <2>1. Head(desk.rest) \in Actions /\ Tail(desk.rest) \in Lists
    <3>1. desk.rest \in Seq(Actions) /\ desk.rest # <<>>
        BY <1>3 DEF PlanOne, DeskType, Lists
    <3>. QED
        BY <3>1, HeadTailProperties DEF Lists
  <2>2. Append(mem.queued, Head(desk.rest)) \in Lists
      BY <2>1, AppendList DEF Session
  <2>3. JustAppend("action_queued", Head(desk.rest)) \in DueType
      BY <2>1, DueTypes DEF ActionEvents
  <2>4. due' \in [Threads -> DueType]
      BY <1>1, <1>3, <2>3, OwesType DEF PlanOne
  <2>5. mem' \in Session
      BY <1>3, <2>2 DEF PlanOne, Session
  <2>6. desk' \in DeskType
      BY <1>3, <2>1 DEF PlanOne, DeskType
  <2>. QED
      BY <1>3, <2>4, <2>5, <2>6 DEF PlanOne
<1>4. CASE PlanRejected
    BY <1>1, <1>4 DEF PlanRejected, AfterRaise
<1>5. CASE PlanDone
  <2>1. due' \in [Threads -> DueType]
      BY <1>1, <1>2, <1>5, OwesType DEF PlanDone
  <2>. QED
      BY <1>1, <1>5, <2>1 DEF PlanDone, Session, States
<1>6. CASE CancelSession
  <2>1. due' \in [Threads -> DueType]
      BY <1>1, <1>2, <1>6, OwesType DEF CancelSession
  <2>. QED
      BY <1>1, <1>6, <2>1 DEF CancelSession, Session, States
<1>7. CASE RequestCancel
  <2>1. due' \in [Threads -> DueType]
      BY <1>1, <1>2, <1>7, OwesType DEF RequestCancel
  <2>. QED
      BY <1>1, <1>7, <2>1 DEF RequestCancel, Session, States, DeskType
<1>8. CASE SignalCancel
    BY <1>1, <1>8 DEF SignalCancel
<1>9. CASE Persist("desk")
    BY <1>1, <1>9, PersistType
<1>. QED
    BY <1>3, <1>4, <1>5, <1>6, <1>7, <1>8, <1>9 DEF DeskStep

LEMMA ExecuteType ==
    ASSUME TypeOK, NEW a \in Actions, Execute(a)
    PROVE  TypeOK'
<1>. USE DEF TypeOK, disk
<1>1. CASE a \in Permitted
  <2>1. worker' \in WorkerType /\ worker'.action \in Actions
      BY <1>1, InitialTypes DEF Execute, WorkerType, WorkerPc
  <2>. QED
      BY <1>1, <2>1 DEF Execute
<1>2. CASE a \notin Permitted
  <2>1. JustAppend("other", a) \in DueType /\ "worker" \in Threads
      BY DueTypes DEF Threads
  <2>2. due' \in [Threads -> DueType]
      BY <1>2, <2>1, OwesType DEF Execute
  <2>. QED
      BY <1>2, <2>2 DEF Execute
<1>. QED
    BY <1>1, <1>2

LEMMA CheckpointStepType ==
    ASSUME TypeOK,
           ReuseCheckpoint \/ MakeCheckpoint \/ CopyFile \/ CheckpointMade
           \/ Register \/ Announce
    PROVE  TypeOK'
<1>. USE DEF TypeOK, disk
<1>1. CASE ReuseCheckpoint \/ CheckpointMade
    BY <1>1 DEF ReuseCheckpoint, CheckpointMade, WorkerType, WorkerPc
<1>2. CASE MakeCheckpoint
  <2>1. [base |-> workspace, action |-> worker.action, files |-> {}] \in CheckpointType
      BY <1>2 DEF MakeCheckpoint, CheckpointType
  <2>. QED
      BY <1>2, <2>1 DEF MakeCheckpoint, WorkerType, WorkerPc
<1>3. CASE CopyFile
  <2>1. PICK c \in checkpoints, f \in workspace :
            checkpoints' = (checkpoints \ {c}) \cup {[c EXCEPT !.files = @ \cup {f}]}
      BY <1>3 DEF CopyFile
  <2>2. [c EXCEPT !.files = @ \cup {f}] \in CheckpointType
      BY DEF CheckpointType
  <2>. QED
      BY <1>3, <2>1, <2>2 DEF CopyFile
<1>4. CASE Register
    BY <1>4 DEF Register, WorkerType, WorkerPc
<1>5. CASE Announce
  <2>1. SaveThen("action_started", worker.action) \in DueType /\ "worker" \in Threads
      BY <1>5, DueTypes DEF Announce, ActionEvents, RunEvents, Threads
  <2>2. due' \in [Threads -> DueType]
      BY <1>5, <2>1, OwesType DEF Announce
  <2>. QED
      BY <1>5, <2>2 DEF Announce, Session, States, WorkerType, WorkerPc
<1>. QED
    BY <1>1, <1>2, <1>3, <1>4, <1>5

\* The disk as the end of a run leaves it: only the workspace may differ.
RunDisk ==
    /\ workspace' \subseteq Files
    /\ UNCHANGED <<file, ledger, approvals, checkpoints, desk, cancelEvent>>

LEMMA RunEndType ==
    ASSUME TypeOK, worker.action \in Actions, NEW usage \in UsageType,
           EndsCompleted(usage) \/ FailsWith(usage) \/ EndsCancelled,
           RunDisk, faults' \in 0..MaxFaults
    PROVE  TypeOK'
BY EndTypes DEF TypeOK, RunDisk

LEMMA WriteStepType ==
    ASSUME TypeOK, WriteText \/ WriteOverBudget \/ ProcessRefused
    PROVE  TypeOK'
<1>1. worker.action \in Actions /\ mem.usage \in UsageType
    BY DEF TypeOK, Session, WriteText, WriteOverBudget, ProcessRefused, Begins
<1>2. CASE WriteText
  <2>1. [mem.usage EXCEPT !["files"] = @ + 1, !["actions"] = @ + 1] \in UsageType
      BY <1>1 DEF UsageType, Meters
  <2>2. RunDisk
      BY <1>1, <1>2 DEF WriteText, RunDisk, TypeOK, Files
  <2>3. faults' \in 0..MaxFaults
      BY <1>2 DEF WriteText, TypeOK
  <2>. QED
      BY <1>1, <1>2, <2>1, <2>2, <2>3, RunEndType DEF WriteText
<1>3. CASE WriteOverBudget \/ ProcessRefused
  <2>1. RunDisk /\ faults' \in 0..MaxFaults /\ FailsWith(mem.usage)
      BY <1>3 DEF WriteOverBudget, ProcessRefused, EndsFailed, FailsWith, RunDisk, TypeOK, disk
  <2>. QED
      BY <1>1, <2>1, RunEndType
<1>. QED
    BY <1>2, <1>3

LEMMA ProcessStepType ==
    ASSUME TypeOK,
           ProcessStarts \/ ProcessWrites \/ ProcessExits \/ ProcessAborts
           \/ ProcessCancelled \/ CheckedNoCancel
    PROVE  TypeOK'
<1>. USE DEF TypeOK, disk
<1>1. CASE ProcessStarts
    BY <1>1 DEF ProcessStarts, Begins, WorkerType, WorkerPc
<1>2. CASE ProcessWrites
  <2>1. worker.action \in Actions
      BY <1>2 DEF ProcessWrites
  <2>2. workspace' \subseteq Files
      BY <1>2, <2>1 DEF ProcessWrites, Files
  <2>. QED
      BY <1>2, <2>2 DEF ProcessWrites
<1>3. CASE ProcessExits \/ ProcessAborts \/ ProcessCancelled \/ CheckedNoCancel
  <2>1. worker.action \in Actions
      BY <1>3 DEF ProcessExits, ProcessAborts, ProcessCancelled, CheckedNoCancel
  <2>2. worker' \in WorkerType /\ worker'.action = worker.action
      BY <1>3 DEF ProcessExits, ProcessAborts, ProcessCancelled, CheckedNoCancel,
                  Restores, WorkerType, WorkerPc
  <2>. QED
      BY <1>3, <2>1, <2>2 DEF ProcessExits, ProcessAborts, ProcessCancelled, CheckedNoCancel
<1>. QED
    BY <1>1, <1>2, <1>3

LEMMA JudgeType ==
    ASSUME TypeOK, Judge
    PROVE  TypeOK'
<1>1. worker.action \in Actions
    BY DEF TypeOK, Judge
<1>2. PICK elapsed \in Durations(worker.action) :
         LET usage == Charged(worker.action, elapsed) IN
         \/ /\ mem' = [mem EXCEPT !.usage = usage]
            /\ Restores("failed") /\ UNCHANGED due
         \/ /\ mem' = [mem EXCEPT !.usage = WithChanges(usage)]
            /\ Restores("failed") /\ UNCHANGED due
         \/ FailsWith(usage)
         \/ EndsCompleted(Counted(WithChanges(usage)))
    BY DEF Judge, FailsWith
<1>. DEFINE usage == Charged(worker.action, elapsed)
<1>3. /\ usage \in UsageType
      /\ WithChanges(usage) \in UsageType
      /\ Counted(WithChanges(usage)) \in UsageType
    BY <1>1, UsageTypes
<1>4. RunDisk /\ faults' \in 0..MaxFaults
    BY DEF Judge, FailsWith, RunDisk, TypeOK, disk
<1>. HIDE DEF usage
<1>5. CASE EndsCompleted(Counted(WithChanges(usage)))
    BY <1>1, <1>3, <1>4, <1>5, RunEndType
<1>7. CASE FailsWith(usage)
    BY <1>1, <1>3, <1>4, <1>7, RunEndType
<1>6. ASSUME NEW u \in UsageType, mem' = [mem EXCEPT !.usage = u],
             Restores("failed"), UNCHANGED due
      PROVE  TypeOK'
  <2>1. mem' \in Session
      BY <1>6 DEF TypeOK, Session
  <2>2. worker' \in WorkerType /\ worker'.action = worker.action
      BY <1>6 DEF TypeOK, Restores, WorkerType, WorkerPc
  <2>. QED
      BY <1>1, <1>4, <1>6, <2>1, <2>2 DEF TypeOK, RunDisk
<1>. QED
    BY <1>2, <1>3, <1>5, <1>6, <1>7 DEF usage

LEMMA RestoreType ==
    ASSUME TypeOK, RestoreRefused \/ WipeWorkspace \/ RestoreStopped \/ RestoreCheckpoint \/ Finish
    PROVE  TypeOK'
<1>1. mem.usage \in UsageType
    BY DEF TypeOK, Session
<1>2. CASE RestoreRefused
  <2>1. worker.action \in Actions
      BY <1>2 DEF RestoreRefused, TypeOK
  <2>2. RunDisk /\ faults' \in 0..MaxFaults /\ FailsWith(mem.usage)
      BY <1>2 DEF RestoreRefused, RunDisk, TypeOK, disk, EndsFailed, FailsWith
  <2>. QED
      BY <1>1, <2>1, <2>2, RunEndType
<1>3. CASE WipeWorkspace
    BY <1>3 DEF WipeWorkspace, TypeOK, WorkerType, WorkerPc
<1>4. CASE RestoreCheckpoint
  <2>1. worker.action \in Actions
      BY <1>4 DEF RestoreCheckpoint, TypeOK
  <2>2. workspace' \subseteq Files
      BY <1>4 DEF RestoreCheckpoint, TypeOK, CheckpointType
  <2>3. RunDisk /\ faults' \in 0..MaxFaults
      BY <1>4, <2>2 DEF RestoreCheckpoint, RunDisk, TypeOK
  <2>4. EndsCancelled \/ FailsWith(mem.usage)
      BY <1>4 DEF RestoreCheckpoint, SettleAfterRestore, EndsFailed, FailsWith
  <2>. QED
      BY <1>1, <2>1, <2>3, <2>4, RunEndType
<1>5. CASE Finish
    BY <1>5, InitialTypes DEF Finish, TypeOK, AfterRaise, NoRun, disk
<1>6. CASE RestoreStopped
  <2>1. worker.action \in Actions
      BY <1>6 DEF RestoreStopped, TypeOK
  <2>2. workspace' \subseteq Files
      BY <1>6 DEF RestoreStopped, TypeOK, CheckpointType
  <2>3. RunDisk /\ faults' \in 0..MaxFaults /\ FailsWith(mem.usage)
      BY <1>6, <2>2 DEF RestoreStopped, RunDisk, TypeOK, FailsWith
  <2>. QED
      BY <1>1, <2>1, <2>3, RunEndType
<1>. QED
    BY <1>2, <1>3, <1>4, <1>5, <1>6

LEMMA FaultStepType ==
    ASSUME TypeOK, FaultStep
    PROVE  TypeOK'
<1>1. faults' \in 0..MaxFaults
    BY ConstantsAssumption DEF FaultStep, Fault, TypeOK, Crash, DeskWriteFails,
       CheckpointFails, AnnounceFails, RunFails, LogFails, HandlerFails
<1>2. /\ NoSession \in Session /\ NothingDue \in DueType
      /\ Idle \in DeskType /\ NoRun \in WorkerType /\ NoRun.pc = "idle"
      /\ AfterRaise \in Session
    BY InitialTypes DEF NoRun, AfterRaise, TypeOK
<1>3. CASE Crash
    BY <1>1, <1>2, <1>3 DEF Crash, TypeOK, disk
<1>4. CASE DeskWriteFails \/ AnnounceFails \/ HandlerFails
  <2>1. PICK t \in Threads : Owes(t, NothingDue)
      BY <1>4 DEF DeskWriteFails, AnnounceFails, HandlerFails, Threads
  <2>2. due' \in [Threads -> DueType]
      BY <1>2, <2>1, OwesType DEF TypeOK
  <2>3. mem' \in Session /\ desk' \in DeskType /\ cancelEvent' \in {"none", "clear", "set"}
      BY <1>2, <1>4 DEF DeskWriteFails, AnnounceFails, HandlerFails, TypeOK
  <2>4. worker' \in WorkerType /\ (worker'.pc # "idle" => worker'.action \in Actions)
      BY <1>2, <1>4 DEF DeskWriteFails, AnnounceFails, HandlerFails, TypeOK
  <2>5. UNCHANGED disk
      BY <1>4 DEF DeskWriteFails, AnnounceFails, HandlerFails
  <2>. QED
      BY <1>1, <2>2, <2>3, <2>4, <2>5 DEF TypeOK, disk
<1>5. CASE CheckpointFails
    BY <1>1, <1>2, <1>5 DEF CheckpointFails, TypeOK, disk
<1>6. CASE RunFails
  <2>1. worker.action \in Actions
      BY <1>6 DEF RunFails, Begins, TypeOK
  <2>2. workspace' \subseteq Files
      BY <1>6, <2>1 DEF RunFails, TypeOK, CheckpointType, Files
  <2>3. RunDisk /\ FailsWith(mem.usage) /\ mem.usage \in UsageType
      BY <1>6, <2>2 DEF RunFails, RunDisk, EndsFailed, FailsWith, TypeOK, Session
  <2>. QED
      BY <1>1, <2>1, <2>3, RunEndType
<1>7. CASE LogFails
  <2>1. worker.action \in Actions
      BY <1>7 DEF LogFails, TypeOK
  <2>2. PICK elapsed \in Durations(worker.action) :
            FailsWith(WithChanges(Charged(worker.action, elapsed)))
      BY <1>7 DEF LogFails, FailsWith
  <2>3. WithChanges(Charged(worker.action, elapsed)) \in UsageType
      BY <2>1, UsageTypes
  <2>4. RunDisk
      BY <1>7 DEF LogFails, RunDisk, TypeOK, disk
  <2>. QED
      BY <1>1, <2>1, <2>2, <2>3, <2>4, RunEndType
<1>. QED
    BY <1>3, <1>4, <1>5, <1>6, <1>7 DEF FaultStep

LEMMA InitType == Init => TypeOK
<1>1. /\ FreshSession \in Session /\ NoSession \in Session /\ NothingDue \in DueType
      /\ Idle \in DeskType /\ NoRun \in WorkerType /\ NoRun.pc = "idle"
    BY InitialTypes DEF NoRun
<1>2. EmptyLedger \in LedgerType
  <2>1. <<>> \in Lists
      BY DEF Lists
  <2>. QED
      BY <2>1 DEF EmptyLedger, LedgerType
<1>3. [caps |-> {}, recorded |-> FALSE] \in GrantType
    BY DEF GrantType
<1>. QED
    BY <1>1, <1>2, <1>3, ConstantsAssumption DEF Init, TypeOK

LEMMA NextType == TypeOK /\ [Next]_vars => TypeOK'
<1>. SUFFICES ASSUME TypeOK, [Next]_vars PROVE TypeOK'
    OBVIOUS
<1>1. CASE DeskCall \/ DeskStep
    BY <1>1, DeskCallType, DeskStepType
<1>2. CASE \E a \in Actions : Execute(a)
    BY <1>2, ExecuteType
<1>3. CASE WorkerStep
  <2>1. "worker" \in Threads
      BY DEF Threads
  <2>. QED
      BY <1>3, <2>1, CheckpointStepType, WriteStepType, ProcessStepType, JudgeType,
         RestoreType, PersistType DEF WorkerStep
<1>4. CASE ProcessWrites
    BY <1>4, ProcessStepType
<1>5. CASE FaultStep
    BY <1>5, FaultStepType
<1>6. CASE UNCHANGED vars
    BY <1>6 DEF vars, TypeOK
<1>. QED
    BY <1>1, <1>2, <1>3, <1>4, <1>5, <1>6 DEF Next

(* Every reachable state is well typed: in particular whatever is in        *)
(* session.json and in the ledger can be read back as a session.            *)
THEOREM TypeCorrect == Spec => []TypeOK
<1>1. Init => TypeOK
    BY InitType
<1>2. TypeOK /\ [Next]_vars => TypeOK'
    BY NextType
<1>. QED
    BY <1>1, <1>2, PTL DEF Spec

---------------------------------------------------------------------------
(* What a run keeps.  While an action runs, the desk can only cancel: it is *)
(* not planning and not creating a session, and on the command line it does *)
(* nothing at all.  So the session object the run reads is never replaced.  *)

DeskAlone ==
    worker.action \in Actions =>
        /\ desk.pc # "planning"
        /\ due["desk"].entry.event # "session_created"
        /\ ~Desktop => desk = Idle /\ Quiet("desk")

\* A step that leaves the run alone: the worker has the same action at the
\* same place or further on, nothing is unqueued, no grant is narrowed.
Undisturbed ==
    /\ worker'.action = worker.action
    /\ Elems(mem.queued) \subseteq Elems(mem'.queued)
    /\ \A a \in Actions :
          /\ approvals'[a].caps = approvals[a].caps
          /\ approvals[a].recorded => approvals'[a].recorded

NotRunning == worker.action \notin Actions

(* With no call in progress no action is running.                          *)
LEMMA FreeNotRunning ==
    ASSUME Free PROVE NotRunning /\ worker = NoRun /\ desk = Idle /\ Quiet("desk")
BY ConstantsAssumption DEF Free, NotRunning, NoRun, Threads

(* Every step but Execute leaves a run undisturbed, or no action runs       *)
(* after it.                                                               *)
LEMMA RunUndisturbed ==
    ASSUME TypeOK, DeskAlone, Next,
           ~ \E a \in Actions : Execute(a)
    PROVE  NotRunning' \/ Undisturbed
<1>1. NoRun.action \notin Actions
    BY ConstantsAssumption DEF NoRun
<1>2. CASE DeskCall
  <2>1. CASE CancelLook
      BY <2>1 DEF CancelLook, Undisturbed, disk
  <2>2. CASE ~CancelLook
      BY <1>2, <2>2, FreeNotRunning DEF DeskCall, CreateSession, LoadSession, Exit,
         Plan, Approve, Pause, Resume, ManualCheckpoint, FinalizeCandidate, NotRunning
  <2>. QED
      BY <2>1, <2>2
<1>3. CASE PlanOne \/ PlanRejected
    BY <1>3 DEF PlanOne, PlanRejected, DeskAlone, NotRunning
<1>4. CASE PlanDone \/ CancelSession \/ RequestCancel \/ SignalCancel
    BY <1>4 DEF PlanDone, CancelSession, RequestCancel, SignalCancel, Undisturbed,
       disk, TypeOK, Session
<1>5. ASSUME NEW t \in Threads, Persist(t)
      PROVE  Undisturbed
  <2>1. CASE TakeSnapshot(t) \/ ReplaceFile(t)
      BY <2>1 DEF TakeSnapshot, ReplaceFile, Undisturbed, disk
  <2>2. CASE AppendEntry(t)
    <3>1. worker' = worker /\ mem' = mem
        BY <2>2 DEF AppendEntry
    <3>2. approvals' = approvals \/
          approvals' = [approvals EXCEPT ![due[t].entry.action].recorded = TRUE]
        BY <2>2 DEF AppendEntry
    <3>3. approvals \in [Actions -> GrantType]
        BY DEF TypeOK
    <3>. QED
        BY <3>1, <3>2, <3>3 DEF Undisturbed, GrantType
  <2>. QED
      BY <1>5, <2>1, <2>2 DEF Persist
<1>6. ASSUME NEW usage, EndsCompleted(usage) \/ FailsWith(usage) \/ EndsCancelled,
             UNCHANGED approvals
      PROVE  Undisturbed
  <2>1. worker'.action = worker.action
      BY <1>6 DEF EndsCompleted, FailsWith, EndsFailedCharged, EndsAbandoned,
         EndsCancelled, TypeOK, WorkerType
  <2>2. mem'.queued = mem.queued
      BY <1>6 DEF EndsCompleted, FailsWith, EndsFailedCharged, EndsAbandoned,
         EndsCancelled, Completed, TypeOK, Session
  <2>. QED
      BY <1>6, <2>1, <2>2 DEF Undisturbed
<1>7. CASE ReuseCheckpoint \/ MakeCheckpoint \/ CopyFile \/ CheckpointMade
           \/ Register \/ Announce
    BY <1>7 DEF ReuseCheckpoint, MakeCheckpoint, CopyFile, CheckpointMade, Register,
       Announce, Undisturbed, disk, TypeOK, Session, WorkerType
<1>8. CASE WriteText \/ WriteOverBudget \/ ProcessRefused
    BY <1>6, <1>8 DEF WriteText, WriteOverBudget, ProcessRefused, EndsFailed, FailsWith, disk
<1>9. CASE ProcessStarts \/ ProcessWrites \/ ProcessExits \/ ProcessAborts
           \/ ProcessCancelled \/ CheckedNoCancel \/ WipeWorkspace
    BY <1>9 DEF ProcessStarts, ProcessWrites, ProcessExits, ProcessAborts,
       ProcessCancelled, CheckedNoCancel, WipeWorkspace, Restores, Undisturbed,
       disk, TypeOK, WorkerType
<1>10. CASE Judge
  <2>1. ASSUME NEW u, mem' = [mem EXCEPT !.usage = u], Restores("failed")
        PROVE  worker'.action = worker.action /\ mem'.queued = mem.queued
      BY <2>1 DEF Restores, TypeOK, WorkerType, Session
  <2>2. UNCHANGED approvals
      BY <1>10 DEF Judge, FailsWith, disk
  <2>. QED
      BY <1>6, <1>10, <2>1, <2>2 DEF Judge, FailsWith, Undisturbed
<1>11. CASE RestoreRefused
           \/ RestoreStopped \/ RestoreCheckpoint
    BY <1>6, <1>11 DEF RestoreRefused, RestoreStopped, RestoreCheckpoint, SettleAfterRestore,
       EndsFailed, FailsWith, disk
<1>12. CASE Finish
    BY <1>1, <1>12 DEF Finish, NotRunning
<1>13. CASE Crash \/ CheckpointFails \/ AnnounceFails \/ HandlerFails
    BY <1>1, <1>13 DEF Crash, CheckpointFails, AnnounceFails, HandlerFails, NotRunning
<1>14. CASE DeskWriteFails
  <2>1. CASE NotRunning
      BY <1>14, <2>1 DEF DeskWriteFails, NotRunning
  <2>2. CASE ~NotRunning
    <3>1. mem' = mem
        BY <1>14, <2>2, ConstantsAssumption
        DEF DeskWriteFails, DeskAlone, AfterRaise, NotRunning
    <3>. QED
        BY <1>14, <3>1 DEF DeskWriteFails, Undisturbed, disk
  <2>. QED
      BY <2>1, <2>2
<1>15. CASE RunFails \/ LogFails
    BY <1>6, <1>15 DEF RunFails, LogFails, EndsFailed, FailsWith, disk
<1>. QED
    BY <1>2, <1>3, <1>4, <1>5, <1>7, <1>8, <1>9, <1>10, <1>11, <1>12, <1>13,
       <1>14, <1>15 DEF Next, DeskStep, WorkerStep, FaultStep, Threads

(* A step of the worker touches nothing of the desk.                       *)
LEMMA DeskUntouched ==
    ASSUME TypeOK,
           WorkerStep \/ ProcessWrites \/ CheckpointFails \/ AnnounceFails
           \/ RunFails \/ LogFails \/ HandlerFails
    PROVE  desk' = desk /\ due'["desk"] = due["desk"]
<1>. USE DEF Threads
<1>1. ASSUME NEW writes, Owes("worker", writes)
      PROVE  due'["desk"] = due["desk"]
    BY <1>1 DEF Owes, TypeOK
<1>2. ASSUME NEW usage, EndsCompleted(usage) \/ FailsWith(usage) \/ EndsCancelled
      PROVE  due'["desk"] = due["desk"]
    BY <1>1, <1>2 DEF EndsCompleted, FailsWith, EndsFailedCharged, EndsAbandoned, EndsCancelled
<1>3. CASE ReuseCheckpoint \/ MakeCheckpoint \/ CopyFile \/ CheckpointMade
           \/ Register \/ ProcessStarts \/ ProcessWrites \/ ProcessExits
           \/ ProcessAborts \/ ProcessCancelled \/ CheckedNoCancel
           \/ WipeWorkspace \/ Finish \/ CheckpointFails
    BY <1>3 DEF ReuseCheckpoint, MakeCheckpoint, CopyFile, CheckpointMade, Register,
       ProcessStarts, ProcessWrites, ProcessExits, ProcessAborts, ProcessCancelled,
       CheckedNoCancel, WipeWorkspace, Finish, CheckpointFails
<1>4. CASE Announce \/ AnnounceFails \/ HandlerFails \/ Persist("worker")
    BY <1>1, <1>4 DEF Announce, AnnounceFails, HandlerFails, Persist, TakeSnapshot,
       ReplaceFile, AppendEntry
<1>5. CASE WriteText \/ WriteOverBudget \/ ProcessRefused \/ RestoreRefused
           \/ RestoreStopped \/ RestoreCheckpoint \/ RunFails \/ LogFails
    BY <1>2, <1>5 DEF WriteText, WriteOverBudget, ProcessRefused, RestoreRefused,
       RestoreStopped, RestoreCheckpoint, SettleAfterRestore, EndsFailed, FailsWith,
         RunFails, LogFails
<1>6. CASE Judge
    BY <1>2, <1>6 DEF Judge, FailsWith
<1>. QED
    BY <1>3, <1>4, <1>5, <1>6 DEF WorkerStep

LEMMA DeskOwes ==
    ASSUME TypeOK, NEW writes, Owes("desk", writes)
    PROVE  due'["desk"] = writes
BY DEF Owes, TypeOK, Threads

LEMMA DeskStaysAlone ==
    ASSUME TypeOK, DeskAlone, [Next]_vars
    PROVE  DeskAlone'
<1>. USE DEF Threads
<1>. DEFINE Kept == desk' = desk /\ due'["desk"] = due["desk"]
<1>1. ASSUME Kept, worker'.action = worker.action
      PROVE  DeskAlone'
    BY <1>1 DEF DeskAlone, Quiet
<1>2. CASE \E a \in Actions : Execute(a)
  <2>1. Kept
      BY <1>2 DEF Execute, Owes, TypeOK
  <2>2. desk = Idle /\ Quiet("desk")
      BY <1>2, FreeNotRunning DEF Execute
  <2>. QED
      BY <2>1, <2>2 DEF DeskAlone, Quiet, Idle, NothingDue, NoEntry
<1>3. CASE ~Next
    BY <1>1, <1>3 DEF vars
<1>4. CASE NotRunning'
    BY <1>4 DEF DeskAlone, NotRunning
<1>. SUFFICES ASSUME Next, ~ \E a \in Actions : Execute(a), ~NotRunning'
              PROVE  DeskAlone'
    BY <1>2, <1>3, <1>4
<1>5. worker'.action = worker.action /\ ~NotRunning /\ ~Free
    BY RunUndisturbed, FreeNotRunning DEF Undisturbed, NotRunning
<1>6. CASE DeskCall
  <2>1. CancelLook
      BY <1>5, <1>6 DEF DeskCall, CreateSession, LoadSession, Exit, Plan, Approve,
         Pause, Resume, ManualCheckpoint, FinalizeCandidate
  <2>2. Desktop /\ desk'.pc \in {"stop run", "close"} /\ due' = due
      BY <1>5, <2>1 DEF CancelLook, Idle
  <2>. QED
      BY <1>5, <2>2 DEF DeskAlone, NotRunning
<1>7. CASE CancelSession \/ RequestCancel \/ SignalCancel
  <2>1. Desktop
    <3>1. desk.pc # "idle"
        BY <1>7 DEF CancelSession, RequestCancel, SignalCancel
    <3>. QED
        BY <1>5, <3>1 DEF DeskAlone, NotRunning, Idle
  <2>2. desk' = Idle \/ desk' = [desk EXCEPT !.pc = "signal"]
      BY <1>7 DEF CancelSession, RequestCancel, SignalCancel
  <2>3. desk'.pc # "planning"
    <3>1. CASE desk' = Idle
        BY <3>1 DEF Idle
    <3>2. CASE desk' = [desk EXCEPT !.pc = "signal"]
        BY <3>2 DEF TypeOK, DeskType
    <3>. QED
        BY <2>2, <3>1, <3>2
  <2>4. due' = due \/ \E event \in {"session_cancelled", "other"} :
                          Owes("desk", SaveThen(event, NoAction))
      BY <1>7 DEF CancelSession, RequestCancel, SignalCancel
  <2>5. due'["desk"].entry.event # "session_created"
    <3>1. CASE due' = due
        BY <1>5, <3>1 DEF DeskAlone, NotRunning
    <3>2. ASSUME NEW event \in {"session_cancelled", "other"},
                 Owes("desk", SaveThen(event, NoAction))
          PROVE  due'["desk"].entry.event # "session_created"
      <4>1. due'["desk"] = SaveThen(event, NoAction)
          BY <3>2, DeskOwes
      <4>2. SaveThen(event, NoAction).entry.event = event
          BY DEF SaveThen, Entry, NothingDue
      <4>. QED
          BY <4>1, <4>2
    <3>. QED
        BY <2>4, <3>1, <3>2
  <2>. QED
      BY <2>1, <2>3, <2>5 DEF DeskAlone
<1>8. CASE PlanOne \/ PlanRejected \/ PlanDone
    BY <1>5, <1>8 DEF PlanOne, PlanRejected, PlanDone, DeskAlone, NotRunning
<1>9. CASE Persist("desk")
  <2>1. desk' = desk
      BY <1>9 DEF Persist, TakeSnapshot, ReplaceFile, AppendEntry
  <2>2. ~Quiet("desk")
      BY <1>9 DEF Persist, TakeSnapshot, ReplaceFile, AppendEntry, Quiet, NothingDue
  <2>3. due'["desk"].entry \in {due["desk"].entry, NoEntry}
    <3>1. due["desk"] \in DueType
        BY DEF TypeOK
    <3>2. CASE TakeSnapshot("desk")
      <4>1. due'["desk"] = [due["desk"] EXCEPT !.save = "taken", !.image = mem]
          BY <3>2, DeskOwes DEF TakeSnapshot
      <4>. QED
          BY <3>1, <4>1 DEF DueType
    <3>3. CASE ReplaceFile("desk")
      <4>1. due'["desk"] = [due["desk"] EXCEPT !.save = "no", !.image = NoSession]
          BY <3>3, DeskOwes DEF ReplaceFile
      <4>. QED
          BY <3>1, <4>1 DEF DueType
    <3>4. CASE AppendEntry("desk")
      <4>1. due'["desk"] = NothingDue
          BY <3>4, DeskOwes DEF AppendEntry
      <4>. QED
          BY <4>1 DEF NothingDue
    <3>. QED
        BY <1>9, <3>2, <3>3, <3>4 DEF Persist
  <2>. QED
      BY <1>5, <2>1, <2>2, <2>3, ConstantsAssumption DEF DeskAlone, NotRunning, NoEntry
<1>10. CASE WorkerStep \/ ProcessWrites \/ CheckpointFails \/ AnnounceFails
            \/ RunFails \/ LogFails \/ HandlerFails
    BY <1>1, <1>5, <1>10, DeskUntouched
<1>11. CASE Crash
    BY <1>5, <1>11, ConstantsAssumption DEF Crash, NoRun, NotRunning
<1>12. CASE DeskWriteFails
    BY <1>12 DEF DeskWriteFails, Owes, TypeOK, Idle, NothingDue, NoEntry, DeskAlone, Quiet
<1>. QED
    BY <1>6, <1>7, <1>8, <1>9, <1>10, <1>11, <1>12 DEF Next, DeskStep, FaultStep

(* No run without approval: while an action runs it stays queued, permitted *)
(* and covered by a recorded grant.  The desk may cancel meanwhile, and any *)
(* write may fail; neither can take the grant away under the run.          *)
THEOREM OnlyApprovedRun == Spec => []RunsOnlyApproved
<1>. DEFINE IInv == TypeOK /\ DeskAlone /\ RunsOnlyApproved
<1>1. Init => IInv
  <2>1. Init => TypeOK
      BY InitType
  <2>2. Init => NoRun.action \notin Actions /\ worker = NoRun
      BY ConstantsAssumption DEF Init, NoRun
  <2>. QED
      BY <2>1, <2>2 DEF DeskAlone, RunsOnlyApproved
<1>2. IInv /\ [Next]_vars => IInv'
  <2>. SUFFICES ASSUME IInv, [Next]_vars PROVE RunsOnlyApproved'
      BY NextType, DeskStaysAlone
  <2>1. ASSUME Undisturbed PROVE RunsOnlyApproved'
    <3>. SUFFICES ASSUME worker.action \in Actions
                  PROVE  /\ worker.action \in Elems(mem'.queued)
                         /\ approvals'[worker.action].recorded
                         /\ Caps[worker.action] \subseteq approvals'[worker.action].caps
        BY <2>1 DEF RunsOnlyApproved, Undisturbed
    <3>. QED
        BY <2>1 DEF RunsOnlyApproved, Undisturbed
  <2>2. CASE Next /\ ~ \E a \in Actions : Execute(a)
      BY <2>1, <2>2, RunUndisturbed DEF RunsOnlyApproved, NotRunning
  <2>3. ASSUME NEW a \in Actions, Execute(a)
        PROVE  RunsOnlyApproved'
    <3>1. NotRunning
        BY <2>3, FreeNotRunning DEF Execute
    <3>2. mem' = mem /\ approvals' = approvals
        BY <2>3 DEF Execute, disk
    <3>3. worker'.action \in Actions => worker'.action = a /\ a \in Permitted
        BY <2>3, <3>1 DEF Execute, NoRun, NotRunning
    <3>4. a \in Elems(mem.queued) /\ FullyApproved(a)
        BY <2>3 DEF Execute, Executable
    <3>. QED
        BY <3>2, <3>3, <3>4 DEF RunsOnlyApproved, FullyApproved
  <2>4. CASE UNCHANGED vars
      BY <2>4 DEF vars, RunsOnlyApproved
  <2>. QED
      BY <2>2, <2>3, <2>4
<1>. QED
    BY <1>1, <1>2, PTL DEF Spec

---------------------------------------------------------------------------
(* Whose turn it is.  A session object is dropped only when nobody uses   *)
(* it: every call in progress, and every write owed, has one.             *)

Held == ~Loaded => desk = Idle /\ worker.pc = "idle" /\ \A t \in Threads : Quiet(t)

Resting == worker = NoRun /\ Quiet("worker")
Turns == ~Desktop => (desk = Idle /\ Quiet("desk")) \/ Resting

Opening == due["desk"].entry.event = "session_created" => desk = Idle /\ Resting

\* The worker owes writes at the start and at the end of a run only.
Settled == worker.pc \notin {"idle", "begin", "finish"} => Quiet("worker")

LInv == Held /\ Turns /\ Opening /\ Settled

---------------------------------------------------------------------------
(* Every copy of the list of completed actions is without repeats, and a  *)
(* completed run is in the session object before it is in the ledger.     *)

Copies == {mem, file} \cup {due[t].image : t \in Threads}
Lasting == /\ \A s \in Copies : NoRepeat(s.completed)
           /\ NoRepeat(ledger.completed)

Known == Loaded => Elems(ledger.completed) \subseteq Elems(mem.completed)

Fresh == worker.pc \notin {"idle", "finish"} => worker.action \notin Elems(mem.completed)

Owed ==
    /\ due["desk"].entry.event # "action_completed"
    /\ LET e == due["worker"].entry IN
       e.event = "action_completed" =>
           e.action \in Elems(mem.completed) \ Elems(ledger.completed)

\* A session without a file has an empty history.
Saved == /\ Loaded \/ ledger.completed # <<>> => file.state # "absent"
         /\ \A t \in Threads : due[t].save = "taken" => due[t].image.state # "absent"

CInv == Lasting /\ Known /\ Fresh /\ Owed /\ Saved

---------------------------------------------------------------------------
(* Every copy of the usage is within its ceilings, and up to its end a    *)
(* run has room for what it is about to spend.                            *)

Within(usage) == \A m \in Meters : usage[m] <= Ceiling(m)

Room ==
    /\ worker.pc \in WorkerPc \ {"idle", "wipe", "restore", "finish"} => WithinBudget(worker.action)
    /\ worker.pc \in {"process", "exited", "judge"} => InTime(worker.action)

BInv == Room /\ \A s \in Copies : Within(s.usage)

---------------------------------------------------------------------------
(* Whose turn it is, proved.                                              *)

LEMMA Resolved ==
    /\ NoSession.state = "absent" /\ FreshSession.state # "absent"
    /\ NoSession.completed = <<>> /\ FreshSession.completed = <<>>
    /\ NoSession.usage = [m \in Meters |-> 0] /\ FreshSession.usage = [m \in Meters |-> 0]
    /\ NoRun.pc = "idle" /\ Idle.pc = "idle" /\ NothingDue.entry.event = "none"
    /\ NothingDue.save = "no" /\ NothingDue.image = NoSession
    /\ NoEntry.event = "none"
BY DEF NoSession, FreshSession, NoRun, Idle, NothingDue, NoEntry

(* What a call comes to owe starts with nothing taken.                    *)
LEMMA DueShapes ==
    ASSUME NEW event, NEW a
    PROVE  /\ SaveThen(event, a).entry.event = event /\ SaveThen(event, a).entry.action = a
           /\ SaveThen(event, a).save = "due" /\ SaveThen(event, a).image = NoSession
           /\ JustAppend(event, a).entry.event = event /\ JustAppend(event, a).entry.action = a
           /\ JustAppend(event, a).save = "no" /\ JustAppend(event, a).image = NoSession
           /\ JustSave.entry.event = "none"
           /\ JustSave.save = "due" /\ JustSave.image = NoSession
BY DEF SaveThen, JustAppend, JustSave, Entry, NothingDue, NoEntry

LEMMA OwesOne ==
    ASSUME TypeOK, NEW t \in Threads, NEW w, Owes(t, w)
    PROVE  due'[t] = w /\ \A u \in Threads \ {t} : due'[u] = due[u]
BY DEF Owes, TypeOK

LEMMA FreeCall ==
    ASSUME TypeOK, Free, DeskCall
    PROVE  /\ worker' = NoRun /\ due'["worker"] = NothingDue
           /\ due'["desk"].entry.event = "session_created" => desk' = Idle
           /\ Loaded' \/ (desk' = Idle /\ due' = due)
<1>. USE Resolved
<1>1. "desk" \in Threads /\ "worker" \in Threads \ {"desk"}
    BY DEF Threads
<1>2. worker = NoRun /\ desk = Idle /\ due["worker"] = NothingDue /\ due["desk"] = NothingDue
    BY DEF Free, Threads, Quiet
<1>3. ASSUME NEW w, Owes("desk", w) PROVE due'["worker"] = NothingDue
    BY <1>1, <1>2, <1>3, OwesOne
<1>4. CASE CreateSession
    BY <1>2, <1>3, <1>4 DEF CreateSession, Loaded
<1>5. CASE LoadSession \/ Exit
    BY <1>2, <1>5 DEF LoadSession, Exit, Loaded, disk
<1>6. CASE (\E p \in Plans : Plan(p)) \/ CancelLook
    BY <1>2, <1>6 DEF Plan, CancelLook, Loaded, Active, disk
<1>7. CASE (\E a \in Actions, C \in Grants : Approve(a, C)) \/ ManualCheckpoint
    BY <1>2, <1>3, <1>7 DEF Approve, ManualCheckpoint, Loaded, Active, disk
<1>8. CASE Pause \/ Resume \/ FinalizeCandidate
  <2>1. mem'.state # "absent"
      BY <1>8 DEF Pause, Resume, FinalizeCandidate, TypeOK, Session
  <2>. QED
      BY <1>2, <1>3, <1>8, <2>1 DEF Pause, Resume, FinalizeCandidate, Loaded
<1>. QED
    BY <1>4, <1>5, <1>6, <1>7, <1>8 DEF DeskCall

(* What the worker's own steps do, up to its writes.                      *)
Working ==
    \/ ReuseCheckpoint \/ MakeCheckpoint \/ CopyFile \/ CheckpointMade
    \/ Register \/ Announce \/ WriteText \/ WriteOverBudget
    \/ ProcessRefused \/ ProcessStarts \/ ProcessWrites
    \/ ProcessExits \/ ProcessAborts \/ ProcessCancelled
    \/ CheckedNoCancel \/ Judge
    \/ RestoreRefused \/ WipeWorkspace \/ RestoreStopped \/ RestoreCheckpoint \/ Finish
    \/ CheckpointFails \/ AnnounceFails \/ RunFails \/ LogFails \/ HandlerFails

LEMMA EndShape ==
    ASSUME TypeOK, NEW usage,
           EndsCompleted(usage) \/ FailsWith(usage) \/ EndsCancelled
    PROVE  mem'.state # "absent" /\ worker'.pc = "finish" /\ worker'.action = worker.action
<1>1. CASE EndsCompleted(usage)
  <2>. DEFINE t == [mem EXCEPT !.completed = Append(@, worker.action), !.usage = usage]
  <2>1. mem' = [t EXCEPT !.state = IF Remaining(t) # {} THEN "waiting_approval" ELSE "paused"]
      BY <1>1 DEF EndsCompleted, Completed
  <2>2. "state" \in DOMAIN t
      BY DEF TypeOK, Session
  <2>3. mem'.state \in {"waiting_approval", "paused"}
    <3>. HIDE DEF t
    <3>. QED
        BY <2>1, <2>2
  <2>. QED
      BY <1>1, <2>3 DEF EndsCompleted, TypeOK, WorkerType
<1>2. CASE FailsWith(usage) \/ EndsCancelled
    BY <1>2 DEF FailsWith, EndsFailedCharged, EndsAbandoned, EndsCancelled, TypeOK, Session, WorkerType
<1>. QED
    BY <1>1, <1>2

LEMMA WorkingShape ==
    ASSUME TypeOK, LInv, Working
    PROVE  /\ worker.pc # "idle"
           /\ \/ mem'.state # "absent"
              \/ ~Desktop /\ mem' = NoSession /\ worker' = NoRun /\ due'["worker"] = NothingDue
           /\ worker'.pc \in {"idle", "begin", "finish"} \/ due'["worker"] = NothingDue
<1>. USE Resolved
<1>1. "worker" \in Threads
    BY DEF Threads
<1>2. CASE ReuseCheckpoint \/ MakeCheckpoint \/ CopyFile \/ CheckpointMade \/ Register
           \/ ProcessWrites \/ ProcessExits \/ ProcessAborts \/ ProcessCancelled
           \/ CheckedNoCancel \/ WipeWorkspace
  <2>1. mem' = mem /\ due' = due /\ worker.pc \notin {"idle", "begin", "finish"}
      BY <1>2 DEF ReuseCheckpoint, MakeCheckpoint, CopyFile, CheckpointMade, Register,
         ProcessWrites, ProcessExits, ProcessAborts, ProcessCancelled, CheckedNoCancel,
         WipeWorkspace
  <2>. QED
      BY <2>1 DEF LInv, Held, Settled, Loaded, Quiet
<1>3. CASE ProcessStarts
  <2>1. mem' = mem /\ due' = due /\ worker.pc = "begin" /\ Quiet("worker")
      BY <1>3 DEF ProcessStarts, Begins
  <2>. QED
      BY <2>1 DEF LInv, Held, Loaded, Quiet
<1>4. CASE Announce
    BY <1>4 DEF Announce, TypeOK, Session, WorkerType
<1>5. ASSUME worker.pc # "idle",
             NEW u, EndsCompleted(u) \/ FailsWith(u) \/ EndsCancelled
      PROVE  mem'.state # "absent" /\ worker'.pc = "finish"
    BY <1>5, EndShape
<1>6. CASE WriteText \/ WriteOverBudget \/ ProcessRefused \/ RestoreRefused
           \/ RestoreStopped \/ RestoreCheckpoint \/ RunFails \/ LogFails
  <2>1. worker.pc # "idle"
      BY <1>6 DEF WriteText, WriteOverBudget, ProcessRefused, Begins, RestoreRefused,
         RestoreStopped, RestoreCheckpoint, RunFails, LogFails
  <2>. QED
      BY <1>5, <1>6, <2>1 DEF WriteText, WriteOverBudget, ProcessRefused, RestoreRefused,
         RestoreStopped, RestoreCheckpoint, SettleAfterRestore, EndsFailed, FailsWith,
         RunFails, LogFails
<1>7. CASE Judge
  <2>1. worker.pc = "judge" /\ Loaded /\ Quiet("worker")
      BY <1>7 DEF Judge, FailsWith, LInv, Held, Settled
  <2>2. ASSUME NEW u, mem' = [mem EXCEPT !.usage = u], UNCHANGED due
        PROVE  mem'.state # "absent" /\ due'["worker"] = NothingDue
      BY <2>1, <2>2 DEF Loaded, Quiet, TypeOK, Session
  <2>. QED
      BY <1>5, <1>7, <2>1, <2>2 DEF Judge, FailsWith
<1>8. CASE Finish
    BY <1>8 DEF Finish, AfterRaise, LInv, Held, Loaded, Quiet
<1>9. CASE CheckpointFails
    BY <1>9 DEF CheckpointFails, AfterRaise, LInv, Held, Settled, Loaded, Quiet
<1>10. CASE AnnounceFails \/ HandlerFails
    BY <1>1, <1>10, OwesOne DEF AnnounceFails, HandlerFails, AfterRaise, LInv, Held, Loaded
<1>. QED
    BY <1>2, <1>3, <1>4, <1>6, <1>7, <1>8, <1>9, <1>10 DEF Working

(* What a write changes of what it owes.                                  *)
LEMMA PersistShape ==
    ASSUME TypeOK, NEW t \in Threads, Persist(t)
    PROVE  /\ mem' = mem /\ desk' = desk /\ worker' = worker
           /\ ~Quiet(t)
           /\ \A u \in Threads \ {t} : due'[u] = due[u]
           /\ due'[t].entry \in {due[t].entry, NoEntry}
<1>1. due[t] \in DueType
    BY DEF TypeOK
<1>2. CASE TakeSnapshot(t)
  <2>1. due'[t] = [due[t] EXCEPT !.save = "taken", !.image = mem]
      BY <1>2, OwesOne DEF TakeSnapshot
  <2>. QED
      BY <1>1, <1>2, <2>1, OwesOne, Resolved DEF TakeSnapshot, DueType, Quiet
<1>3. CASE ReplaceFile(t)
  <2>1. due'[t] = [due[t] EXCEPT !.save = "no", !.image = NoSession]
      BY <1>3, OwesOne DEF ReplaceFile
  <2>. QED
      BY <1>1, <1>3, <2>1, OwesOne, Resolved DEF ReplaceFile, DueType, Quiet
<1>4. CASE AppendEntry(t)
    BY <1>4, OwesOne, Resolved DEF AppendEntry, Quiet, NothingDue
<1>. QED
    BY <1>2, <1>3, <1>4 DEF Persist

LEMMA LNext ==
    ASSUME TypeOK, LInv, [Next]_vars
    PROVE  LInv'
<1>. USE Resolved DEF Resting, Quiet
<1>1. /\ "desk" \in Threads /\ "worker" \in Threads /\ "desk" # "worker"
      /\ \A t \in Threads : t \in {"desk", "worker"}
    BY DEF Threads
<1>2. CASE DeskCall /\ Free
  <2>1. Resting'
      BY <1>2, FreeCall
  <2>2. Held'
    <3>1. ASSUME due' = due PROVE \A t \in Threads : due'[t] = NothingDue
        BY <1>2, <3>1 DEF Free
    <3>. QED
        BY <1>2, <3>1, FreeCall DEF Held
  <2>. QED
      BY <1>2, <2>1, <2>2, FreeCall DEF LInv, Turns, Opening, Settled
<1>3. CASE DeskCall /\ ~Free
  <2>1. CancelLook /\ Desktop
      BY <1>3 DEF DeskCall, CreateSession, LoadSession, Exit, Plan, Approve, Pause, Resume,
         ManualCheckpoint, FinalizeCandidate, CancelLook
  <2>2. mem' = mem /\ due' = due /\ worker' = worker /\ Loaded /\ due["desk"] = NothingDue
      BY <2>1 DEF CancelLook
  <2>. QED
      BY <2>1, <2>2 DEF LInv, Held, Turns, Opening, Settled, Loaded
<1>4. CASE PlanOne \/ PlanRejected \/ PlanDone \/ CancelSession \/ RequestCancel \/ SignalCancel
  <2>1. desk # Idle /\ worker' = worker
      BY <1>4 DEF PlanOne, PlanRejected, PlanDone, CancelSession, RequestCancel, SignalCancel
  <2>2. Loaded /\ due["desk"].entry.event # "session_created" /\ (~Desktop => Resting)
      BY <2>1 DEF LInv, Held, Opening, Turns
  <2>3. due'["worker"] = due["worker"]
      BY <1>1, <1>4, OwesOne DEF PlanOne, PlanRejected, PlanDone, CancelSession,
         RequestCancel, SignalCancel
  <2>4. due'["desk"].entry.event # "session_created"
    <3>1. CASE PlanOne
      <4>1. due'["desk"] = JustAppend("action_queued", Head(desk.rest))
          BY <1>1, <3>1, OwesOne DEF PlanOne
      <4>. QED
          BY <4>1, DueShapes
    <3>2. CASE PlanDone
      <4>1. due'["desk"] = JustSave
          BY <1>1, <3>2, OwesOne DEF PlanDone
      <4>. QED
          BY <4>1, DueShapes
    <3>3. CASE CancelSession \/ RequestCancel
      <4>1. PICK e \in {"session_cancelled", "other"} : due'["desk"] = SaveThen(e, NoAction)
          BY <1>1, <3>3, OwesOne DEF CancelSession, RequestCancel
      <4>. QED
          BY <4>1, DueShapes
    <3>4. CASE PlanRejected \/ SignalCancel
        BY <2>2, <3>4 DEF PlanRejected, SignalCancel
    <3>. QED
        BY <1>4, <3>1, <3>2, <3>3, <3>4
  <2>5. Loaded' \/ (~Desktop /\ desk' = Idle /\ due'["desk"] = NothingDue)
    <3>1. CASE PlanRejected
        BY <2>2, <3>1 DEF PlanRejected, AfterRaise, Loaded
    <3>2. CASE ~PlanRejected
        BY <1>4, <2>2, <3>2 DEF PlanOne, PlanDone, CancelSession, RequestCancel,
           SignalCancel, Loaded, TypeOK, Session
    <3>. QED
        BY <3>1, <3>2
  <2>. QED
      BY <1>1, <2>1, <2>2, <2>3, <2>4, <2>5 DEF LInv, Held, Turns, Opening, Settled
<1>5. ASSUME NEW t \in Threads, Persist(t)
      PROVE  LInv'
  <2>1. Loaded /\ mem' = mem /\ desk' = desk /\ worker' = worker
      BY <1>5, PersistShape DEF LInv, Held
  <2>2. CASE t = "desk"
      BY <1>1, <1>5, <2>1, <2>2, PersistShape DEF LInv, Held, Turns, Opening, Settled, Loaded
  <2>3. CASE t = "worker"
      BY <1>1, <1>5, <2>1, <2>3, PersistShape DEF LInv, Held, Turns, Opening, Settled, Loaded
  <2>. QED
      BY <1>1, <2>2, <2>3
<1>6. ASSUME NEW a \in Actions, Execute(a)
      PROVE  LInv'
  <2>1. Free /\ Loaded /\ mem' = mem /\ desk' = desk
      BY <1>6 DEF Execute, Active, Loaded
  <2>2. desk = Idle /\ due["desk"] = NothingDue /\ worker = NoRun /\ due["worker"] = NothingDue
      BY <1>1, <2>1 DEF Free
  <2>3. due'["desk"] = NothingDue
      BY <1>1, <1>6, <2>2, OwesOne DEF Execute
  <2>4. worker'.pc = "idle" \/ due'["worker"] = NothingDue
      BY <1>6, <2>2 DEF Execute
  <2>. QED
      BY <2>1, <2>2, <2>3, <2>4 DEF LInv, Held, Turns, Opening, Settled, Loaded
<1>7. CASE Working
  <2>1. desk' = desk /\ due'["desk"] = due["desk"]
      BY <1>7, DeskUntouched DEF Working, WorkerStep
  <2>2. /\ worker.pc # "idle"
        /\ ~Desktop => desk = Idle /\ due["desk"] = NothingDue
        /\ due["desk"].entry.event # "session_created"
      BY <1>7, WorkingShape DEF LInv, Turns, Opening
  <2>3. Held'
      BY <1>1, <1>7, <2>1, <2>2, WorkingShape DEF Held, Loaded
  <2>. QED
      BY <1>7, <2>1, <2>2, <2>3, WorkingShape DEF LInv, Turns, Opening, Settled
<1>8. CASE Crash
    BY <1>1, <1>8 DEF Crash, LInv, Held, Turns, Opening, Settled, Loaded
<1>9. CASE DeskWriteFails
  <2>1. /\ desk' = Idle /\ due'["desk"] = NothingDue /\ due'["worker"] = due["worker"]
        /\ worker' = worker /\ Loaded
      BY <1>1, <1>9, OwesOne DEF DeskWriteFails, LInv, Held
  <2>2. mem' = mem \/ Resting
      BY <1>1, <1>9 DEF DeskWriteFails, AfterRaise, LInv, Turns, Opening
  <2>. QED
      BY <1>1, <2>1, <2>2 DEF LInv, Held, Turns, Opening, Settled, Loaded
<1>10. CASE UNCHANGED vars
    BY <1>10 DEF vars, LInv, Held, Turns, Opening, Settled, Loaded
<1>. QED
    BY <1>1, <1>2, <1>3, <1>4, <1>5, <1>6, <1>7, <1>8, <1>9, <1>10
    DEF Next, DeskStep, WorkerStep, FaultStep, Working

---------------------------------------------------------------------------
(* How a step moves what the invariants read.                             *)

MemCalm == mem' = NoSession \/ (mem'.completed = mem.completed /\ (Loaded' <=> Loaded))
UsageCalm == mem' = NoSession \/ mem'.usage = mem.usage

Bare(d) == d.image = NoSession /\ d.save # "taken"
Aside == /\ file' = file /\ ledger' = ledger
         /\ \A t \in Threads : due'[t] = due[t] \/ Bare(due'[t])
NoNews == \A t \in Threads : due'[t] = due[t] \/ due'[t].entry.event # "action_completed"

Spending == WorkerPc \ {"idle", "wipe", "restore", "finish"}
Timed == {"process", "exited", "judge"}
RunGoesOn ==
    \/ worker' = worker
    \/ worker'.pc \in {"idle", "finish"}
    \/ /\ worker'.action = worker.action
       /\ worker.pc \notin {"idle", "finish"}
       /\ worker'.pc \in Spending => worker.pc \in Spending
       /\ worker'.pc \in Timed => worker.pc \in Timed \/ InTime(worker.action)

LEMMA DeskAside ==
    ASSUME TypeOK, LInv,
           \/ DeskCall /\ ~CreateSession /\ ~LoadSession
           \/ PlanOne \/ PlanRejected \/ PlanDone
           \/ CancelSession \/ RequestCancel \/ SignalCancel
           \/ Crash \/ DeskWriteFails
    PROVE  MemCalm /\ UsageCalm /\ Aside /\ NoNews /\ RunGoesOn
<1>. USE Resolved DEF Aside, NoNews, RunGoesOn
<1>1. /\ "desk" \in Threads
      /\ \A t \in Threads : t = "desk" \/ t \in Threads \ {"desk"}
    BY DEF Threads
<1>2. ASSUME NEW w, Owes("desk", w), Bare(w), w.entry.event # "action_completed"
      PROVE  \A t \in Threads : \/ due'[t] = due[t]
                                \/ Bare(due'[t]) /\ due'[t].entry.event # "action_completed"
    BY <1>1, <1>2, OwesOne
<1>3. Bare(JustSave) /\ Bare(NothingDue)
      /\ \A e, a : Bare(JustAppend(e, a)) /\ Bare(SaveThen(e, a))
    BY DueShapes DEF Bare
<1>4. JustSave.entry.event # "action_completed"
      /\ \A e, a : /\ e # "action_completed" => JustAppend(e, a).entry.event # "action_completed"
                   /\ e # "action_completed" => SaveThen(e, a).entry.event # "action_completed"
    BY DueShapes
<1>5. CASE Exit \/ CancelLook \/ (\E p \in Plans : Plan(p)) \/ SignalCancel
    BY <1>5 DEF Exit, CancelLook, Plan, SignalCancel, disk, MemCalm, UsageCalm, Loaded
<1>6. CASE (\E a \in Actions, C \in Grants : Approve(a, C)) \/ ManualCheckpoint
  <2>1. PICK e \in {"action_approved", "other"} : \E a : Owes("desk", JustAppend(e, a))
      BY <1>6 DEF Approve, ManualCheckpoint
  <2>. QED
      BY <1>2, <1>3, <1>4, <1>6, <2>1 DEF Approve, ManualCheckpoint, disk, MemCalm,
         UsageCalm, Loaded
<1>7. CASE Pause \/ Resume \/ FinalizeCandidate \/ CancelSession \/ RequestCancel
  <2>1. PICK e \in {"other", "candidate_ready", "session_cancelled"} :
            Owes("desk", SaveThen(e, NoAction))
      BY <1>7 DEF Pause, Resume, FinalizeCandidate, CancelSession, RequestCancel
  <2>2. Loaded
      BY <1>7 DEF Pause, Resume, FinalizeCandidate, CancelSession, RequestCancel, Active,
         Loaded, LInv, Held
  <2>3. /\ mem'.completed = mem.completed /\ mem'.usage = mem.usage
        /\ mem'.state # "absent"
      BY <1>7 DEF Pause, Resume, FinalizeCandidate, CancelSession, RequestCancel, TypeOK, Session
  <2>4. file' = file /\ ledger' = ledger /\ worker' = worker
      BY <1>7 DEF Pause, Resume, FinalizeCandidate, CancelSession, RequestCancel, disk
  <2>. QED
      BY <1>2, <1>3, <1>4, <2>1, <2>2, <2>3, <2>4 DEF MemCalm, UsageCalm, Loaded
<1>8. CASE PlanOne \/ PlanDone
  <2>1. PICK w : Owes("desk", w) /\ Bare(w) /\ w.entry.event # "action_completed"
      BY <1>3, <1>4, <1>8 DEF PlanOne, PlanDone
  <2>2. Loaded
      BY <1>8 DEF PlanOne, PlanDone, LInv, Held
  <2>3. /\ mem'.completed = mem.completed /\ mem'.usage = mem.usage
        /\ mem'.state # "absent"
      BY <1>8, <2>2 DEF PlanOne, PlanDone, TypeOK, Session, Loaded
  <2>4. file' = file /\ ledger' = ledger /\ worker' = worker
      BY <1>8 DEF PlanOne, PlanDone, disk
  <2>. QED
      BY <1>2, <2>1, <2>2, <2>3, <2>4 DEF MemCalm, UsageCalm, Loaded
<1>9. CASE PlanRejected
    BY <1>9 DEF PlanRejected, AfterRaise, disk, MemCalm, UsageCalm, Loaded
<1>10. CASE Crash
  <2>1. \A t \in Threads : due'[t] = NothingDue
      BY <1>10 DEF Crash
  <2>. QED
      BY <1>3, <1>10, <2>1 DEF Crash, disk, MemCalm, UsageCalm
<1>11. CASE DeskWriteFails
    BY <1>2, <1>3, <1>11 DEF DeskWriteFails, AfterRaise, disk, MemCalm, UsageCalm, Loaded
<1>. QED
    BY <1>5, <1>6, <1>7, <1>8, <1>9, <1>10, <1>11 DEF DeskCall

(* What the end of a run owes, and what it keeps.                         *)
LEMMA EndAside ==
    ASSUME TypeOK, NEW usage,
           EndsCompleted(usage) \/ FailsWith(usage) \/ EndsCancelled
    PROVE  /\ \A t \in Threads : due'[t] = due[t] \/ Bare(due'[t])
           /\ ~EndsCompleted(usage) => NoNews /\ mem'.completed = mem.completed
           /\ mem'.usage \in {usage, mem.usage}
<1>1. /\ "worker" \in Threads
      /\ \A t \in Threads : t = "worker" \/ t \in Threads \ {"worker"}
    BY DEF Threads
<1>2. PICK e \in {"action_completed", "action_failed", "action_cancelled"} :
          /\ Owes("worker", SaveThen(e, worker.action))
          /\ ~EndsCompleted(usage) => e # "action_completed"
    BY DEF EndsCompleted, FailsWith, EndsFailedCharged, EndsAbandoned, EndsCancelled
<1>3. /\ due'["worker"] = SaveThen(e, worker.action)
      /\ \A t \in Threads \ {"worker"} : due'[t] = due[t]
    BY <1>1, <1>2, OwesOne
<1>4. Bare(due'["worker"]) /\ due'["worker"].entry.event = e
    BY <1>3, DueShapes DEF Bare
<1>5. ~EndsCompleted(usage) => mem'.completed = mem.completed
    BY DEF FailsWith, EndsFailedCharged, EndsAbandoned, EndsCancelled, TypeOK, Session
<1>6. mem'.usage \in {usage, mem.usage}
  <2>1. CASE EndsCompleted(usage)
    <3>. DEFINE t == [mem EXCEPT !.completed = Append(@, worker.action), !.usage = usage]
    <3>1. mem' = [t EXCEPT !.state = IF Remaining(t) # {} THEN "waiting_approval" ELSE "paused"]
        BY <2>1 DEF EndsCompleted, Completed
    <3>2. t.usage = usage
        BY DEF TypeOK, Session
    <3>. HIDE DEF t
    <3>. QED
        BY <3>1, <3>2
  <2>2. CASE FailsWith(usage) \/ EndsCancelled
      BY <2>2 DEF FailsWith, EndsFailedCharged, EndsAbandoned, EndsCancelled, TypeOK, Session
  <2>. QED
      BY <2>1, <2>2
<1>. QED
    BY <1>1, <1>2, <1>3, <1>4, <1>5, <1>6 DEF NoNews

Completing == \E usage : EndsCompleted(usage)

\* The steps that end a run, but for the judgement of a process.
Ending == WriteText \/ WriteOverBudget \/ ProcessRefused \/ RestoreRefused
          \/ RestoreStopped \/ RestoreCheckpoint \/ RunFails \/ LogFails

LEMMA WorkAside ==
    ASSUME TypeOK, LInv, Working
    PROVE  /\ Aside /\ RunGoesOn
           /\ ~Completing => MemCalm /\ NoNews
           /\ ~WriteText /\ ~Judge /\ ~LogFails => UsageCalm
<1>. USE Resolved DEF Aside, NoNews
<1>1. /\ "worker" \in Threads
      /\ \A t \in Threads : t = "worker" \/ t \in Threads \ {"worker"}
      /\ worker.pc # "idle" /\ Loaded
    BY WorkingShape DEF Threads, LInv, Held
<1>2. ASSUME NEW w, Owes("worker", w), Bare(w), w.entry.event # "action_completed"
      PROVE  \A t \in Threads : \/ due'[t] = due[t]
                                \/ Bare(due'[t]) /\ due'[t].entry.event # "action_completed"
    BY <1>1, <1>2, OwesOne
<1>3. Bare(NothingDue) /\ Bare(SaveThen("action_started", worker.action))
      /\ SaveThen("action_started", worker.action).entry.event = "action_started"
    BY DueShapes DEF Bare
<1>4. CASE ReuseCheckpoint \/ MakeCheckpoint \/ CopyFile \/ CheckpointMade \/ Register
           \/ ProcessStarts \/ ProcessWrites \/ ProcessExits \/ ProcessAborts
           \/ ProcessCancelled \/ CheckedNoCancel \/ WipeWorkspace
  <2>1. mem' = mem /\ due' = due /\ file' = file /\ ledger' = ledger
      BY <1>4 DEF ReuseCheckpoint, MakeCheckpoint, CopyFile, CheckpointMade, Register,
         ProcessStarts, ProcessWrites, ProcessExits, ProcessAborts, ProcessCancelled,
         CheckedNoCancel, WipeWorkspace, disk
  <2>2. RunGoesOn
    <3>1. CASE CopyFile \/ ProcessWrites
        BY <3>1 DEF CopyFile, ProcessWrites, RunGoesOn
    <3>2. CASE ReuseCheckpoint \/ MakeCheckpoint \/ CheckpointMade \/ Register
        BY <3>2 DEF ReuseCheckpoint, MakeCheckpoint, CheckpointMade, Register,
           RunGoesOn, Spending, Timed, TypeOK, WorkerType, WorkerPc
    <3>3. CASE ProcessStarts \/ ProcessExits \/ CheckedNoCancel
        BY <3>3 DEF ProcessStarts, Begins, ProcessExits, CheckedNoCancel,
           RunGoesOn, Spending, Timed, TypeOK, WorkerType, WorkerPc
    <3>4. CASE ProcessAborts \/ ProcessCancelled \/ WipeWorkspace
        BY <3>4 DEF ProcessAborts, ProcessCancelled, WipeWorkspace, Restores,
           RunGoesOn, Spending, Timed, TypeOK, WorkerType, WorkerPc
    <3>. QED
        BY <1>4, <3>1, <3>2, <3>3, <3>4
  <2>. QED
      BY <2>1, <2>2 DEF MemCalm, UsageCalm, Loaded
<1>5. CASE Announce
  <2>1. RunGoesOn
      BY <1>5 DEF Announce, RunGoesOn, Spending, Timed, TypeOK, WorkerType, WorkerPc
  <2>2. mem'.completed = mem.completed /\ mem'.usage = mem.usage /\ mem'.state # "absent"
      BY <1>5 DEF Announce, TypeOK, Session
  <2>. QED
      BY <1>1, <1>2, <1>3, <1>5, <2>1, <2>2 DEF Announce, disk, MemCalm, UsageCalm, Loaded
<1>6. CASE Finish \/ CheckpointFails
    BY <1>6 DEF Finish, CheckpointFails, AfterRaise, disk, MemCalm, UsageCalm, RunGoesOn, Loaded
<1>7. CASE AnnounceFails \/ HandlerFails
    BY <1>2, <1>3, <1>7 DEF AnnounceFails, HandlerFails, AfterRaise, disk, MemCalm,
       UsageCalm, RunGoesOn, Loaded
<1>8. ASSUME NEW u, EndsCompleted(u) \/ FailsWith(u) \/ EndsCancelled,
             file' = file, ledger' = ledger
      PROVE  /\ Aside /\ RunGoesOn
             /\ ~Completing => MemCalm /\ NoNews
             /\ mem'.usage \in {u, mem.usage}
    BY <1>1, <1>8, EndAside, EndShape DEF RunGoesOn, Completing, MemCalm, Loaded
<1>9. CASE Ending
  <2>1. file' = file /\ ledger' = ledger
      BY <1>9 DEF Ending, WriteText, WriteOverBudget, ProcessRefused, RestoreRefused,
         RestoreStopped, RestoreCheckpoint, RunFails, LogFails, disk
  <2>2. \E u : EndsCompleted(u) \/ FailsWith(u) \/ EndsCancelled
      BY <1>9 DEF Ending, WriteText, WriteOverBudget, ProcessRefused, RestoreRefused,
         RestoreStopped, RestoreCheckpoint, RunFails, LogFails, SettleAfterRestore, EndsFailed, FailsWith
  <2>3. ~WriteText /\ ~LogFails => FailsWith(mem.usage) \/ EndsCancelled
      BY <1>9 DEF Ending, WriteOverBudget, ProcessRefused, RestoreRefused,
         RestoreStopped, RestoreCheckpoint, RunFails, SettleAfterRestore, EndsFailed, FailsWith
  <2>4. ~WriteText /\ ~LogFails => UsageCalm
      BY <1>8, <2>1, <2>3 DEF UsageCalm
  <2>. QED
      BY <1>8, <2>1, <2>2, <2>4
<1>10. CASE Judge
  <2>1. file' = file /\ ledger' = ledger
      BY <1>10 DEF Judge, FailsWith, disk
  <2>2. ASSUME NEW u, mem' = [mem EXCEPT !.usage = u], Restores("failed"), UNCHANGED due
        PROVE  Aside /\ RunGoesOn /\ MemCalm /\ NoNews
      BY <1>10, <2>1, <2>2 DEF Judge, FailsWith, Restores, MemCalm, Loaded, RunGoesOn, Spending, Timed,
         TypeOK, Session, WorkerType, WorkerPc
  <2>. QED
      BY <1>8, <1>10, <2>1, <2>2 DEF Judge, FailsWith
<1>. QED
    BY <1>4, <1>5, <1>6, <1>7, <1>9, <1>10 DEF Working, Ending

---------------------------------------------------------------------------
(* Nothing is completed twice.                                            *)

LEMMA AppendFresh ==
    ASSUME NEW s \in Lists, NEW a \in Actions, NoRepeat(s), a \notin Elems(s)
    PROVE  NoRepeat(Append(s, a))
<1>1. Len(Append(s, a)) = Len(s) + 1 /\ Len(s) \in Nat
    BY DEF Lists
<1>2. \A i \in 1..Len(s) : Append(s, a)[i] = s[i] /\ s[i] # a
    BY DEF Lists, Elems
<1>3. Append(s, a)[Len(s) + 1] = a
    BY DEF Lists
<1>. QED
    BY <1>1, <1>2, <1>3 DEF NoRepeat

LEMMA EmptyLists == NoRepeat(<<>>) /\ Elems(<<>>) = {}
BY DEF NoRepeat, Elems

(* A step that writes nothing makes no copy but of memory.                *)
LEMMA CopiesAside ==
    ASSUME Aside
    PROVE  \A s \in Copies' : s \in Copies \cup {NoSession} \/ s = mem'
BY DEF Aside, Copies, Bare

LEMMA CalmOnce ==
    ASSUME LInv', CInv, MemCalm, Aside, NoNews, RunGoesOn
    PROVE  CInv'
<1>. USE Resolved, EmptyLists
<1>1. mem \in Copies /\ "desk" \in Threads /\ "worker" \in Threads
    BY DEF Copies, Threads
<1>2. mem'.completed \in {mem.completed, <<>>}
    BY DEF MemCalm
<1>3. Lasting'
  <2>1. NoRepeat(mem'.completed)
      BY <1>1, <1>2 DEF CInv, Lasting
  <2>2. \A s \in Copies' : NoRepeat(s.completed)
      BY <2>1, CopiesAside DEF CInv, Lasting
  <2>. QED
      BY <2>2 DEF Aside, CInv, Lasting
<1>4. Known' /\ Saved'
    BY DEF CInv, Known, Saved, MemCalm, Aside, Bare, Loaded
<1>5. Fresh'
    BY <1>2 DEF CInv, Fresh, RunGoesOn
<1>6. Owed'
  <2>1. due'["desk"].entry.event # "action_completed"
      BY <1>1 DEF CInv, Owed, NoNews
  <2>2. ASSUME due'["worker"].entry.event = "action_completed"
        PROVE  due'["worker"].entry.action \in Elems(mem'.completed) \ Elems(ledger'.completed)
    <3>1. due'["worker"] = due["worker"]
        BY <1>1, <2>2 DEF NoNews
    <3>2. Loaded'
        BY <1>1, <2>2 DEF LInv, Held, Quiet
    <3>. QED
        BY <2>2, <3>1, <3>2 DEF MemCalm, Loaded, CInv, Owed, Aside
  <2>. QED
      BY <2>1, <2>2 DEF Owed
<1>. QED
    BY <1>3, <1>4, <1>5, <1>6 DEF CInv

LEMMA CompletesOnce ==
    ASSUME TypeOK, LInv, CInv, NEW usage, EndsCompleted(usage),
           worker.pc \notin {"idle", "finish"}, Aside
    PROVE  CInv'
<1>. DEFINE a == worker.action
<1>1. /\ a \in Actions /\ mem.completed \in Lists /\ Loaded
      /\ mem \in Copies /\ "desk" \in Threads /\ "worker" \in Threads
    BY DEF TypeOK, Session, LInv, Held, Copies, Threads
<1>2. mem'.completed = Append(mem.completed, a)
  <2>. DEFINE t == [mem EXCEPT !.completed = Append(@, a), !.usage = usage]
  <2>1. mem' = [t EXCEPT !.state = IF Remaining(t) # {} THEN "waiting_approval" ELSE "paused"]
      BY DEF EndsCompleted, Completed
  <2>2. t.completed = Append(mem.completed, a)
      BY <1>1 DEF TypeOK, Session
  <2>. HIDE DEF t
  <2>. QED
      BY <2>1, <2>2
<1>3. a \notin Elems(mem.completed) /\ a \notin Elems(ledger.completed)
    BY <1>1 DEF CInv, Fresh, Known
<1>4. /\ due'["worker"].entry.event = "action_completed"
      /\ due'["worker"].entry.action = a
      /\ due'["desk"] = due["desk"]
    BY <1>1, OwesOne, DueShapes DEF EndsCompleted, Threads
<1>5. NoRepeat(mem'.completed) /\ Elems(mem'.completed) = Elems(mem.completed) \cup {a}
    BY <1>1, <1>2, <1>3, AppendFresh, AppendList DEF CInv, Lasting
<1>6. Lasting'
    BY <1>5, CopiesAside, Resolved, EmptyLists DEF CInv, Lasting, Aside
<1>7. worker'.pc = "finish" /\ mem'.state # "absent"
    BY EndShape
<1>8. Known' /\ Saved' /\ Fresh'
    BY <1>1, <1>5, <1>7 DEF CInv, Known, Saved, Fresh, Aside, Bare, Loaded
<1>9. Owed'
    BY <1>3, <1>4, <1>5 DEF CInv, Owed, Aside
<1>. QED
    BY <1>6, <1>8, <1>9 DEF CInv

LEMMA OpensOnce ==
    ASSUME TypeOK, CInv, CreateSession \/ LoadSession
    PROVE  CInv'
<1>. USE Resolved, EmptyLists
<1>1. /\ "desk" \in Threads /\ "worker" \in Threads
      /\ \A t \in Threads : t = "desk" \/ t = "worker"
    BY DEF Threads
<1>2. /\ worker' = NoRun /\ worker = NoRun /\ ledger' = ledger
      /\ due["worker"] = NothingDue /\ due["desk"] = NothingDue
    BY <1>1 DEF CreateSession, LoadSession, Free, Quiet, disk
<1>3. CASE CreateSession
  <2>1. mem' = FreshSession /\ file' = FreshSession /\ ledger.completed = <<>>
      BY <1>3 DEF CreateSession, CInv, Saved
  <2>2. due'["worker"] = NothingDue /\ due'["desk"] = JustAppend("session_created", NoAction)
      BY <1>1, <1>2, <1>3, OwesOne DEF CreateSession
  <2>3. /\ due'["desk"].image = NoSession /\ due'["desk"].save = "no"
        /\ due'["desk"].entry.event = "session_created"
      BY <2>2, DueShapes
  <2>4. \A t \in Threads : due'[t].image = NoSession /\ due'[t].save = "no"
      BY <1>1, <2>2, <2>3
  <2>5. \A s \in Copies' : s.completed = <<>>
      BY <2>1, <2>4 DEF Copies
  <2>. QED
      BY <1>2, <2>1, <2>2, <2>3, <2>4, <2>5
      DEF CInv, Lasting, Known, Fresh, Owed, Saved
<1>4. CASE LoadSession
  <2>1. mem' = file /\ file' = file /\ due' = due /\ file.state # "absent"
        /\ file.completed = ledger.completed
      BY <1>4 DEF LoadSession, Loadable, ListsAgree, disk
  <2>2. Copies' \subseteq Copies
      BY <2>1 DEF Copies
  <2>. QED
      BY <1>2, <2>1, <2>2 DEF CInv, Lasting, Known, Fresh, Owed, Saved
<1>. QED
    BY <1>3, <1>4

LEMMA WritesOnce ==
    ASSUME TypeOK, LInv, CInv, NEW t \in Threads, Persist(t)
    PROVE  CInv'
<1>. USE Resolved, EmptyLists
<1>1. /\ "desk" \in Threads /\ "worker" \in Threads
      /\ \A u \in Threads : u = "desk" \/ u = "worker"
    BY DEF Threads
<1>2. /\ due[t] \in DueType /\ Loaded
      /\ mem' = mem /\ worker' = worker
      /\ \A u \in Threads \ {t} : due'[u] = due[u]
      /\ due'[t].entry \in {due[t].entry, NoEntry}
    BY PersistShape DEF TypeOK, LInv, Held
<1>3. mem \in Copies /\ file \in Copies /\ \A u \in Threads : due[u].image \in Copies
    BY DEF Copies
<1>4. Fresh' /\ due'["desk"].entry.event # "action_completed"
    BY <1>1, <1>2 DEF CInv, Fresh, Owed
<1>5. CASE TakeSnapshot(t)
  <2>1. due'[t] = [due[t] EXCEPT !.save = "taken", !.image = mem]
      BY <1>5, OwesOne DEF TakeSnapshot
  <2>2. due'[t].image = mem /\ due'[t].entry = due[t].entry
      BY <1>2, <2>1 DEF DueType
  <2>3. file' = file /\ ledger' = ledger
      BY <1>5 DEF TakeSnapshot, disk
  <2>4. \A u \in Threads : due'[u].image \in Copies
      BY <1>2, <1>3, <2>2
  <2>5. Copies' \subseteq Copies
      BY <1>2, <1>3, <2>3, <2>4 DEF Copies
  <2>6. Saved'
      BY <1>2, <2>2, <2>3 DEF CInv, Saved, Loaded
  <2>7. Owed'
      BY <1>1, <1>2, <1>4, <2>2, <2>3 DEF CInv, Owed
  <2>. QED
      BY <1>2, <1>4, <2>3, <2>5, <2>6, <2>7 DEF CInv, Lasting, Known, Loaded
<1>6. CASE ReplaceFile(t)
  <2>1. due'[t] = [due[t] EXCEPT !.save = "no", !.image = NoSession]
      BY <1>6, OwesOne DEF ReplaceFile
  <2>2. due'[t].image = NoSession /\ due'[t].save = "no" /\ due'[t].entry = due[t].entry
      BY <1>2, <2>1 DEF DueType
  <2>3. file' = due[t].image /\ due[t].save = "taken" /\ ledger' = ledger
      BY <1>6 DEF ReplaceFile
  <2>4. \A u \in Threads : due'[u].image \in Copies \cup {NoSession}
      BY <1>2, <1>3, <2>2
  <2>5. Copies' \subseteq Copies \cup {NoSession}
      BY <1>2, <1>3, <2>3, <2>4 DEF Copies
  <2>6. Saved'
      BY <1>2, <2>2, <2>3 DEF CInv, Saved
  <2>7. Owed'
      BY <1>1, <1>2, <1>4, <2>2, <2>3 DEF CInv, Owed
  <2>8. Lasting'
      BY <2>3, <2>5 DEF CInv, Lasting
  <2>. QED
      BY <1>2, <1>4, <2>3, <2>6, <2>7, <2>8 DEF CInv, Known, Loaded
<1>7. CASE AppendEntry(t)
  <2>. DEFINE e == due[t].entry
  <2>1. due'[t] = NothingDue /\ file' = file /\ ledger' = Recorded(ledger, e)
      BY <1>7, OwesOne DEF AppendEntry
  <2>2. ledger \in LedgerType /\ e \in EntryType
      BY <1>2 DEF TypeOK, DueType
  <2>3. CASE e.event # "action_completed"
    <3>1. ledger'.completed = ledger.completed
        BY <2>1, <2>2, <2>3 DEF Recorded, LedgerType
    <3>2. Copies' \subseteq Copies \cup {NoSession}
        BY <1>2, <1>3, <2>1 DEF Copies
    <3>3. Saved'
        BY <1>2, <2>1, <3>1 DEF CInv, Saved, Loaded
    <3>4. Owed'
        BY <1>1, <1>2, <1>4, <2>1, <3>1 DEF CInv, Owed
    <3>5. Lasting'
        BY <3>1, <3>2 DEF CInv, Lasting
    <3>. QED
        BY <1>2, <1>4, <3>1, <3>3, <3>4, <3>5 DEF CInv, Known, Loaded
  <2>4. CASE e.event = "action_completed"
    <3>1. t = "worker" /\ e.action \in Elems(mem.completed) \ Elems(ledger.completed)
        BY <1>1, <2>4 DEF CInv, Owed
    <3>2. e.action \in Actions
        BY <2>2, <2>4 DEF EntryType, SessionEvents
    <3>3. ledger'.completed = Append(ledger.completed, e.action)
        BY <2>1, <2>2, <2>4 DEF Recorded, LedgerType, SessionEvents
    <3>4. /\ NoRepeat(ledger'.completed)
          /\ Elems(ledger'.completed) = Elems(ledger.completed) \cup {e.action}
        BY <2>2, <3>1, <3>2, <3>3, AppendFresh, AppendList DEF CInv, Lasting, LedgerType
    <3>5. Copies' \subseteq Copies \cup {NoSession}
        BY <1>2, <1>3, <2>1 DEF Copies
    <3>6. Lasting'
        BY <3>4, <3>5 DEF CInv, Lasting
    <3>7. Known'
        BY <1>2, <3>1, <3>4 DEF CInv, Known
    <3>8. Saved'
        BY <1>2, <2>1 DEF CInv, Saved
    <3>9. Owed'
        BY <1>4, <2>1, <3>1 DEF Owed
    <3>. QED
        BY <1>4, <3>6, <3>7, <3>8, <3>9 DEF CInv
  <2>. QED
      BY <2>3, <2>4
<1>. QED
    BY <1>5, <1>6, <1>7 DEF Persist

(* The start of a run, which checks that the action was not completed.    *)
LEMMA StartAside ==
    ASSUME TypeOK, NEW a \in Actions, Execute(a)
    PROVE  /\ mem' = mem /\ Aside /\ NoNews /\ worker = NoRun /\ due["worker"] = NothingDue
           /\ a \notin Elems(mem.completed) /\ WithinBudget(a)
           /\ worker' = NoRun \/ (worker'.pc = "checkpoint" /\ worker'.action = a)
<1>1. /\ "worker" \in Threads
      /\ \A t \in Threads : t = "worker" \/ t \in Threads \ {"worker"}
    BY DEF Threads
<1>2. worker = NoRun /\ due["worker"] = NothingDue /\ mem' = mem /\ file' = file /\ ledger' = ledger
    BY <1>1 DEF Execute, Free, Quiet, disk
<1>3. CASE a \in Permitted
    BY <1>2, <1>3 DEF Execute, Executable, Aside, NoNews, NoRun
<1>4. CASE a \notin Permitted
  <2>1. due'["worker"] = JustAppend("other", a) /\ \A t \in Threads \ {"worker"} : due'[t] = due[t]
      BY <1>1, <1>4, OwesOne DEF Execute
  <2>2. Bare(due'["worker"]) /\ due'["worker"].entry.event = "other"
      BY <2>1, DueShapes DEF Bare
  <2>. QED
      BY <1>1, <1>2, <1>4, <2>1, <2>2 DEF Execute, Executable, Aside, NoNews
<1>. QED
    BY <1>3, <1>4

LEMMA CompletingRuns ==
    ASSUME Working, Completing, TypeOK
    PROVE  \E usage : EndsCompleted(usage) /\ worker.pc \notin {"idle", "finish"}
<1>1. PICK usage : EndsCompleted(usage)
    BY DEF Completing
<1>2. worker'.pc = "finish" /\ worker'.out = "completed"
    BY <1>1 DEF EndsCompleted, TypeOK, WorkerType
<1>3. worker.pc # "idle"
    BY <1>2, Resolved DEF Working, ReuseCheckpoint, MakeCheckpoint, CopyFile, CheckpointMade,
       Register, Announce, WriteText, WriteOverBudget, ProcessRefused, ProcessStarts, Begins,
       ProcessWrites, ProcessExits, ProcessAborts, ProcessCancelled, CheckedNoCancel, Judge,
       RestoreRefused, WipeWorkspace, RestoreStopped, RestoreCheckpoint, Finish, CheckpointFails,
       AnnounceFails, RunFails, LogFails, HandlerFails
<1>4. CASE worker.pc = "finish"
  <2>1. Finish \/ RunFails \/ HandlerFails
      BY <1>4 DEF Working, ReuseCheckpoint, MakeCheckpoint, CopyFile, CheckpointMade,
         Register, Announce, WriteText, WriteOverBudget, ProcessRefused, ProcessStarts, Begins,
         ProcessWrites, ProcessExits, ProcessAborts, ProcessCancelled, CheckedNoCancel, Judge,
         RestoreRefused, WipeWorkspace, RestoreStopped, RestoreCheckpoint, CheckpointFails,
         AnnounceFails, LogFails
  <2>2. worker'.pc = "idle" \/ worker'.out = "failed"
      BY <2>1, Resolved DEF Finish, RunFails, HandlerFails, EndsFailed, FailsWith, EndsFailedCharged, EndsAbandoned,
         TypeOK, WorkerType
  <2>. QED
      BY <1>2, <2>2
<1>. QED
    BY <1>1, <1>3, <1>4

LEMMA CNext ==
    ASSUME TypeOK, LInv, LInv', CInv, [Next]_vars
    PROVE  CInv'
<1>1. CASE CreateSession \/ LoadSession
    BY <1>1, OpensOnce
<1>2. CASE \/ DeskCall /\ ~CreateSession /\ ~LoadSession
           \/ PlanOne \/ PlanRejected \/ PlanDone
           \/ CancelSession \/ RequestCancel \/ SignalCancel
           \/ Crash \/ DeskWriteFails
    BY <1>2, DeskAside, CalmOnce
<1>3. ASSUME NEW t \in Threads, Persist(t)
      PROVE  CInv'
    BY <1>3, WritesOnce
<1>4. ASSUME NEW a \in Actions, Execute(a)
      PROVE  CInv'
  <2>1. /\ mem' = mem /\ Aside /\ NoNews /\ a \notin Elems(mem.completed)
        /\ worker' = NoRun \/ (worker'.pc = "checkpoint" /\ worker'.action = a)
        /\ worker = NoRun
      BY <1>4, StartAside
  <2>2. CASE worker' = NoRun
      BY <2>1, <2>2, CalmOnce, Resolved DEF MemCalm, RunGoesOn, Loaded
  <2>3. CASE worker'.pc = "checkpoint" /\ worker'.action = a
    <3>1. Fresh'
        BY <2>1, <2>3 DEF Fresh
    <3>2. Lasting'
        BY <2>1, CopiesAside, Resolved, EmptyLists DEF CInv, Lasting, Aside, Copies
    <3>3. Known' /\ Saved'
        BY <2>1 DEF CInv, Known, Saved, Aside, Bare, Loaded
    <3>4. Owed'
        BY <2>1 DEF CInv, Owed, Aside, NoNews, Threads
    <3>. QED
        BY <3>1, <3>2, <3>3, <3>4 DEF CInv
  <2>. QED
      BY <2>1, <2>2, <2>3
<1>5. CASE Working
  <2>1. Aside /\ RunGoesOn
      BY <1>5, WorkAside
  <2>2. CASE Completing
      BY <1>5, <2>1, <2>2, CompletingRuns, CompletesOnce
  <2>3. CASE ~Completing
      BY <1>5, <2>1, <2>3, WorkAside, CalmOnce
  <2>. QED
      BY <2>2, <2>3
<1>6. CASE UNCHANGED vars
  <2>1. Copies' = Copies
      BY <1>6 DEF vars, Copies
  <2>. QED
      BY <1>6, <2>1 DEF vars, CInv, Lasting, Known, Fresh, Owed, Saved, Loaded
<1>. QED
    BY <1>1, <1>2, <1>3, <1>4, <1>5, <1>6
    DEF Next, DeskStep, WorkerStep, FaultStep, Working, Threads

---------------------------------------------------------------------------
(* No budget is passed.                                                   *)

LEMMA UsageNumbers ==
    ASSUME NEW u \in UsageType
    PROVE  \A m \in Meters : u[m] \in Nat
BY DEF UsageType

LEMMA LimitNumbers ==
    /\ \A m \in Meters : Limits[m] \in Nat /\ Ceiling(m) \in Nat /\ Limits[m] <= Ceiling(m)
    /\ Ceiling("seconds") = Limits["seconds"] + PollSlack
    /\ PollSlack \in Nat
    /\ \A a \in Actions : Timeout[a] \in Nat
BY ConstantsAssumption DEF Ceiling, Meters

LEMMA NothingSpent == Within([m \in Meters |-> 0])
BY LimitNumbers DEF Within

(* A run that had room has it with nothing spent.                         *)
LEMMA RoomAfresh ==
    ASSUME TypeOK, NEW a \in Actions, mem'.usage = [m \in Meters |-> 0]
    PROVE  (WithinBudget(a) => WithinBudget(a)') /\ (InTime(a) => InTime(a)')
<1>1. \A m \in Meters : mem.usage[m] \in Nat /\ mem'.usage[m] = 0
    BY UsageNumbers DEF TypeOK, Session
<1>2. \A c \in Spends(a) : Meter(c) \in Meters
    BY DEF Spends, Meter, Meters
<1>3. WithinBudget(a) => WithinBudget(a)'
    BY <1>1, <1>2, LimitNumbers DEF WithinBudget
<1>4. InTime(a) => InTime(a)'
    BY <1>1, LimitNumbers DEF InTime, Meters
<1>. QED
    BY <1>3, <1>4

(* What the end of a run charges is within the ceilings.                  *)
LEMMA ChargesFit ==
    ASSUME TypeOK, BInv, worker.pc = "judge", NEW elapsed \in Durations(worker.action)
    PROVE  /\ Within(Charged(worker.action, elapsed))
           /\ ChangesAccepted(worker.action) =>
                /\ Within(WithChanges(Charged(worker.action, elapsed)))
                /\ Within(Counted(WithChanges(Charged(worker.action, elapsed))))
<1>. DEFINE a == worker.action
            u == Charged(a, elapsed)
            v == WithChanges(u)
<1>1. /\ a \in Actions /\ elapsed \in Nat /\ elapsed <= Timeout[a] + PollSlack
      /\ mem.usage \in UsageType
    BY ConstantsAssumption DEF TypeOK, Session, Durations
<1>2. /\ WithinBudget(a) /\ InTime(a) /\ Within(mem.usage)
    BY DEF BInv, Room, Copies, WorkerPc
<1>3. \A m \in Meters : mem.usage[m] \in Nat /\ mem.usage[m] <= Ceiling(m)
    BY <1>1, <1>2, UsageNumbers DEF Within
<1>4. u["seconds"] = mem.usage["seconds"] + elapsed
    BY <1>1 DEF Charged, UsageType, Meters
<1>5. /\ u["network"] = IF "network" \in Caps[a] THEN mem.usage["network"] + 1
                                                 ELSE mem.usage["network"]
      /\ u["external"] = IF "external_action" \in Caps[a] THEN mem.usage["external"] + 1
                                                          ELSE mem.usage["external"]
      /\ u["files"] = mem.usage["files"] /\ u["actions"] = mem.usage["actions"]
    BY <1>1 DEF Charged, UsageType, Meters
<1>6. u["seconds"] <= Ceiling("seconds")
    BY <1>1, <1>2, <1>3, <1>4, LimitNumbers DEF InTime, Meters
<1>7. /\ "network" \in Caps[a] => mem.usage["network"] < Limits["network"]
      /\ "external_action" \in Caps[a] => mem.usage["external"] < Limits["external"]
      /\ mem.usage["actions"] < Limits["actions"]
    BY <1>2 DEF WithinBudget, Spends, Meter
<1>8. /\ u["network"] <= Ceiling("network") /\ u["external"] <= Ceiling("external")
  <2>1. Limits["network"] \in Nat /\ Ceiling("network") = Limits["network"]
        /\ Limits["external"] \in Nat /\ Ceiling("external") = Limits["external"]
      BY LimitNumbers DEF Ceiling, Meters
  <2>2. mem.usage["network"] \in Nat /\ mem.usage["network"] <= Ceiling("network")
        /\ mem.usage["external"] \in Nat /\ mem.usage["external"] <= Ceiling("external")
      BY <1>3 DEF Meters
  <2>. QED
      BY <1>5, <1>7, <2>1, <2>2
<1>9. Within(u)
    BY <1>3, <1>5, <1>6, <1>8 DEF Within, Meters
<1>10. ASSUME ChangesAccepted(a)
       PROVE  Within(v) /\ Within(Counted(v))
  <2>1. u \in UsageType /\ v \in UsageType
      BY <1>1, UsageTypes
  <2>2. /\ v["files"] = mem.usage["files"] + Cardinality(ChangedFiles)
        /\ \A m \in Meters \ {"files"} : v[m] = u[m]
      BY <1>5, <2>1 DEF WithChanges, UsageType, Meters
  <2>3. v["files"] <= Limits["files"] /\ Ceiling("files") = Limits["files"]
      BY <1>10, <2>2 DEF ChangesAccepted, Ceiling
  <2>4. Within(v)
      BY <1>9, <2>2, <2>3 DEF Within
  <2>5. /\ Counted(v)["actions"] = mem.usage["actions"] + 1
        /\ \A m \in Meters \ {"actions"} : Counted(v)[m] = v[m]
    <3>1. v["actions"] = mem.usage["actions"]
        BY <1>5, <2>2 DEF Meters
    <3>. HIDE DEF v
    <3>. QED
        BY <2>1, <3>1 DEF Counted, UsageType, Meters
  <2>6. mem.usage["actions"] + 1 <= Ceiling("actions")
    <3>1. mem.usage["actions"] \in Nat /\ Limits["actions"] \in Nat
          /\ Ceiling("actions") = Limits["actions"]
        BY <1>3, LimitNumbers DEF Meters, Ceiling
    <3>. QED
        BY <1>7, <3>1
  <2>. QED
      BY <2>4, <2>5, <2>6 DEF Within
<1>. QED
    BY <1>9, <1>10

LEMMA WriteFits ==
    ASSUME TypeOK, BInv, WriteText
    PROVE  Within([mem.usage EXCEPT !["files"] = @ + 1, !["actions"] = @ + 1])
<1>. DEFINE u == [mem.usage EXCEPT !["files"] = @ + 1, !["actions"] = @ + 1]
<1>1. mem.usage \in UsageType /\ WithinBudget(worker.action) /\ Within(mem.usage)
    BY DEF TypeOK, Session, BInv, Room, Copies, WorkerPc, WriteText, Begins
<1>2. mem.usage["files"] < Limits["files"] /\ mem.usage["actions"] < Limits["actions"]
    BY <1>1 DEF WriteText, WithinBudget, Spends, Meter
<1>3. /\ u["files"] = mem.usage["files"] + 1 /\ u["actions"] = mem.usage["actions"] + 1
      /\ \A m \in Meters \ {"files", "actions"} : u[m] = mem.usage[m]
    BY <1>1 DEF UsageType, Meters
<1>4. /\ mem.usage["files"] \in Nat /\ mem.usage["actions"] \in Nat
      /\ Limits["files"] \in Nat /\ Limits["actions"] \in Nat
      /\ Ceiling("files") = Limits["files"] /\ Ceiling("actions") = Limits["actions"]
    BY <1>1, UsageNumbers, LimitNumbers DEF Meters, Ceiling
<1>5. u["files"] <= Ceiling("files") /\ u["actions"] <= Ceiling("actions")
    BY <1>2, <1>3, <1>4
<1>. HIDE DEF u
<1>. QED
    BY <1>1, <1>3, <1>5 DEF Within, u

LEMMA CopiesWithin ==
    ASSUME BInv, Aside, Within(mem'.usage)
    PROVE  \A s \in Copies' : Within(s.usage)
BY CopiesAside, NothingSpent, Resolved DEF BInv

LEMMA CalmWithin ==
    ASSUME TypeOK, TypeOK', BInv, UsageCalm, Aside, RunGoesOn
    PROVE  BInv'
<1>1. CASE mem'.usage = mem.usage
  <2>1. Within(mem'.usage)
      BY <1>1 DEF BInv, Copies
  <2>2. Room'
      BY <1>1 DEF BInv, Room, RunGoesOn, Spending, Timed, WithinBudget, InTime
  <2>. QED
      BY <2>1, <2>2, CopiesWithin DEF BInv
<1>2. CASE mem'.usage = [m \in Meters |-> 0]
  <2>1. Within(mem'.usage)
      BY <1>2, NothingSpent
  <2>2. Room'
    <3>1. CASE worker'.pc \in {"idle", "wipe", "restore", "finish"}
        BY <3>1 DEF Room
    <3>2. CASE worker'.pc \notin {"idle", "wipe", "restore", "finish"}
      <4>1. /\ worker'.action = worker.action /\ worker.action \in Actions
            /\ worker'.pc \in Spending => worker.pc \in Spending
            /\ worker'.pc \in Timed => worker.pc \in Timed \/ InTime(worker.action)
          BY <3>2 DEF RunGoesOn, TypeOK, Spending
      <4>2. /\ worker'.pc \in Spending => WithinBudget(worker.action)
            /\ worker'.pc \in Timed => InTime(worker.action)
          BY <4>1 DEF BInv, Room, Spending, Timed
      <4>3. /\ worker'.pc \in Spending => WithinBudget(worker.action)'
            /\ worker'.pc \in Timed => InTime(worker.action)'
          BY <1>2, <4>1, <4>2, RoomAfresh DEF WithinBudget, InTime
      <4>. QED
          BY <4>3 DEF Room, Spending, Timed
    <3>. QED
        BY <3>1, <3>2
  <2>. QED
      BY <2>1, <2>2, CopiesWithin DEF BInv
<1>. QED
    BY <1>1, <1>2, Resolved DEF UsageCalm

LEMMA ChargedWithin ==
    ASSUME TypeOK, LInv, BInv, WriteText \/ Judge \/ LogFails
    PROVE  BInv'
<1>1. Aside
    BY WorkAside DEF Working
<1>2. ASSUME NEW u, Within(u), EndsCompleted(u) \/ FailsWith(u)
      PROVE  Within(mem'.usage) /\ worker'.pc = "finish"
    BY <1>2, EndAside, EndShape DEF BInv, Copies
<1>3. CASE WriteText
    BY <1>1, <1>2, <1>3, WriteFits, CopiesWithin DEF WriteText, BInv, Room
<1>4. CASE Judge
  <2>1. worker.pc = "judge"
      BY <1>4 DEF Judge, FailsWith
  <2>2. ASSUME NEW u, Within(u), mem' = [mem EXCEPT !.usage = u], Restores("failed")
        PROVE  Within(mem'.usage) /\ worker'.pc = "wipe"
      BY <2>2 DEF Restores, TypeOK, Session, WorkerType
  <2>3. Within(mem'.usage) /\ worker'.pc \in {"finish", "wipe"}
      BY <1>2, <1>4, <2>1, <2>2, ChargesFit DEF Judge, FailsWith
  <2>. QED
      BY <1>1, <2>3, CopiesWithin DEF BInv, Room
<1>5. CASE LogFails
  <2>1. worker.pc = "judge"
      BY <1>5 DEF LogFails
  <2>2. Within(mem'.usage) /\ worker'.pc = "finish"
      BY <1>2, <1>5, <2>1, ChargesFit DEF LogFails, FailsWith
  <2>. QED
      BY <1>1, <2>2, CopiesWithin DEF BInv, Room
<1>. QED
    BY <1>3, <1>4, <1>5

LEMMA BNext ==
    ASSUME TypeOK, TypeOK', LInv, BInv, [Next]_vars
    PROVE  BInv'
<1>. USE Resolved
<1>1. mem \in Copies /\ file \in Copies /\ \A t \in Threads : due[t].image \in Copies
    BY DEF Copies
<1>2. CASE CreateSession \/ LoadSession
  <2>1. worker'.pc = "idle"
      BY <1>2 DEF CreateSession, LoadSession, Free
  <2>2. \A t \in Threads : due'[t].image \in Copies \cup {NoSession}
    <3>1. CASE CreateSession
        BY <1>1, <3>1, OwesOne, DueShapes DEF CreateSession, Threads
    <3>2. CASE LoadSession
        BY <1>1, <3>2 DEF LoadSession
    <3>. QED
        BY <1>2, <3>1, <3>2
  <2>3. mem' \in Copies \cup {FreshSession} /\ file' \in Copies \cup {FreshSession}
      BY <1>1, <1>2 DEF CreateSession, LoadSession, disk
  <2>4. \A s \in Copies' : s \in Copies \cup {NoSession, FreshSession}
      BY <2>2, <2>3 DEF Copies
  <2>. QED
      BY <2>1, <2>4, NothingSpent DEF BInv, Room
<1>3. CASE \/ DeskCall /\ ~CreateSession /\ ~LoadSession
           \/ PlanOne \/ PlanRejected \/ PlanDone
           \/ CancelSession \/ RequestCancel \/ SignalCancel
           \/ Crash \/ DeskWriteFails
    BY <1>3, DeskAside, CalmWithin
<1>4. ASSUME NEW t \in Threads, Persist(t)
      PROVE  BInv'
  <2>1. mem' = mem /\ worker' = worker /\ \A u \in Threads \ {t} : due'[u] = due[u]
      BY <1>4, PersistShape
  <2>2. file' \in Copies /\ due'[t].image \in Copies \cup {NoSession}
    <3>0. due[t] \in DueType
        BY DEF TypeOK
    <3>1. CASE TakeSnapshot(t)
      <4>1. due'[t] = [due[t] EXCEPT !.save = "taken", !.image = mem]
          BY <3>1, OwesOne DEF TakeSnapshot
      <4>. QED
          BY <1>1, <3>0, <3>1, <4>1 DEF TakeSnapshot, DueType, disk
    <3>2. CASE ReplaceFile(t)
      <4>1. due'[t] = [due[t] EXCEPT !.save = "no", !.image = NoSession]
          BY <3>2, OwesOne DEF ReplaceFile
      <4>. QED
          BY <1>1, <3>0, <3>2, <4>1 DEF ReplaceFile, DueType
    <3>3. CASE AppendEntry(t)
        BY <1>1, <3>3, OwesOne DEF AppendEntry
    <3>. QED
        BY <1>4, <3>1, <3>2, <3>3 DEF Persist
  <2>3. \A u \in Threads : due'[u].image \in Copies \cup {NoSession}
      BY <1>1, <2>1, <2>2
  <2>4. \A s \in Copies' : s \in Copies \cup {NoSession}
      BY <1>1, <2>1, <2>2, <2>3 DEF Copies
  <2>. QED
      BY <2>1, <2>4, NothingSpent DEF BInv, Room, WithinBudget, InTime
<1>5. ASSUME NEW a \in Actions, Execute(a)
      PROVE  BInv'
  <2>1. /\ mem' = mem /\ Aside /\ WithinBudget(a)
        /\ worker' = NoRun \/ (worker'.pc = "checkpoint" /\ worker'.action = a)
      BY <1>5, StartAside
  <2>2. Room'
      BY <2>1 DEF Room, WithinBudget
  <2>. QED
      BY <1>1, <2>1, <2>2, CopiesWithin DEF BInv
<1>6. CASE Working /\ ~WriteText /\ ~Judge /\ ~LogFails
    BY <1>6, WorkAside, CalmWithin
<1>7. CASE WriteText \/ Judge \/ LogFails
    BY <1>7, ChargedWithin
<1>8. CASE UNCHANGED vars
  <2>1. Copies' = Copies
      BY <1>8 DEF vars, Copies
  <2>. QED
      BY <1>8, <2>1 DEF vars, BInv, Room, WithinBudget, InTime
<1>. QED
    BY <1>2, <1>3, <1>4, <1>5, <1>6, <1>7, <1>8
    DEF Next, DeskStep, WorkerStep, FaultStep, Working, Threads

---------------------------------------------------------------------------
(* The theorems.                                                          *)

LEMMA RunInit == Init => LInv /\ CInv /\ BInv
<1>. SUFFICES ASSUME Init PROVE LInv /\ CInv /\ BInv
    OBVIOUS
<1>. USE Resolved, EmptyLists
<1>1. /\ mem = NoSession /\ file = NoSession /\ worker = NoRun /\ desk = Idle
      /\ \A t \in Threads : due[t] = NothingDue
      /\ ledger.completed = <<>>
    BY DEF Init, EmptyLedger
<1>2. \A s \in Copies : s = NoSession
    BY <1>1 DEF Copies
<1>3. "desk" \in Threads /\ "worker" \in Threads
    BY DEF Threads
<1>4. LInv
    BY <1>1, <1>3 DEF LInv, Held, Turns, Resting, Opening, Settled, Quiet
<1>5. CInv
    BY <1>1, <1>2, <1>3 DEF CInv, Lasting, Known, Fresh, Owed, Saved, Loaded
<1>6. BInv
    BY <1>1, <1>2, NothingSpent DEF BInv, Room
<1>. QED
    BY <1>4, <1>5, <1>6

LEMMA RunInvariant == Spec => [](TypeOK /\ LInv /\ CInv /\ BInv)
<1>1. Init => TypeOK
    BY InitType
<1>2. TypeOK /\ LInv /\ CInv /\ BInv /\ [Next]_vars => (TypeOK /\ LInv /\ CInv /\ BInv)'
  <2>1. TypeOK /\ [Next]_vars => TypeOK'
      BY NextType
  <2>2. TypeOK /\ LInv /\ [Next]_vars => LInv'
      BY LNext
  <2>3. TypeOK /\ LInv /\ LInv' /\ CInv /\ [Next]_vars => CInv'
      BY CNext
  <2>4. TypeOK /\ TypeOK' /\ LInv /\ BInv /\ [Next]_vars => BInv'
      BY BNext
  <2>. QED
      BY <2>1, <2>2, <2>3, <2>4
<1>. QED
    BY <1>1, <1>2, RunInit, PTL DEF Spec

(* No completed action is run again or recorded twice (service.py, execute *)
(* and load_session), across retries, crashes between any two writes and   *)
(* reloads from what was written.                                          *)
THEOREM NothingTwice == Spec => []CompletedOnce
<1>1. CInv => CompletedOnce
    BY DEF CInv, Lasting, Copies, CompletedOnce
<1>. QED
    BY <1>1, RunInvariant, PTL

(* No meter passes its limit, in memory or in session.json, but for the    *)
(* seconds a process ran past its timeout (service.py, the budget checks). *)
THEOREM LimitsKept == Spec => []BudgetsHold
<1>1. BInv => BudgetsHold
    BY DEF BInv, Within, Copies, BudgetsHold
<1>. QED
    BY <1>1, RunInvariant, PTL

---------------------------------------------------------------------------
(* A fault is counted for good.                                            *)
LEMMA FaultsGrow ==
    ASSUME TypeOK, [Next]_vars, faults' = 0
    PROVE  faults = 0 /\ ~FaultStep
<1>1. ~FaultStep
    BY DEF FaultStep, Crash, DeskWriteFails, CheckpointFails, AnnounceFails, RunFails, LogFails,
       HandlerFails, Fault, TypeOK
<1>2. faults = 0
    BY <1>1 DEF Next, DeskCall, CreateSession, LoadSession, Exit, Plan, Approve, Pause, Resume,
       ManualCheckpoint, FinalizeCandidate, CancelLook, DeskStep, PlanOne, PlanRejected, PlanDone,
       CancelSession, RequestCancel, SignalCancel, Persist, TakeSnapshot, ReplaceFile, AppendEntry,
       Execute, WorkerStep, ReuseCheckpoint, MakeCheckpoint, CopyFile, CheckpointMade, Register,
       Announce, WriteText, WriteOverBudget, ProcessRefused, ProcessStarts, ProcessExits,
       ProcessAborts, ProcessCancelled, CheckedNoCancel, Judge, RestoreRefused, WipeWorkspace,
       RestoreStopped, RestoreCheckpoint, Finish, ProcessWrites, vars
<1>. QED
    BY <1>1, <1>2

---------------------------------------------------------------------------
(* What a run restores from, as long as nothing failed: one checkpoint    *)
(* per base and action, whole but while it is copied, and a workspace the *)
(* run has not touched before it begins.                                  *)

Keyed == \A c, d \in checkpoints : c.base = d.base /\ c.action = d.action => c = d
Copied == \A c \in checkpoints : c.files = c.base \/ (worker.pc = "copying" /\ SameCheckpoint(c))
Untouched == worker.pc \in {"register", "announce", "begin"} => workspace = worker.base
Covered == {"register", "announce", "begin", "process", "exited", "judge", "wipe", "restore"}
Backed == worker.pc \in Covered => \E c \in checkpoints : RestoreSource(c)
PutBack == worker.pc = "finish" /\ worker.out \in {"failed", "cancelled"} /\ worker.base # {}
              => workspace = worker.base

RInv == Keyed /\ Copied /\ Untouched /\ Backed /\ PutBack

(* A step of a run that touches no checkpoint and not yet the workspace.   *)
LEMMA RunKeepsBack ==
    ASSUME TypeOK, RInv, worker.pc \in Covered, worker'.pc \in Covered,
           checkpoints' = checkpoints, worker'.base = worker.base, worker'.action = worker.action,
           worker'.pc \in {"register", "announce", "begin"} =>
               worker.pc \in {"register", "announce", "begin"} /\ workspace' = workspace
    PROVE  RInv'
<1>1. worker.pc # "copying"
    BY DEF Covered
<1>. QED
    BY <1>1 DEF RInv, Keyed, Copied, Untouched, Backed, RestoreSource, PutBack, Covered

(* A run ends with the files it began with, or completed.                  *)
LEMMA RunEndsBack ==
    ASSUME TypeOK, RInv, worker.pc \in Covered, checkpoints' = checkpoints,
           worker'.pc = "finish", worker'.base = worker.base,
           \/ worker'.out \in {"completed", "abandoned"}
           \/ worker.base # {} => workspace' = worker.base
    PROVE  RInv'
<1>1. worker.pc # "copying"
    BY DEF Covered
<1>. QED
    BY <1>1 DEF RInv, Keyed, Copied, Untouched, Backed, PutBack, Covered

(* No run is in progress after the step.                                  *)
LEMMA NoRunBack ==
    ASSUME RInv, worker.pc # "copying", checkpoints' = checkpoints,
           worker'.pc \in {"idle", "checkpoint"}
    PROVE  RInv'
BY DEF RInv, Keyed, Copied, Untouched, Backed, PutBack, Covered

LEMMA EndKeepsBase ==
    ASSUME TypeOK, NEW usage,
           EndsCompleted(usage) \/ FailsWith(usage) \/ EndsCancelled
    PROVE  /\ worker'.pc = "finish" /\ worker'.base = worker.base
           /\ EndsCompleted(usage) => worker'.out = "completed"
           /\ EndsAbandoned(usage) => worker'.out = "abandoned"
BY DEF EndsCompleted, FailsWith, EndsFailedCharged, EndsAbandoned,
         EndsCancelled, TypeOK, WorkerType

LEMMA CheckpointsBack ==
    ASSUME TypeOK, RInv,
           ReuseCheckpoint \/ MakeCheckpoint \/ CopyFile \/ CheckpointMade
    PROVE  RInv'
<1>1. CASE ReuseCheckpoint
  <2>1. worker'.pc = "register" /\ worker'.base = workspace /\ worker'.action = worker.action
        /\ worker.pc = "checkpoint" /\ checkpoints' = checkpoints /\ workspace' = workspace
      BY <1>1 DEF ReuseCheckpoint, TypeOK, WorkerType, disk
  <2>2. \E c \in checkpoints : SameCheckpoint(c)
      BY <1>1 DEF ReuseCheckpoint
  <2>. QED
      BY <2>1, <2>2 DEF RInv, Keyed, Copied, Untouched, Backed, RestoreSource, SameCheckpoint,
         PutBack, Covered
<1>2. CASE MakeCheckpoint
  <2>. DEFINE n == [base |-> workspace, action |-> worker.action, files |-> {}]
  <2>1. worker'.pc = "copying" /\ worker'.action = worker.action /\ worker.pc = "checkpoint"
        /\ checkpoints' = checkpoints \cup {n} /\ workspace' = workspace
      BY <1>2 DEF MakeCheckpoint, TypeOK, WorkerType
  <2>2. \A c \in checkpoints : ~SameCheckpoint(c)
      BY <1>2 DEF MakeCheckpoint
  <2>3. n.base = workspace /\ n.action = worker.action
      OBVIOUS
  <2>. HIDE DEF n
  <2>4. Keyed'
      BY <2>1, <2>2, <2>3 DEF RInv, Keyed, SameCheckpoint
  <2>5. Copied'
      BY <2>1, <2>3 DEF RInv, Copied, SameCheckpoint
  <2>. QED
      BY <2>1, <2>4, <2>5 DEF RInv, Untouched, Backed, PutBack, Covered
<1>3. CASE CopyFile
  <2>1. PICK c \in checkpoints, f \in workspace :
            /\ SameCheckpoint(c)
            /\ checkpoints' = (checkpoints \ {c}) \cup {[c EXCEPT !.files = @ \cup {f}]}
      BY <1>3 DEF CopyFile
  <2>2. PICK n : n = [c EXCEPT !.files = @ \cup {f}]
      OBVIOUS
  <2>3. n.base = c.base /\ n.action = c.action
      BY <2>2 DEF TypeOK, CheckpointType
  <2>4. worker' = worker /\ worker.pc = "copying" /\ workspace' = workspace
      BY <1>3 DEF CopyFile
  <2>5. Keyed'
    <3>1. \A d \in checkpoints : d.base = n.base /\ d.action = n.action => d = c
        BY <2>1, <2>3 DEF RInv, Keyed
    <3>2. \A d \in checkpoints' : d = n \/ (d \in checkpoints /\ d # c)
        BY <2>1, <2>2
    <3>3. \A d, e \in checkpoints : d.base = e.base /\ d.action = e.action => d = e
        BY DEF RInv, Keyed
    <3>. QED
        BY <3>1, <3>2, <3>3 DEF Keyed
  <2>6. Copied'
      BY <2>1, <2>2, <2>3, <2>4 DEF RInv, Copied, SameCheckpoint
  <2>. QED
      BY <2>4, <2>5, <2>6 DEF RInv, Untouched, Backed, PutBack, Covered
<1>4. CASE CheckpointMade
  <2>1. worker'.pc = "register" /\ worker'.base = workspace /\ worker'.action = worker.action
        /\ checkpoints' = checkpoints /\ workspace' = workspace
      BY <1>4 DEF CheckpointMade, TypeOK, WorkerType, disk
  <2>2. PICK c \in checkpoints : SameCheckpoint(c) /\ c.files = workspace
      BY <1>4 DEF CheckpointMade
  <2>3. \A d \in checkpoints : d.files = d.base
      BY <2>2 DEF RInv, Copied, Keyed, SameCheckpoint
  <2>. QED
      BY <2>1, <2>2, <2>3 DEF RInv, Keyed, Copied, Untouched, Backed, RestoreSource,
         SameCheckpoint, PutBack, Covered
<1>. QED
    BY <1>1, <1>2, <1>3, <1>4

LEMMA RunBack ==
    ASSUME TypeOK, RInv,
           \/ Register \/ Announce \/ WriteText \/ WriteOverBudget
           \/ ProcessRefused \/ ProcessStarts \/ ProcessWrites
           \/ ProcessExits \/ ProcessAborts \/ ProcessCancelled
           \/ CheckedNoCancel \/ Judge
           \/ RestoreRefused \/ WipeWorkspace \/ RestoreStopped \/ RestoreCheckpoint \/ Finish
    PROVE  RInv'
<1>1. CASE Register \/ Announce
    BY <1>1, RunKeepsBack DEF Register, Announce, disk, TypeOK, WorkerType, Covered
<1>2. CASE ProcessStarts \/ ProcessExits \/ CheckedNoCancel
    BY <1>2, RunKeepsBack DEF ProcessStarts, Begins, ProcessExits, CheckedNoCancel, disk,
       TypeOK, WorkerType, Covered
<1>3. CASE ProcessWrites
  <2>1. worker' = worker /\ checkpoints' = checkpoints /\ worker.pc = "process"
      BY <1>3 DEF ProcessWrites
  <2>. QED
      BY <2>1, RunKeepsBack DEF Covered
<1>4. CASE ProcessAborts \/ ProcessCancelled \/ WipeWorkspace
    BY <1>4, RunKeepsBack DEF ProcessAborts, ProcessCancelled, WipeWorkspace, Restores, disk,
       TypeOK, WorkerType, Covered
<1>5. CASE WriteText
    BY <1>5, EndKeepsBase, RunEndsBack DEF WriteText, Begins, Covered
<1>6. CASE WriteOverBudget \/ ProcessRefused
  <2>1. worker.pc = "begin" /\ checkpoints' = checkpoints /\ workspace' = workspace
      BY <1>6 DEF WriteOverBudget, ProcessRefused, Begins, disk
  <2>2. FailsWith(mem.usage)
      BY <1>6 DEF WriteOverBudget, ProcessRefused, EndsFailed, FailsWith
  <2>3. workspace = worker.base
      BY <2>1 DEF RInv, Untouched
  <2>. QED
      BY <2>1, <2>2, <2>3, EndKeepsBase, RunEndsBack DEF Covered
<1>7. CASE Judge
  <2>1. worker.pc = "judge" /\ checkpoints' = checkpoints
      BY <1>7 DEF Judge, FailsWith, disk
  <2>2. CASE Restores("failed")
      BY <2>1, <2>2, RunKeepsBack DEF Restores, TypeOK, WorkerType, Covered
  <2>3. CASE \E u : EndsCompleted(u) \/ EndsAbandoned(u)
      BY <2>1, <2>3, EndKeepsBase, RunEndsBack DEF FailsWith, Covered
  <2>. QED
      BY <1>7, <2>2, <2>3 DEF Judge, FailsWith
<1>8. CASE RestoreRefused
  <2>1. worker.pc = "wipe" /\ checkpoints' = checkpoints /\ FailsWith(mem.usage) /\ ~HasFiles
      BY <1>8 DEF RestoreRefused, EndsFailed, FailsWith, disk
  <2>2. PICK c \in checkpoints : RestoreSource(c)
      BY <2>1 DEF RInv, Backed, Covered
  <2>3. worker.base = {}
      BY <2>1, <2>2 DEF RInv, Copied, RestoreSource, HasFiles
  <2>. QED
      BY <2>1, <2>3, EndKeepsBase, RunEndsBack DEF Covered
<1>9. CASE RestoreCheckpoint
  <2>1. worker.pc = "restore" /\ checkpoints' = checkpoints
        /\ (FailsWith(mem.usage) \/ EndsCancelled)
      BY <1>9 DEF RestoreCheckpoint, SettleAfterRestore, EndsFailed, FailsWith
  <2>2. PICK c \in checkpoints : RestoreSource(c) /\ workspace' = c.files
      BY <1>9 DEF RestoreCheckpoint
  <2>3. workspace' = worker.base
      BY <2>1, <2>2 DEF RInv, Copied, RestoreSource
  <2>. QED
      BY <2>1, <2>3, EndKeepsBase, RunEndsBack DEF Covered
<1>10. CASE Finish
    BY <1>10, NoRunBack DEF Finish, NoRun, disk
<1>11. CASE RestoreStopped
  <2>1. worker.pc \in {"wipe", "restore"} /\ checkpoints' = checkpoints /\ EndsAbandoned(mem.usage)
      BY <1>11 DEF RestoreStopped
  <2>. QED
      BY <2>1, EndKeepsBase, RunEndsBack DEF FailsWith, Covered
<1>. QED
    BY <1>1, <1>2, <1>3, <1>4, <1>5, <1>6, <1>7, <1>8, <1>9, <1>10, <1>11

LEMMA RNext ==
    ASSUME TypeOK, LInv, faults = 0 => RInv, [Next]_vars
    PROVE  (faults = 0 => RInv)'
<1>. SUFFICES ASSUME faults' = 0 PROVE RInv'
    OBVIOUS
<1>1. ~FaultStep
    BY FaultsGrow
<1>2. faults = 0
    BY FaultsGrow
<1>3. RInv
    BY <1>2
<1>4. ASSUME worker' = worker, checkpoints' = checkpoints, workspace' = workspace
      PROVE  RInv'
    BY <1>3, <1>4 DEF RInv, Keyed, Copied, SameCheckpoint, Untouched, Backed, RestoreSource, PutBack
<1>5. CASE UNCHANGED vars
    BY <1>4, <1>5 DEF vars
<1>6. CASE CreateSession
  <2>1. worker.pc = "idle" /\ worker' = worker /\ checkpoints' = checkpoints
      BY <1>6, Resolved DEF CreateSession, Free
  <2>. QED
      BY <1>3, <2>1, NoRunBack
<1>7. CASE (DeskCall /\ ~CreateSession) \/ DeskStep \/ Persist("worker")
    BY <1>4, <1>7 DEF DeskCall, LoadSession, Exit, Plan, Approve, Pause, Resume,
       ManualCheckpoint, FinalizeCandidate, CancelLook, DeskStep, PlanOne, PlanRejected, PlanDone,
       CancelSession, RequestCancel, SignalCancel, Persist, TakeSnapshot, ReplaceFile, AppendEntry, disk
<1>8. CASE \E a \in Actions : Execute(a)
  <2>1. /\ worker.pc = "idle" /\ checkpoints' = checkpoints
        /\ worker'.pc \in {"idle", "checkpoint"}
      BY <1>8, Resolved DEF Execute, Free, disk, NoRun
  <2>. QED
      BY <1>3, <2>1, NoRunBack
<1>9. CASE (WorkerStep /\ ~Persist("worker")) \/ ProcessWrites
    BY <1>3, <1>9, CheckpointsBack, RunBack DEF WorkerStep
<1>. QED
    BY <1>1, <1>5, <1>6, <1>7, <1>8, <1>9 DEF Next

(* As long as nothing has failed to be written, a run that the service    *)
(* gave up or that was cancelled has left the workspace as it found it,   *)
(* whatever its process did and however often it was cancelled; the runs  *)
(* it abandons, for a file it cannot read or delete, end as such          *)
(* (_run_process, _restore_checkpoint and the handlers of execute).       *)
THEOREM FailedRunsRestore == Spec => []FailedRunRestores
<1>1. Init => (faults = 0 => RInv)
    BY Resolved DEF Init, RInv, Keyed, Copied, Untouched, Backed, PutBack, Covered
<1>2. TypeOK /\ LInv /\ (faults = 0 => RInv) /\ [Next]_vars => (faults = 0 => RInv)'
    BY RNext
<1>3. (faults = 0 => RInv) => FailedRunRestores
    BY DEF RInv, PutBack, FailedRunRestores
<1>. QED
    BY <1>1, <1>2, <1>3, RunInvariant, PTL DEF Spec

---------------------------------------------------------------------------
(* What a candidate holds.  Every file of the workspace and of a          *)
(* checkpoint is an asset or the output of an action the ledger has       *)
(* queued; what is done in memory is in the ledger between runs; and once *)
(* any copy of the session is a candidate, nobody is left to change the   *)
(* workspace.  The command line keeps this through every fault; the       *)
(* dialog, whose session object outlives a failed write, without any.     *)

Intact == Desktop => faults = 0

OwedBy(t) == due[t].entry.event
\* The action of the entry that queues one, while the desk owes it.
QueuedNext == IF OwedBy("desk") = "action_queued" THEN {due["desk"].entry.action} ELSE {}

QueuesKept ==
    /\ Loaded => /\ Elems(ledger.queued) \subseteq Elems(mem.queued)
                 /\ Elems(mem.queued) \subseteq Elems(ledger.queued) \cup QueuedNext
    /\ QueuedNext \subseteq Elems(mem.queued)
    /\ OwedBy("worker") # "action_queued"
    /\ Elems(ledger.queued) # {} => file.state # "absent"
    /\ desk.pc \in {"close", "stop run"} => Quiet("desk")

DoneOwed == worker.pc = "finish" /\ worker.out = "completed" /\ ~Quiet("worker")
DoneKept ==
    /\ Loaded /\ (worker.pc = "finish" => worker.out = "completed" \/ faults = 0) =>
          Elems(mem.completed) \subseteq
              Elems(ledger.completed) \cup (IF DoneOwed THEN {worker.action} ELSE {})
    /\ DoneOwed => due["worker"].entry = Entry("action_completed", worker.action)

Produced == BaseFiles \cup Elems(ledger.queued)
Footprint ==
    /\ workspace \subseteq Produced
    /\ \A c \in checkpoints : c.files \subseteq Produced
    /\ worker.action \in Actions => worker.action \in Elems(ledger.queued)

Candidate(s) == s.state = "candidate_ready"
SomeCandidate == Candidate(mem) \/ Candidate(file) \/ \E t \in Threads : Candidate(due[t].image)
Handed ==
    SomeCandidate =>
        /\ Loaded => mem.state = "candidate_ready"
        /\ worker.pc = "idle" /\ desk = Idle /\ Quiet("worker")
        /\ OwedBy("desk") # "action_queued"
        /\ workspace \subseteq BaseFiles \cup Elems(ledger.completed)
        /\ Elems(ledger.queued) \subseteq Elems(ledger.completed)

HInv == QueuesKept /\ DoneKept /\ Footprint /\ Handed

(* The threads and the entries of a run, resolved.                         *)
LEMMA TwoThreads ==
    /\ "desk" \in Threads /\ "worker" \in Threads
    /\ \A t \in Threads : t = "desk" \/ t = "worker"
    /\ \A event : Entry(event, worker.action).event = event
                  /\ Entry(event, worker.action).action = worker.action
BY DEF Threads, Entry

(* What one entry changes of the ledger.                                   *)
LEMMA RecordedShape ==
    ASSUME NEW l \in LedgerType, NEW e \in EntryType
    PROVE  /\ Recorded(l, e).marks = l.marks \cup ({e.event} \cap SessionEvents)
           /\ Elems(Recorded(l, e).queued) =
                 Elems(l.queued) \cup (IF e.event = "action_queued" THEN {e.action} ELSE {})
           /\ Elems(Recorded(l, e).completed) =
                 Elems(l.completed) \cup (IF e.event = "action_completed" THEN {e.action} ELSE {})
           /\ Recorded(l, e).run = IF e.event = "action_started" THEN e.action
                                   ELSE IF e.event \in RunEvents THEN NoAction ELSE l.run
           /\ Recorded(l, e).cancelled # <<>> <=>
                 l.cancelled # <<>> \/ e.event = "action_cancelled"
<1>. USE DEF RunEvents, SessionEvents
<1>1. CASE e.event \in SessionEvents
    BY <1>1 DEF Recorded, LedgerType
<1>2. CASE e.event = "action_queued"
  <2>1. e.action \in Actions
      BY <1>2 DEF EntryType
  <2>2. Elems(Append(l.queued, e.action)) = Elems(l.queued) \cup {e.action}
      BY <2>1, AppendList DEF LedgerType
  <2>. QED
      BY <1>2, <2>2 DEF Recorded, LedgerType
<1>3. CASE e.event = "action_completed"
  <2>1. e.action \in Actions
      BY <1>3 DEF EntryType
  <2>2. Elems(Append(l.completed, e.action)) = Elems(l.completed) \cup {e.action}
      BY <2>1, AppendList DEF LedgerType
  <2>. QED
      BY <1>3, <2>2 DEF Recorded, LedgerType
<1>4. CASE e.event = "action_cancelled"
  <2>1. e.action \in Actions
      BY <1>4 DEF EntryType
  <2>2. Append(l.cancelled, e.action) # <<>>
    <3>1. Len(Append(l.cancelled, e.action)) = Len(l.cancelled) + 1 /\ Len(l.cancelled) \in Nat
        BY <2>1 DEF LedgerType, Lists
    <3>. QED
        BY <3>1
  <2>. QED
      BY <1>4, <2>2 DEF Recorded, LedgerType
<1>5. CASE e.event \in {"action_started", "action_failed"}
    BY <1>5 DEF Recorded, LedgerType
<1>6. CASE e.event \notin SessionEvents \cup RunEvents \cup {"action_queued"}
    BY <1>6 DEF Recorded
<1>. QED
    BY <1>1, <1>2, <1>3, <1>4, <1>5, <1>6

(* A session object is dropped: what is on disk stays as it was.           *)
LEMMA DroppedKeeps ==
    ASSUME LInv', HInv, mem' = NoSession, file' = file, ledger' = ledger,
           workspace' = workspace, checkpoints' = checkpoints,
           worker'.action \in {worker.action, NoAction}
    PROVE  HInv'
<1>. USE Resolved, TwoThreads
<1>1. /\ desk' = Idle /\ worker'.pc = "idle" /\ ~Loaded'
      /\ due'["desk"] = NothingDue /\ due'["worker"] = NothingDue
    BY DEF LInv, Held, Loaded, Quiet
<1>2. QueuesKept' /\ DoneKept'
    BY <1>1 DEF HInv, QueuesKept, QueuedNext, OwedBy, DoneKept, DoneOwed
<1>3. Footprint'
    BY ConstantsAssumption DEF HInv, Footprint, Produced
<1>4. SomeCandidate' => SomeCandidate
    BY <1>1 DEF SomeCandidate, Candidate
<1>5. Handed'
    BY <1>1, <1>4 DEF HInv, Handed, OwedBy, Quiet
<1>. QED
    BY <1>2, <1>3, <1>5 DEF HInv

(* A call of the desk that queues nothing and completes nothing.           *)
LEMMA DeskKeeps ==
    ASSUME HInv, Loaded, Loaded', faults' = faults,
           UNCHANGED <<file, ledger, workspace, checkpoints, worker>>,
           due'["worker"] = due["worker"], QueuedNext = {},
           mem'.queued = mem.queued, mem'.completed = mem.completed,
           OwedBy("desk")' # "action_queued",
           desk'.pc \in {"close", "stop run"} => Quiet("desk")',
           due'["desk"].image \in {due["desk"].image, NoSession},
           mem'.state = "candidate_ready" <=> mem.state = "candidate_ready",
           mem.state = "candidate_ready" => desk' = Idle
    PROVE  HInv'
<1>. USE Resolved, TwoThreads
<1>1. QueuesKept' /\ DoneKept' /\ Footprint'
    BY DEF HInv, QueuesKept, QueuedNext, OwedBy, DoneKept, DoneOwed, Quiet, Footprint, Produced
<1>2. SomeCandidate' => SomeCandidate
  <2>1. ASSUME NEW t \in Threads, due'[t].image.state = "candidate_ready"
        PROVE  Candidate(due[t].image)
    <3>1. CASE t = "desk"
        BY <2>1, <3>1 DEF Candidate
    <3>2. CASE t = "worker"
        BY <2>1, <3>2 DEF Candidate
    <3>. QED
        BY <3>1, <3>2
  <2>2. file' = file
      OBVIOUS
  <2>. QED
      BY <2>1, <2>2 DEF SomeCandidate, Candidate
<1>3. Handed'
    BY <1>2 DEF HInv, Handed, SomeCandidate, Candidate, OwedBy, Quiet
<1>. QED
    BY <1>1, <1>3 DEF HInv

(* What the calls of the desk leave to the worker.                         *)
DeskOnly ==
    \/ DeskCall /\ ~CreateSession
    \/ PlanOne \/ PlanRejected \/ PlanDone
    \/ CancelSession \/ RequestCancel \/ SignalCancel

LEMMA DeskLeaves ==
    ASSUME TypeOK, DeskOnly
    PROVE  /\ UNCHANGED <<file, ledger, workspace, checkpoints, worker, faults>>
           /\ due'["worker"] = due["worker"]
<1>. USE TwoThreads
<1>1. ASSUME NEW w, Owes("desk", w) PROVE due'["worker"] = due["worker"]
    BY <1>1, OwesOne DEF Threads
<1>2. CASE DeskCall /\ ~CreateSession
    BY <1>1, <1>2 DEF DeskCall, LoadSession, Exit, Plan, Approve, Pause, Resume,
       ManualCheckpoint, FinalizeCandidate, CancelLook, disk
<1>3. CASE PlanOne \/ PlanRejected \/ PlanDone \/ CancelSession \/ RequestCancel \/ SignalCancel
    BY <1>1, <1>3 DEF PlanOne, PlanRejected, PlanDone, CancelSession, RequestCancel,
       SignalCancel, disk
<1>. QED
    BY <1>2, <1>3 DEF DeskOnly

LEMMA OpensKept ==
    ASSUME TypeOK, LInv, LInv', CInv, HInv, CreateSession \/ LoadSession
    PROVE  HInv'
<1>. USE Resolved, TwoThreads
<1>1. /\ desk = Idle /\ worker = NoRun /\ ~Loaded /\ desk' = desk /\ worker' = worker
      /\ due["worker"] = NothingDue /\ due["desk"] = NothingDue
      /\ ledger' = ledger /\ checkpoints' = checkpoints
    BY DEF CreateSession, LoadSession, Free, Quiet, disk
<1>2. CASE CreateSession
  <2>1. /\ mem' = FreshSession /\ file' = FreshSession /\ workspace' = BaseFiles
        /\ file.state = "absent"
      BY <1>2 DEF CreateSession
  <2>2. due'["desk"] = JustAppend("session_created", NoAction) /\ due'["worker"] = NothingDue
      BY <1>1, <1>2, OwesOne DEF CreateSession, Threads
  <2>3. /\ OwedBy("desk")' = "session_created" /\ OwedBy("worker")' = "none"
        /\ due'["desk"].image = NoSession
      BY <2>2, DueShapes DEF OwedBy
  <2>4. FreshSession.state = "created" /\ FreshSession.queued = <<>>
      BY DEF FreshSession
  <2>5. Elems(ledger.queued) = {} /\ ledger.completed = <<>>
      BY <2>1 DEF HInv, QueuesKept, CInv, Saved
  <2>6. QueuesKept' /\ DoneKept'
      BY <1>1, <2>1, <2>2, <2>3, <2>4, <2>5, EmptyLists
      DEF QueuesKept, QueuedNext, DoneKept, DoneOwed
  <2>7. Footprint'
      BY <1>1, <2>1 DEF HInv, Footprint, Produced
  <2>8. ~SomeCandidate'
      BY <2>1, <2>2, <2>3, <2>4 DEF SomeCandidate, Candidate
  <2>. QED
      BY <2>6, <2>7, <2>8 DEF HInv, Handed
<1>3. CASE LoadSession
  <2>1. /\ mem' = file /\ file' = file /\ due' = due /\ workspace' = workspace
        /\ file.queued = ledger.queued /\ file.completed = ledger.completed
      BY <1>3 DEF LoadSession, Loadable, ListsAgree, disk
  <2>2. QueuesKept' /\ DoneKept'
      BY <1>1, <2>1 DEF HInv, QueuesKept, QueuedNext, OwedBy, DoneKept, DoneOwed, Quiet
  <2>3. Footprint'
      BY <1>1, <2>1 DEF HInv, Footprint, Produced
  <2>4. SomeCandidate' <=> Candidate(file)
      BY <1>1, <2>1 DEF SomeCandidate, Candidate
  <2>5. Handed'
      BY <1>1, <2>1, <2>4 DEF HInv, Handed, SomeCandidate, Candidate, OwedBy, Quiet
  <2>. QED
      BY <2>2, <2>3, <2>5 DEF HInv
<1>. QED
    BY <1>2, <1>3

(* FinalizeCandidate hands over only what is done, in the ledger too.      *)
LEMMA FinalizeKeeps ==
    ASSUME TypeOK, HInv, FinalizeCandidate
    PROVE  HInv'
<1>. USE Resolved, TwoThreads
<1>1. /\ UNCHANGED <<file, ledger, workspace, checkpoints, worker, faults>>
      /\ due'["worker"] = due["worker"]
    BY DeskLeaves DEF DeskOnly, DeskCall, FinalizeCandidate, CreateSession, Loaded
<1>2. /\ worker = NoRun /\ desk = Idle /\ desk' = Idle /\ Loaded
      /\ due["worker"] = NothingDue /\ due["desk"] = NothingDue
    BY DEF FinalizeCandidate, Free, Quiet, Loaded
<1>3. /\ mem'.state = "candidate_ready" /\ mem'.queued = mem.queued
      /\ mem'.completed = mem.completed
    BY DEF FinalizeCandidate, TypeOK, Session
<1>4. due'["desk"] = SaveThen("candidate_ready", NoAction)
    BY OwesOne DEF FinalizeCandidate
<1>5. OwedBy("desk")' = "candidate_ready"
    BY <1>4, DueShapes DEF OwedBy
<1>6. QueuedNext = {} /\ QueuedNext' = {}
    BY <1>2, <1>5 DEF QueuedNext, OwedBy
<1>7. QueuesKept' /\ DoneKept' /\ Footprint'
    BY <1>1, <1>2, <1>3, <1>6 DEF HInv, QueuesKept, OwedBy, DoneKept, DoneOwed, Quiet, Footprint,
       Produced, Loaded
<1>8. Elems(ledger.queued) \subseteq Elems(ledger.completed)
    BY <1>2, <1>6 DEF FinalizeCandidate, ReadyForReview, HInv, QueuesKept, DoneKept, DoneOwed
<1>9. Handed'
    BY <1>1, <1>2, <1>3, <1>5, <1>8 DEF HInv, Handed, Footprint, Produced, Quiet
<1>. QED
    BY <1>7, <1>9 DEF HInv

LEMMA DeskCallKeeps ==
    ASSUME TypeOK, LInv, LInv', CInv, HInv, DeskCall
    PROVE  HInv'
<1>. USE Resolved, TwoThreads
<1>1. CASE CreateSession \/ LoadSession
    BY <1>1, OpensKept
<1>2. CASE FinalizeCandidate
    BY <1>2, FinalizeKeeps
<1>3. CASE Exit
    BY <1>3, DroppedKeeps DEF Exit, disk
<1>4. SUFFICES ASSUME ~CreateSession, ~LoadSession, ~Exit, ~FinalizeCandidate
               PROVE  HInv'
    BY <1>1, <1>2, <1>3
<1>5. /\ UNCHANGED <<file, ledger, workspace, checkpoints, worker, faults>>
      /\ due'["worker"] = due["worker"]
    BY <1>4, DeskLeaves DEF DeskOnly
<1>6. Loaded /\ desk = Idle /\ due["desk"] = NothingDue /\ QueuedNext = {}
  <2>1. Loaded /\ desk = Idle /\ Quiet("desk")
      BY <1>4 DEF DeskCall, Plan, Approve, Pause, Resume, ManualCheckpoint, CancelLook, Free,
         Active, Loaded
  <2>. QED
      BY <2>1 DEF Quiet, QueuedNext, OwedBy
<1>7. CASE (\E p \in Plans : Plan(p)) \/ CancelLook
  <2>1. mem' = mem /\ due' = due
      BY <1>7 DEF Plan, CancelLook
  <2>2. mem.state # "candidate_ready"
      BY <1>7 DEF Plan, Active, CancelLook
  <2>3. Quiet("desk")' /\ OwedBy("desk")' # "action_queued"
      BY <1>6, <2>1 DEF Quiet, OwedBy
  <2>. QED
      BY <1>5, <1>6, <2>1, <2>2, <2>3, DeskKeeps DEF Loaded
<1>8. CASE (\E a \in Actions, C \in Grants : Approve(a, C)) \/ ManualCheckpoint
  <2>1. mem' = mem /\ desk' = Idle
      BY <1>6, <1>8 DEF Approve, ManualCheckpoint
  <2>2. PICK e \in {"action_approved", "other"} : \E a : Owes("desk", JustAppend(e, a))
      BY <1>8 DEF Approve, ManualCheckpoint
  <2>3. PICK a : due'["desk"] = JustAppend(e, a)
      BY <2>2, OwesOne
  <2>4. OwedBy("desk")' = e /\ due'["desk"].image = NoSession
      BY <2>3, DueShapes DEF OwedBy
  <2>. QED
      BY <1>5, <1>6, <2>1, <2>4, DeskKeeps DEF Loaded
<1>9. CASE Pause \/ Resume
  <2>1. /\ mem.state # "candidate_ready" /\ desk' = Idle
        /\ mem'.state \in {"paused", "waiting_approval", "created"}
        /\ mem'.queued = mem.queued /\ mem'.completed = mem.completed
      BY <1>6, <1>9 DEF Pause, Resume, Active, TypeOK, Session
  <2>2. due'["desk"] = SaveThen("other", NoAction)
      BY <1>9, OwesOne DEF Pause, Resume
  <2>3. OwedBy("desk")' = "other" /\ due'["desk"].image = NoSession
      BY <2>2, DueShapes DEF OwedBy
  <2>4. Loaded'
      BY <2>1 DEF Loaded
  <2>. QED
      BY <1>5, <1>6, <2>1, <2>3, <2>4, DeskKeeps
<1>. QED
    BY <1>4, <1>7, <1>8, <1>9 DEF DeskCall

LEMMA DeskStepKeeps ==
    ASSUME TypeOK, LInv, LInv', HInv,
           PlanOne \/ PlanRejected \/ PlanDone \/ CancelSession \/ RequestCancel \/ SignalCancel
    PROVE  HInv'
<1>. USE Resolved, TwoThreads
<1>1. /\ UNCHANGED <<file, ledger, workspace, checkpoints, worker, faults>>
      /\ due'["worker"] = due["worker"]
    BY DeskLeaves DEF DeskOnly
<1>2. desk # Idle /\ Loaded /\ due["desk"] = NothingDue /\ QueuedNext = {}
  <2>1. desk # Idle
      BY DEF PlanOne, PlanRejected, PlanDone, CancelSession, RequestCancel, SignalCancel
  <2>2. Loaded
      BY <2>1 DEF LInv, Held
  <2>3. Quiet("desk")
      BY DEF PlanOne, PlanRejected, PlanDone, CancelSession, RequestCancel, SignalCancel,
         HInv, QueuesKept
  <2>. QED
      BY <2>1, <2>2, <2>3 DEF Quiet, QueuedNext, OwedBy
<1>3. ~SomeCandidate
    BY <1>2 DEF HInv, Handed
<1>4. mem.state # "candidate_ready" /\ mem \in Session
    BY <1>3 DEF SomeCandidate, Candidate, TypeOK
<1>5. CASE PlanOne
  <2>. DEFINE a == Head(desk.rest)
  <2>1. a \in Actions
    <3>1. desk.rest \in Seq(Actions) /\ desk.rest # <<>>
        BY <1>5 DEF PlanOne, TypeOK, DeskType, Lists
    <3>. QED
        BY <3>1, HeadTailProperties
  <2>2. /\ mem'.queued = Append(mem.queued, a) /\ mem.queued \in Lists
        /\ mem'.state = mem.state /\ mem'.completed = mem.completed
      BY <1>4, <1>5 DEF PlanOne, Session
  <2>3. Elems(mem'.queued) = Elems(mem.queued) \cup {a}
      BY <2>1, <2>2, AppendList
  <2>4. due'["desk"] = JustAppend("action_queued", a)
      BY <1>5, OwesOne DEF PlanOne
  <2>5. /\ OwedBy("desk")' = "action_queued" /\ due'["desk"].entry.action = a
        /\ due'["desk"].image = NoSession
      BY <2>4, DueShapes DEF OwedBy
  <2>6. QueuedNext' = {a} /\ desk'.pc = "planning" /\ Loaded'
      BY <1>2, <1>5, <2>2, <2>5 DEF QueuedNext, PlanOne, TypeOK, DeskType, Loaded
  <2>7. QueuesKept'
      BY <1>1, <1>2, <2>3, <2>6 DEF HInv, QueuesKept, OwedBy
  <2>8. DoneKept' /\ Footprint'
      BY <1>1, <1>2, <2>2 DEF HInv, DoneKept, DoneOwed, Quiet, Footprint, Produced
  <2>9. ~SomeCandidate'
    <3>1. due'["desk"].image.state # "candidate_ready"
        BY <2>5
    <3>2. ~Candidate(due["worker"].image) /\ ~Candidate(file)
        BY <1>3 DEF SomeCandidate
    <3>. QED
        BY <1>1, <1>4, <2>2, <3>1, <3>2 DEF SomeCandidate, Candidate
  <2>. QED
      BY <2>7, <2>8, <2>9 DEF HInv, Handed
<1>6. CASE PlanRejected
  <2>1. /\ desk' = Idle /\ due' = due /\ mem' \in {mem, NoSession}
      BY <1>6 DEF PlanRejected, AfterRaise
  <2>2. CASE mem' = NoSession
      BY <1>1, <2>2, DroppedKeeps
  <2>3. CASE mem' = mem
    <3>1. OwedBy("desk")' # "action_queued" /\ Loaded'
        BY <1>2, <2>1, <2>3 DEF OwedBy, Loaded
    <3>. QED
        BY <1>1, <1>2, <1>4, <2>1, <2>3, <3>1, DeskKeeps
  <2>. QED
      BY <2>1, <2>2, <2>3
<1>7. CASE PlanDone \/ SignalCancel
  <2>1. /\ desk' = Idle /\ mem'.state \in {"waiting_approval", mem.state}
        /\ mem'.queued = mem.queued /\ mem'.completed = mem.completed
      BY <1>4, <1>7 DEF PlanDone, SignalCancel, Session
  <2>2. due'["desk"] \in {JustSave, NothingDue}
      BY <1>2, <1>7, OwesOne DEF PlanDone, SignalCancel
  <2>3. OwedBy("desk")' = "none" /\ due'["desk"].image = NoSession
      BY <2>2, DueShapes DEF OwedBy
  <2>4. Loaded'
      BY <1>2, <2>1 DEF Loaded
  <2>. QED
      BY <1>1, <1>2, <1>4, <2>1, <2>3, <2>4, DeskKeeps
<1>8. CASE CancelSession \/ RequestCancel
  <2>1. PICK e \in {"session_cancelled", "other"} : Owes("desk", SaveThen(e, NoAction))
      BY <1>8 DEF CancelSession, RequestCancel
  <2>2. /\ desk'.pc \in {"idle", "signal"} /\ mem'.state \in {"cancelled", "cancelling"}
        /\ mem'.queued = mem.queued /\ mem'.completed = mem.completed
      BY <1>4, <1>8 DEF CancelSession, RequestCancel, Session, TypeOK, DeskType
  <2>3. due'["desk"] = SaveThen(e, NoAction)
      BY <2>1, OwesOne
  <2>4. OwedBy("desk")' # "action_queued" /\ due'["desk"].image = NoSession
      BY <2>3, DueShapes DEF OwedBy
  <2>5. Loaded'
      BY <2>2 DEF Loaded
  <2>. QED
      BY <1>1, <1>2, <1>4, <2>2, <2>4, <2>5, DeskKeeps
<1>. QED
    BY <1>5, <1>6, <1>7, <1>8

(* The writes: the ledger comes to list what its writers said.             *)
LEMMA WritesKept ==
    ASSUME TypeOK, LInv, CInv, HInv, NEW t \in Threads, Persist(t)
    PROVE  HInv'
<1>. USE Resolved, TwoThreads
<1>1. /\ mem' = mem /\ desk' = desk /\ worker' = worker /\ ~Quiet(t)
      /\ \A u \in Threads \ {t} : due'[u] = due[u]
      /\ workspace' = workspace /\ checkpoints' = checkpoints /\ faults' = faults
    BY PersistShape DEF Persist, TakeSnapshot, ReplaceFile, AppendEntry, disk
<1>2. Loaded /\ due[t] \in DueType
    BY <1>1 DEF LInv, Held, TypeOK
<1>3. CASE TakeSnapshot(t) \/ ReplaceFile(t)
  <2>1. /\ ledger' = ledger /\ due'[t].entry = due[t].entry
        /\ \/ due'[t].image = mem /\ file' = file
           \/ due'[t].image = NoSession /\ file' = due[t].image /\ file'.state # "absent"
    <3>1. CASE TakeSnapshot(t)
      <4>1. due'[t] = [due[t] EXCEPT !.save = "taken", !.image = mem]
          BY <3>1, OwesOne DEF TakeSnapshot
      <4>. QED
          BY <1>2, <3>1, <4>1 DEF DueType, TakeSnapshot, disk
    <3>2. CASE ReplaceFile(t)
      <4>1. due'[t] = [due[t] EXCEPT !.save = "no", !.image = NoSession]
          BY <3>2, OwesOne DEF ReplaceFile
      <4>. QED
          BY <1>2, <3>2, <4>1 DEF DueType, ReplaceFile, CInv, Saved
    <3>. QED
        BY <1>3, <3>1, <3>2
  <2>2. \A u \in Threads : due'[u].entry = due[u].entry
      BY <1>1, <2>1
  <2>3. QueuedNext' = QueuedNext /\ \A u \in Threads : OwedBy(u)' = OwedBy(u)
      BY <2>2 DEF QueuedNext, OwedBy
  <2>4. QueuesKept'
    <3>1. desk.pc \in {"close", "stop run"} => t = "worker"
        BY <1>1 DEF HInv, QueuesKept
    <3>. QED
        BY <1>1, <1>2, <2>1, <2>3, <3>1 DEF HInv, QueuesKept, Loaded, Quiet
  <2>5. DoneOwed' => DoneOwed
      BY <1>1 DEF DoneOwed, Quiet
  <2>6. DoneOwed /\ t = "worker" => DoneOwed'
      BY <1>1, <2>1 DEF HInv, DoneKept, DoneOwed, Quiet, Entry
  <2>7. DoneKept' /\ Footprint'
      BY <1>1, <1>2, <2>1, <2>2, <2>5, <2>6
      DEF HInv, DoneKept, Loaded, Footprint, Produced, DoneOwed, Quiet
  <2>8. SomeCandidate' => SomeCandidate
      BY <1>1, <2>1 DEF SomeCandidate, Candidate
  <2>9. Handed'
      BY <1>1, <2>1, <2>3, <2>8 DEF HInv, Handed, Loaded, Quiet
  <2>. QED
      BY <2>4, <2>7, <2>9 DEF HInv
<1>4. CASE AppendEntry(t)
  <2>. DEFINE e == due[t].entry
  <2>1. due'[t] = NothingDue /\ file' = file /\ ledger' = Recorded(ledger, e)
      BY <1>4, OwesOne DEF AppendEntry
  <2>2. e \in EntryType /\ ledger \in LedgerType
      BY <1>2 DEF TypeOK, DueType
  <2>3. /\ Elems(ledger'.queued) =
              Elems(ledger.queued) \cup (IF e.event = "action_queued" THEN {e.action} ELSE {})
        /\ Elems(ledger'.completed) =
              Elems(ledger.completed) \cup (IF e.event = "action_completed" THEN {e.action} ELSE {})
      BY <2>1, <2>2, RecordedShape
  <2>4. file.state # "absent"
      BY <1>2 DEF CInv, Saved
  <2>5. QueuesKept'
    <3>1. CASE t = "desk"
      <4>1. QueuedNext' = {} /\ due'["worker"] = due["worker"]
          BY <1>1, <2>1, <3>1 DEF QueuedNext, OwedBy
      <4>2. Elems(ledger'.queued) = Elems(ledger.queued) \cup QueuedNext
          BY <2>3, <3>1 DEF QueuedNext, OwedBy
      <4>3. desk.pc \notin {"close", "stop run"}
          BY <1>1, <3>1 DEF HInv, QueuesKept
      <4>. QED
          BY <1>1, <1>2, <2>1, <2>4, <4>1, <4>2, <4>3 DEF HInv, QueuesKept, OwedBy, Loaded
    <3>2. CASE t = "worker"
      <4>1. QueuedNext' = QueuedNext /\ due'["desk"] = due["desk"] /\ OwedBy("worker")' = "none"
          BY <1>1, <2>1, <3>2 DEF QueuedNext, OwedBy
      <4>2. Elems(ledger'.queued) = Elems(ledger.queued)
          BY <2>3, <3>2 DEF HInv, QueuesKept, OwedBy
      <4>. QED
          BY <1>1, <1>2, <2>4, <2>1, <4>1, <4>2 DEF HInv, QueuesKept, Loaded, Quiet
    <3>. QED
        BY <3>1, <3>2
  <2>6. DoneKept'
    <3>1. CASE t = "desk"
      <4>1. due'["worker"] = due["worker"]
          BY <1>1, <3>1
      <4>. QED
          BY <1>1, <1>2, <2>3, <4>1 DEF HInv, DoneKept, DoneOwed, Quiet, Loaded
    <3>2. CASE t = "worker"
      <4>1. ~DoneOwed'
          BY <2>1, <3>2 DEF DoneOwed, Quiet
      <4>2. DoneOwed => worker.action \in Elems(ledger'.completed)
          BY <2>3, <3>2 DEF HInv, DoneKept, Entry
      <4>. QED
          BY <1>1, <1>2, <2>3, <4>1, <4>2 DEF HInv, DoneKept, Loaded
    <3>. QED
        BY <3>1, <3>2
  <2>7. Footprint'
      BY <1>1, <2>3 DEF HInv, Footprint, Produced
  <2>8. SomeCandidate' => SomeCandidate
      BY <1>1, <2>1 DEF SomeCandidate, Candidate
  <2>9. ASSUME SomeCandidate PROVE Elems(ledger'.queued) = Elems(ledger.queued)
    <3>1. t = "desk" /\ OwedBy("desk") # "action_queued"
        BY <1>1, <2>9 DEF HInv, Handed
    <3>. QED
        BY <2>3, <3>1 DEF OwedBy
  <2>10. Handed'
      BY <1>1, <2>1, <2>3, <2>8, <2>9 DEF HInv, Handed, Loaded, Quiet, OwedBy
  <2>. QED
      BY <2>5, <2>6, <2>7, <2>10 DEF HInv
<1>. QED
    BY <1>3, <1>4 DEF Persist

(* What a step of a run leaves as it was.                                  *)
LEMMA RunStepKeeps ==
    ASSUME TypeOK, HInv, worker.pc # "idle", Loaded, Loaded',
           file' = file, ledger' = ledger, desk' = desk, due'["desk"] = due["desk"],
           mem'.queued = mem.queued, mem'.state # "candidate_ready",
           due'["worker"].image \in {due["worker"].image, NoSession},
           OwedBy("worker")' # "action_queued",
           workspace' \subseteq Produced,
           \A c \in checkpoints' : c.files \subseteq Produced,
           worker'.action \in {worker.action, NoAction},
           DoneKept'
    PROVE  HInv'
<1>. USE Resolved, TwoThreads
<1>1. QueuedNext' = QueuedNext
    BY DEF QueuedNext, OwedBy
<1>2. QueuesKept'
    BY <1>1 DEF HInv, QueuesKept, Quiet
<1>3. Footprint'
    BY ConstantsAssumption DEF HInv, Footprint, Produced
<1>4. ~SomeCandidate
    BY DEF HInv, Handed
<1>5. ~SomeCandidate'
  <2>1. due["worker"].image.state # "candidate_ready" /\ due["desk"].image.state # "candidate_ready"
        /\ file.state # "candidate_ready"
      BY <1>4 DEF SomeCandidate, Candidate
  <2>. QED
      BY <2>1 DEF SomeCandidate, Candidate
<1>. QED
    BY <1>2, <1>3, <1>5 DEF HInv, Handed

(* However a run ends: what it completed is what it owes the ledger.       *)
LEMMA RunEndKeeps ==
    ASSUME TypeOK, LInv, HInv, NEW usage,
           EndsCompleted(usage) \/ FailsWith(usage) \/ EndsCancelled,
           worker.pc \notin {"idle", "finish"} \/ faults' # 0,
           worker.pc # "idle", EndsCompleted(usage) => worker.pc # "finish",
           file' = file, ledger' = ledger, desk' = desk, checkpoints' = checkpoints,
           workspace' \subseteq Produced
    PROVE  HInv'
<1>. USE Resolved, TwoThreads
<1>1. Loaded /\ mem \in Session /\ worker \in WorkerType /\ worker.action \in Actions
    BY DEF LInv, Held, TypeOK
<1>2. /\ worker'.pc = "finish" /\ worker'.action = worker.action /\ Loaded'
    BY EndShape DEF Loaded
<1>3. PICK e \in {"action_completed", "action_failed", "action_cancelled"} :
          /\ Owes("worker", SaveThen(e, worker.action))
          /\ EndsCompleted(usage) <=> e = "action_completed"
          /\ worker'.out = "completed" <=> e = "action_completed"
    BY <1>1 DEF EndsCompleted, FailsWith, EndsFailedCharged, EndsAbandoned, EndsCancelled, WorkerType
<1>4. /\ due'["worker"] = SaveThen(e, worker.action)
      /\ due'["desk"] = due["desk"]
    BY <1>3, OwesOne DEF Threads
<1>5. /\ due'["worker"].entry = Entry(e, worker.action) /\ due'["worker"].image = NoSession
      /\ OwedBy("worker")' = e
    BY <1>4, DueShapes DEF OwedBy, SaveThen, NothingDue, Entry
<1>6. mem'.queued = mem.queued /\ mem'.state \in {"waiting_approval", "paused", "failed", "cancelled"}
  <2>1. CASE EndsCompleted(usage)
    <3>. DEFINE t == [mem EXCEPT !.completed = Append(@, worker.action), !.usage = usage]
    <3>1. mem' = [t EXCEPT !.state = IF Remaining(t) # {} THEN "waiting_approval" ELSE "paused"]
        BY <2>1 DEF EndsCompleted, Completed
    <3>2. t.queued = mem.queued /\ DOMAIN t = DOMAIN mem /\ "state" \in DOMAIN t
        BY <1>1 DEF Session
    <3>. HIDE DEF t
    <3>. QED
        BY <3>1, <3>2
  <2>2. CASE FailsWith(usage) \/ EndsCancelled
      BY <1>1, <2>2 DEF FailsWith, EndsFailedCharged, EndsAbandoned, EndsCancelled, Session
  <2>. QED
      BY <2>1, <2>2
<1>7. DoneKept'
  <2>1. CASE EndsCompleted(usage)
    <3>1. Elems(mem'.completed) = Elems(mem.completed) \cup {worker.action}
      <4>. DEFINE t == [mem EXCEPT !.completed = Append(@, worker.action), !.usage = usage]
      <4>1. mem' = [t EXCEPT !.state = IF Remaining(t) # {} THEN "waiting_approval" ELSE "paused"]
          BY <2>1 DEF EndsCompleted, Completed
      <4>2. t.completed = Append(mem.completed, worker.action) /\ mem.completed \in Lists
          BY <1>1 DEF Session
      <4>3. Elems(t.completed) = Elems(mem.completed) \cup {worker.action}
          BY <1>1, <4>2, AppendList
      <4>. HIDE DEF t
      <4>. QED
          BY <4>1, <4>3
    <3>2. Elems(mem.completed) \subseteq Elems(ledger.completed)
        BY <1>1, <2>1 DEF HInv, DoneKept, DoneOwed
    <3>3. DoneOwed' /\ due'["worker"].entry = Entry("action_completed", worker'.action)
      <4>1. ~Quiet("worker")'
          BY <1>4, DueShapes DEF Quiet
      <4>. QED
          BY <1>2, <1>3, <1>5, <2>1, <4>1 DEF DoneOwed
    <3>. QED
        BY <1>2, <3>1, <3>2, <3>3 DEF DoneKept
  <2>2. CASE ~EndsCompleted(usage)
    <3>1. worker'.out # "completed"
        BY <1>3, <2>2
    <3>2. mem'.completed = mem.completed
        BY <2>2, EndAside
    <3>3. worker.pc \notin {"idle", "finish"} => Elems(mem.completed) \subseteq Elems(ledger.completed)
        BY <1>1 DEF HInv, DoneKept, DoneOwed
    <3>. QED
        BY <1>2, <3>1, <3>2, <3>3 DEF DoneKept, DoneOwed
  <2>. QED
      BY <2>1, <2>2
<1>8. workspace' \subseteq Produced /\ \A c \in checkpoints' : c.files \subseteq Produced
    BY DEF HInv, Footprint
<1>. QED
    BY <1>1, <1>2, <1>5, <1>4, <1>6, <1>7, <1>8, RunStepKeeps

LEMMA WorkKeeps ==
    ASSUME TypeOK, LInv, LInv', HInv, Intact', Working,
           faults' = 0 => faults = 0 /\ ~FaultStep
    PROVE  HInv'
<1>. USE Resolved, TwoThreads
<1>1. /\ desk' = desk /\ due'["desk"] = due["desk"] /\ worker.pc # "idle"
      /\ Loaded /\ file' = file /\ ledger' = ledger
    BY DeskUntouched, WorkingShape, WorkAside DEF Working, WorkerStep, LInv, Held, Aside
<1>2. /\ worker \in WorkerType /\ mem \in Session /\ worker.action \in Elems(ledger.queued)
      /\ workspace \subseteq Produced /\ worker.action \in Produced
      /\ \A c \in checkpoints : c.files \subseteq Produced
    BY <1>1 DEF TypeOK, HInv, Footprint, Produced
<1>3. mem.state # "candidate_ready" /\ OwedBy("worker") # "action_queued"
    BY <1>1 DEF HInv, Handed, SomeCandidate, Candidate, QueuesKept
<1>4. ASSUME mem'.completed = mem.completed, mem'.queued = mem.queued, Loaded', due' = due,
             mem'.state # "candidate_ready", workspace' \subseteq Produced,
             \A c \in checkpoints' : c.files \subseteq Produced,
             worker'.action = worker.action, worker.pc # "finish", worker'.pc # "finish"
      PROVE  HInv'
  <2>1. DoneKept'
      BY <1>1, <1>4 DEF HInv, DoneKept, DoneOwed
  <2>2. OwedBy("worker")' # "action_queued"
      BY <1>3, <1>4 DEF OwedBy
  <2>. QED
      BY <1>1, <1>4, <2>1, <2>2, RunStepKeeps
<1>5. CASE ReuseCheckpoint \/ CheckpointMade \/ Register \/ ProcessStarts \/ ProcessExits
           \/ ProcessAborts \/ ProcessCancelled \/ CheckedNoCancel \/ WipeWorkspace
  <2>1. /\ mem' = mem /\ due' = due /\ checkpoints' = checkpoints
        /\ workspace' = workspace \/ workspace' = {}
      BY <1>5 DEF ReuseCheckpoint, CheckpointMade, Register, ProcessStarts, ProcessExits,
         ProcessAborts, ProcessCancelled, CheckedNoCancel, WipeWorkspace, disk
  <2>2. worker'.action = worker.action /\ worker.pc # "finish" /\ worker'.pc # "finish"
      BY <1>2, <1>5 DEF ReuseCheckpoint, CheckpointMade, Register, ProcessStarts, Begins,
         ProcessExits, ProcessAborts, ProcessCancelled, CheckedNoCancel, WipeWorkspace, Restores,
         WorkerType
  <2>. QED
      BY <1>1, <1>2, <1>3, <1>4, <2>1, <2>2 DEF Loaded
<1>6. CASE MakeCheckpoint \/ CopyFile \/ ProcessWrites
  <2>1. /\ mem' = mem /\ due' = due
        /\ worker'.action = worker.action /\ worker.pc # "finish" /\ worker'.pc # "finish"
      BY <1>2, <1>6 DEF MakeCheckpoint, CopyFile, ProcessWrites, WorkerType
  <2>2. workspace' \subseteq Produced /\ \A c \in checkpoints' : c.files \subseteq Produced
    <3>1. CASE MakeCheckpoint
      <4>1. \A c \in checkpoints' : c \in checkpoints \/ c.files = {}
          BY <3>1 DEF MakeCheckpoint
      <4>. QED
          BY <1>2, <3>1, <4>1 DEF MakeCheckpoint
    <3>2. CASE CopyFile
      <4>1. PICK c \in checkpoints, f \in workspace :
                checkpoints' = (checkpoints \ {c}) \cup {[c EXCEPT !.files = @ \cup {f}]}
          BY <3>2 DEF CopyFile
      <4>2. PICK d : d = [c EXCEPT !.files = @ \cup {f}]
          OBVIOUS
      <4>3. d.files = c.files \cup {f}
          BY <4>1, <4>2 DEF TypeOK, CheckpointType
      <4>. QED
          BY <1>2, <3>2, <4>1, <4>2, <4>3 DEF CopyFile
    <3>3. CASE ProcessWrites
        BY <1>2, <3>3 DEF ProcessWrites
    <3>. QED
        BY <1>6, <3>1, <3>2, <3>3
  <2>. QED
      BY <1>1, <1>3, <1>4, <2>1, <2>2 DEF Loaded
<1>7. CASE Announce
  <2>1. mem'.state = "running" /\ mem'.completed = mem.completed /\ mem'.queued = mem.queued
      BY <1>2, <1>7 DEF Announce, Session
  <2>2. due'["worker"] = SaveThen("action_started", worker.action)
      BY <1>7, OwesOne DEF Announce
  <2>3. OwedBy("worker")' = "action_started" /\ due'["worker"].image = NoSession
      BY <2>2, DueShapes DEF OwedBy
  <2>4. /\ worker.pc = "announce" /\ worker'.pc = "begin" /\ worker'.action = worker.action
        /\ workspace' = workspace /\ checkpoints' = checkpoints
      BY <1>2, <1>7 DEF Announce, WorkerType, disk
  <2>5. DoneKept'
      BY <1>1, <2>1, <2>4 DEF HInv, DoneKept, DoneOwed
  <2>. QED
      BY <1>1, <1>2, <2>1, <2>3, <2>4, <2>5, RunStepKeeps DEF Loaded
<1>8. CASE Ending
  <2>1. (checkpoints' = checkpoints /\ worker.pc # "finish") \/ RunFails
      BY <1>8 DEF Ending, WriteText, WriteOverBudget, ProcessRefused, Begins, RestoreRefused,
         RestoreStopped, RestoreCheckpoint, LogFails, disk
  <2>2. PICK u : EndsCompleted(u) \/ FailsWith(u) \/ EndsCancelled
      BY <1>8 DEF Ending, WriteText, WriteOverBudget, ProcessRefused, RestoreRefused,
         RestoreStopped, RestoreCheckpoint, RunFails, LogFails, SettleAfterRestore, EndsFailed, FailsWith
  <2>3. RunFails => EndsFailed /\ faults' # 0 /\ checkpoints' = checkpoints
      BY DEF RunFails, Fault, TypeOK
  <2>4. workspace' \subseteq Produced /\ checkpoints' = checkpoints
    <3>1. CASE WriteText \/ WriteOverBudget \/ ProcessRefused \/ RestoreRefused \/ LogFails
        BY <1>2, <3>1 DEF WriteText, WriteOverBudget, ProcessRefused, RestoreRefused, LogFails, disk
    <3>2. CASE RestoreStopped \/ RestoreCheckpoint \/ RunFails
        BY <1>2, <3>2 DEF RestoreStopped, RestoreCheckpoint, RunFails
    <3>. QED
        BY <1>8, <3>1, <3>2 DEF Ending
  <2>5. EndsCompleted(u) => worker.pc # "finish"
    <3>1. EndsFailed => worker'.out = "failed"
        BY <1>2 DEF EndsFailed, FailsWith, EndsFailedCharged, EndsAbandoned, WorkerType
    <3>2. EndsCompleted(u) => worker'.out = "completed"
        BY <1>2 DEF EndsCompleted, WorkerType
    <3>. QED
        BY <2>1, <2>3, <3>1, <3>2
  <2>6. worker.pc \notin {"idle", "finish"} \/ faults' # 0
      BY <1>1, <2>1, <2>3
  <2>. QED
      BY <1>1, <2>2, <2>4, <2>5, <2>6, RunEndKeeps
<1>9. CASE Judge
  <2>1. /\ workspace' = workspace /\ checkpoints' = checkpoints /\ worker.pc = "judge"
      BY <1>9 DEF Judge, FailsWith, disk
  <2>2. ASSUME NEW u, EndsCompleted(u) \/ FailsWith(u) PROVE HInv'
      BY <1>1, <1>2, <2>1, <2>2, RunEndKeeps
  <2>3. ASSUME NEW u, mem' = [mem EXCEPT !.usage = u], Restores("failed"), UNCHANGED due
        PROVE  HInv'
    <3>1. /\ mem'.completed = mem.completed /\ mem'.queued = mem.queued /\ mem'.state = mem.state
          /\ worker'.action = worker.action /\ worker'.pc # "finish"
        BY <1>2, <2>3 DEF Session, Restores, WorkerType
    <3>. QED
        BY <1>1, <1>2, <1>3, <1>4, <2>1, <2>3, <3>1 DEF Loaded
  <2>. QED
      BY <1>9, <2>2, <2>3 DEF Judge, FailsWith
<1>10. CASE Finish \/ CheckpointFails \/ AnnounceFails \/ HandlerFails
  <2>1. /\ workspace' = workspace /\ checkpoints' = checkpoints /\ worker' = NoRun
        /\ NoRun.action = NoAction
      BY <1>10 DEF Finish, CheckpointFails, AnnounceFails, HandlerFails, NoRun, disk
  <2>2. CASE mem' = NoSession
      BY <1>1, <2>1, <2>2, DroppedKeeps
  <2>3. CASE mem' # NoSession
    <3>1. Finish
      <4>1. ~Desktop => (worker.out = "completed" /\ Finish)
          BY <1>10, <2>3 DEF Finish, CheckpointFails, AnnounceFails, HandlerFails, AfterRaise
      <4>2. Desktop => faults' = 0
          BY DEF Intact
      <4>. QED
          BY <1>10, <4>1, <4>2 DEF FaultStep
    <3>2. /\ mem' = mem /\ due' = due /\ worker.pc = "finish" /\ Quiet("worker")
          /\ worker.out = "completed" \/ faults = 0
        BY <2>3, <3>1 DEF Finish, AfterRaise, Intact
    <3>3. DoneKept'
        BY <1>1, <2>1, <3>2 DEF HInv, DoneKept, DoneOwed, Loaded
    <3>4. OwedBy("worker")' # "action_queued"
        BY <1>3, <3>2 DEF OwedBy
    <3>. QED
        BY <1>1, <1>2, <1>3, <2>1, <3>2, <3>3, <3>4, RunStepKeeps DEF Loaded
  <2>. QED
      BY <2>2, <2>3
<1>. QED
    BY <1>5, <1>6, <1>7, <1>8, <1>9, <1>10 DEF Working, Ending

LEMMA HNext ==
    ASSUME TypeOK, LInv, LInv', CInv, Intact => HInv, [Next]_vars
    PROVE  Intact' => HInv'
<1>. USE Resolved, TwoThreads
<1>. SUFFICES ASSUME Intact' PROVE HInv'
    OBVIOUS
<1>1. faults' = 0 => faults = 0 /\ ~FaultStep
    BY FaultsGrow
<1>2. HInv /\ (Desktop => ~FaultStep)
    BY <1>1 DEF Intact
<1>3. CASE UNCHANGED vars
  <2>1. QueuesKept' /\ DoneKept' /\ Footprint'
      BY <1>2, <1>3 DEF vars, HInv, QueuesKept, QueuedNext, OwedBy, Quiet, Loaded, DoneKept,
         DoneOwed, Footprint, Produced
  <2>2. Handed'
      BY <1>2, <1>3 DEF vars, HInv, Handed, SomeCandidate, Candidate, OwedBy, Quiet, Loaded
  <2>. QED
      BY <2>1, <2>2 DEF HInv
<1>4. CASE DeskCall
    BY <1>2, <1>4, DeskCallKeeps
<1>5. CASE DeskStep
    BY <1>2, <1>5, DeskStepKeeps, WritesKept DEF DeskStep
<1>6. CASE \E a \in Actions : Execute(a)
  <2>1. PICK a \in Actions : Execute(a)
      BY <1>6
  <2>2. /\ UNCHANGED <<mem, disk, desk, faults>>
        /\ Loaded /\ desk = Idle /\ worker = NoRun /\ mem.state # "candidate_ready"
        /\ due["desk"] = NothingDue /\ due["worker"] = NothingDue
        /\ a \in Elems(mem.queued)
      BY <2>1 DEF Execute, Free, Active, Loaded, Quiet, Executable
  <2>3. /\ due'["desk"] = NothingDue
        /\ \/ worker' = NoRun /\ OwedBy("worker")' = "other"
           \/ worker'.pc = "checkpoint" /\ worker'.action = a /\ OwedBy("worker")' = "none"
        /\ due'["worker"].image = NoSession
    <3>1. CASE a \in Permitted
        BY <2>1, <2>2, <3>1 DEF Execute, NoRun, OwedBy
    <3>2. CASE a \notin Permitted
      <4>1. due'["worker"] = JustAppend("other", a) /\ due'["desk"] = due["desk"]
          BY <2>1, <3>2, OwesOne DEF Execute, Threads
      <4>2. due'["worker"].entry.event = "other" /\ due'["worker"].image = NoSession
          BY <4>1, DueShapes
      <4>. QED
          BY <2>1, <2>2, <3>2, <4>1, <4>2 DEF Execute, OwedBy
    <3>. QED
        BY <3>1, <3>2
  <2>4. a \in Elems(ledger.queued)
      BY <1>2, <2>2 DEF HInv, QueuesKept, QueuedNext, OwedBy
  <2>5. QueuesKept' /\ DoneKept'
      BY <1>2, <2>2, <2>3 DEF HInv, QueuesKept, QueuedNext, OwedBy, Loaded, DoneKept, DoneOwed, disk
  <2>6. Footprint'
    <3>1. worker'.action \in {a, NoAction}
        BY <2>3 DEF NoRun
    <3>. QED
        BY <1>2, <2>2, <2>4, <3>1, ConstantsAssumption DEF HInv, Footprint, Produced, disk
  <2>7. ~SomeCandidate'
    <3>1. ~SomeCandidate
        BY <1>2, <2>2 DEF HInv, Handed
    <3>2. file.state # "candidate_ready"
        BY <3>1 DEF SomeCandidate, Candidate
    <3>3. due'["desk"].image = NoSession
        BY <2>3
    <3>. QED
        BY <2>2, <2>3, <3>2, <3>3 DEF SomeCandidate, Candidate, disk
  <2>. QED
      BY <2>5, <2>6, <2>7 DEF HInv, Handed
<1>7. CASE Persist("worker")
    BY <1>2, <1>7, WritesKept
<1>8. CASE Working
    BY <1>1, <1>2, <1>8, WorkKeeps
<1>9. CASE Crash
  <2>1. worker' = NoRun /\ NoRun.action = NoAction
      BY <1>9 DEF Crash, NoRun
  <2>. QED
      BY <1>2, <1>9, <2>1, DroppedKeeps DEF Crash, disk
<1>10. CASE DeskWriteFails
  <2>1. mem' = NoSession
      BY <1>2, <1>10 DEF DeskWriteFails, AfterRaise, FaultStep
  <2>. QED
      BY <1>2, <1>10, <2>1, DroppedKeeps DEF DeskWriteFails, disk
<1>. QED
    BY <1>3, <1>4, <1>5, <1>6, <1>7, <1>8, <1>9, <1>10
    DEF Next, WorkerStep, FaultStep, Working

(* A workspace handed over for review holds the pack's assets and the     *)
(* output of completed actions only, and everything queued is completed:  *)
(* on the command line whatever finalize_candidate, execute, crashes and  *)
(* failed writes do, in the dialog as long as no write fails.             *)
THEOREM CandidateIsComplete ==
    Spec => []((Desktop => faults = 0) => CandidateHoldsCompletedWork)
<1>1. Init => HInv
  <2>. SUFFICES ASSUME Init PROVE HInv
      OBVIOUS
  <2>. USE Resolved, TwoThreads, EmptyLists
  <2>1. \A t \in Threads : due[t] = NothingDue /\ Quiet(t)
      BY DEF Init, Quiet
  <2>2. mem = NoSession /\ file = NoSession /\ worker = NoRun /\ desk = Idle /\ ~Loaded
      BY DEF Init, Loaded
  <2>3. NoRun.action = NoAction /\ Elems(ledger.queued) = {}
      BY DEF Init, NoRun, EmptyLedger
  <2>4. QueuesKept /\ DoneKept
      BY <2>1, <2>2, <2>3 DEF QueuesKept, QueuedNext, OwedBy, DoneKept, DoneOwed
  <2>5. Footprint
      BY <2>2, <2>3, ConstantsAssumption DEF Init, Footprint, Produced
  <2>6. ~SomeCandidate
      BY <2>1, <2>2 DEF SomeCandidate, Candidate
  <2>. QED
      BY <2>4, <2>5, <2>6 DEF HInv, Handed
<1>2. /\ TypeOK /\ LInv /\ LInv' /\ CInv /\ (Intact => HInv) /\ [Next]_vars
      => (Intact => HInv)'
    BY HNext
<1>3. (Intact => HInv) => ((Desktop => faults = 0) => CandidateHoldsCompletedWork)
    BY DEF Intact, HInv, Handed, SomeCandidate, Candidate, CandidateHoldsCompletedWork
<1>4. Spec => [](TypeOK /\ LInv /\ CInv)
    BY RunInvariant, PTL
<1>. QED
    BY <1>1, <1>2, <1>3, <1>4, PTL DEF Spec

---------------------------------------------------------------------------
(* What ties the ledger to the session object and to what is still owed.  *)

Final == {"cancelled", "candidate_ready"}
Cancelled == "session_cancelled" \in ledger.marks \/ ledger.cancelled # <<>>
HandedOver == "candidate_ready" \in ledger.marks

\* Only a session with its first entry is used.
Opened ==
    /\ Loaded => "session_created" \in ledger.marks \/ OwedBy("desk") = "session_created"
    /\ "session_created" \in ledger.marks => file.state # "absent"
    /\ "session_created" \notin ledger.marks => Elems(ledger.queued) = {}
    /\ OwedBy("desk") = "session_created" => "session_created" \notin ledger.marks

\* A closed trail is known to every copy of the session.
Closed(s) == /\ HandedOver => s.state = "candidate_ready"
             /\ Cancelled => s.state = "cancelled"
Closes ==
    /\ Closed(file) /\ (Loaded => Closed(mem))
    /\ \A t \in Threads : due[t].save = "taken" => Closed(due[t].image)

\* An entry that closes the trail is written after the state it reports.
Closing(event) ==
    CASE event \in {"session_cancelled", "action_cancelled"} -> {"cancelled"}
      [] event = "candidate_ready" -> {"candidate_ready"}
      [] OTHER -> States
SavedFirst ==
    \A t \in Threads :
        /\ mem.state \in Closing(OwedBy(t))
        /\ due[t].save = "taken" => due[t].image.state = mem.state
        /\ due[t].save = "no" => file.state \in Closing(OwedBy(t))

\* Whoever is about to add to the story has a session that is still open.
Going ==
    /\ desk.pc \in {"planning", "stop run"} => mem.state \notin Final
    /\ desk.pc = "close" => mem.state # "candidate_ready"
    /\ desk.pc \in {"close", "stop run"} => Quiet("desk")
    /\ OwedBy("desk") \in {"action_queued", "action_approved"} => mem.state \notin Final
    /\ worker.pc # "idle" /\ (worker.pc = "finish" => worker.out # "cancelled")
          => mem.state \notin Final

\* The ledger lists what memory lists, but for the entry the desk owes.
Queues ==
    /\ Loaded => /\ Elems(ledger.queued) \subseteq Elems(mem.queued)
                 /\ Elems(mem.queued) \subseteq Elems(ledger.queued) \cup QueuedNext
    /\ QueuedNext \subseteq Elems(mem.queued) \ Elems(ledger.queued)

\* From its entry to its end a run is the one the ledger has open.
RunTold ==
    /\ OwedBy("desk") \notin RunEvents
    /\ OwedBy("worker") \in RunEvents \cup {"none", "other"}
    /\ worker.pc \notin {"begin", "finish"} => OwedBy("worker") \notin RunEvents
    /\ ~Quiet("worker") /\ worker.pc = "begin" =>
          due["worker"].entry = Entry("action_started", worker.action)
    /\ ~Quiet("worker") /\ worker.pc = "finish" =>
          /\ due["worker"].entry.action = worker.action
          /\ \/ OwedBy("worker") = "action_completed" /\ worker.out = "completed"
             \/ OwedBy("worker") = "action_failed" /\ worker.out \in {"failed", "abandoned"}
             \/ OwedBy("worker") = "action_cancelled" /\ worker.out = "cancelled"
    /\ \/ worker.pc \in {"process", "exited", "judge", "wipe", "restore"}
       \/ worker.pc = "begin" /\ Quiet("worker")
       \/ worker.pc = "finish" /\ ~Quiet("worker")
       => ledger.run = worker.action

\* Between runs everything completed is in the ledger.
DoneTold ==
    /\ Loaded /\ (worker.pc = "finish" => worker.out = "completed") =>
          Elems(mem.completed) \subseteq
              Elems(ledger.completed) \cup
              (IF worker.pc = "finish" /\ ~Quiet("worker") THEN {worker.action} ELSE {})
    /\ OwedBy("desk") = "candidate_ready" =>
          Elems(ledger.queued) \subseteq Elems(ledger.completed)

GrantsFit == \A a \in Actions : approvals[a].caps \subseteq Caps[a]

TInv == Opened /\ Closes /\ SavedFirst /\ Going /\ Queues /\ RunTold /\ DoneTold /\ GrantsFit

---------------------------------------------------------------------------
(* One process at a time: whoever is not resting has the session to itself. *)
LEMMA OneAtATime ==
    ASSUME ~Desktop, LInv
    PROVE  /\ worker.pc # "idle" \/ ~Quiet("worker") => Loaded /\ desk = Idle /\ Quiet("desk")
           /\ desk # Idle \/ ~Quiet("desk") => Loaded /\ worker = NoRun /\ Quiet("worker")
BY TwoThreads, Resolved DEF LInv, Turns, Resting, Held

(* The process ends, or its call raises: what was written stays.           *)
LEMMA GoneTold ==
    ASSUME LInv', TypeOK', TInv, mem' = NoSession,
           UNCHANGED <<file, ledger>>, GrantsFit'
    PROVE  TInv'
<1>. USE Resolved, TwoThreads
<1>1. /\ desk' = Idle /\ worker'.pc = "idle"
      /\ due'["desk"] = NothingDue /\ due'["worker"] = NothingDue
    BY DEF LInv, Held, Loaded, Quiet
<1>2. mem'.state \in States /\ file'.state \in States
    BY DEF TypeOK, Session
<1>3. Opened' /\ Going' /\ Queues' /\ RunTold' /\ DoneTold'
    BY <1>1 DEF TInv, Opened, OwedBy, Going, Queues, QueuedNext, RunTold, DoneTold, RunEvents,
       Loaded
<1>4. Closes'
    BY <1>1 DEF TInv, Closes, Closed, HandedOver, Cancelled, Loaded
<1>5. SavedFirst'
    BY <1>1, <1>2 DEF SavedFirst, OwedBy, Closing
<1>. QED
    BY <1>3, <1>4, <1>5 DEF TInv

(* A call of the desk that changes neither what is queued nor what is done. *)
LEMMA DeskTold ==
    ASSUME TypeOK, TypeOK', TInv, Loaded, Loaded', Quiet("desk"),
           worker = NoRun, worker' = NoRun, due'["worker"] = NothingDue,
           file' = file, ledger' = ledger, GrantsFit', Going',
           mem'.completed = mem.completed, mem'.queued = mem.queued,
           due'["desk"].save # "taken",
           OwedBy("desk")' \notin RunEvents \cup {"session_created", "action_queued"},
           Closed(mem)', mem'.state \in Closing(OwedBy("desk")'),
           due'["desk"].save = "no" => file.state \in Closing(OwedBy("desk")'),
           OwedBy("desk")' = "candidate_ready" => Elems(mem.queued) \subseteq Elems(mem.completed)
    PROVE  TInv'
<1>. USE Resolved, TwoThreads
<1>1. due["desk"] = NothingDue /\ OwedBy("desk") = "none" /\ QueuedNext = {}
    BY DEF Quiet, OwedBy, QueuedNext
<1>2. Elems(mem.queued) = Elems(ledger.queued)
    BY <1>1 DEF TInv, Queues
<1>3. Elems(mem.completed) \subseteq Elems(ledger.completed)
    BY DEF TInv, DoneTold
<1>4. Opened'
    BY <1>1 DEF TInv, Opened, Loaded
<1>5. Closes'
    BY DEF TInv, Closes, Closed, HandedOver, Cancelled
<1>6. SavedFirst'
  <2>1. mem'.state \in States /\ file'.state \in States
      BY DEF TypeOK, Session
  <2>. QED
      BY <2>1 DEF SavedFirst, OwedBy, Closing
<1>7. QueuedNext' = {} /\ Queues'
    BY <1>2 DEF Queues, QueuedNext
<1>8. RunTold'
    BY DEF RunTold, OwedBy, Quiet, RunEvents
<1>9. DoneTold'
    BY <1>2, <1>3 DEF DoneTold
<1>. QED
    BY <1>4, <1>5, <1>6, <1>7, <1>8, <1>9 DEF TInv

(* A session that is not final has an open trail.                          *)
LEMMA StillOpen ==
    ASSUME TInv, Loaded, mem.state \notin Final
    PROVE  ~HandedOver /\ ~Cancelled
BY DEF TInv, Closes, Closed, Final

LEMMA DeskCallTold ==
    ASSUME ~Desktop, TypeOK, TypeOK', LInv, LInv', CInv, TInv, DeskCall
    PROVE  TInv'
<1>. USE Resolved, TwoThreads
<1>1. Free
    BY DEF DeskCall, CreateSession, LoadSession, Exit, Plan, Approve, Pause, Resume,
       ManualCheckpoint, FinalizeCandidate, CancelLook
<1>2. /\ worker = NoRun /\ desk = Idle /\ due["worker"] = NothingDue /\ due["desk"] = NothingDue
      /\ Quiet("desk")
    BY <1>1 DEF Free, Quiet
<1>3. worker' = NoRun /\ due'["worker"] = NothingDue
    BY <1>1, FreeCall
<1>4. CASE CreateSession
  <2>1. /\ mem' = FreshSession /\ file' = FreshSession /\ ledger' = ledger
        /\ approvals' = approvals /\ desk' = Idle /\ file.state = "absent" /\ ~Loaded
      BY <1>2, <1>4 DEF CreateSession
  <2>2. due'["desk"] = JustAppend("session_created", NoAction)
      BY <1>4, OwesOne DEF CreateSession
  <2>3. /\ OwedBy("desk")' = "session_created" /\ OwedBy("worker")' = "none"
        /\ due'["desk"].save = "no"
      BY <1>3, <2>2, DueShapes DEF OwedBy
  <2>4. "session_created" \notin ledger.marks /\ ~HandedOver /\ ~Cancelled
      BY <2>1 DEF TInv, Opened, Closes, Closed
  <2>5. ledger.completed = <<>>
      BY <2>1 DEF CInv, Saved
  <2>6. FreshSession.state = "created" /\ FreshSession.queued = <<>>
      BY DEF FreshSession
  <2>e. Elems(ledger.queued) = {}
      BY <2>1, <2>4 DEF TInv, Opened
  <2>7. Opened' /\ Closes'
      BY <1>3, <2>1, <2>3, <2>4, <2>6, <2>e DEF Opened, Closes, Closed, HandedOver, Cancelled, OwedBy
  <2>8. SavedFirst' /\ Going'
      BY <1>3, <2>1, <2>3, <2>6 DEF SavedFirst, Closing, States, Going, Final, OwedBy
  <2>9. RunTold' /\ DoneTold'
      BY <1>3, <2>1, <2>3, EmptyLists DEF RunTold, DoneTold, RunEvents, Quiet, OwedBy
  <2>10. Queues' /\ GrantsFit'
      BY <2>1, <2>3, <2>6, <2>e, EmptyLists DEF TInv, Queues, QueuedNext, GrantsFit
  <2>. QED
      BY <2>7, <2>8, <2>9, <2>10 DEF TInv
<1>5. CASE LoadSession
  <2>1. /\ mem' = file /\ file' = file /\ ledger' = ledger /\ approvals' = approvals
        /\ due' = due /\ desk' = desk /\ file.state # "absent"
        /\ "session_created" \in ledger.marks
        /\ file.queued = ledger.queued /\ file.completed = ledger.completed
      BY <1>5 DEF LoadSession, Loadable, ListsAgree, disk
  <2>2. file.state \in States
      BY DEF TypeOK, Session
  <2>3. OwedBy("desk") = "none" /\ OwedBy("desk")' = "none" /\ OwedBy("worker")' = "none"
      BY <1>2, <2>1 DEF OwedBy
  <2>4. Opened' /\ Closes'
      BY <1>2, <2>1, <2>3 DEF TInv, Opened, Closes, Closed, HandedOver, Cancelled
  <2>5. SavedFirst'
      BY <1>2, <2>1, <2>2, <2>3 DEF SavedFirst, Closing, OwedBy
  <2>6. Going' /\ GrantsFit'
      BY <1>2, <1>3, <2>1, <2>3 DEF TInv, Going, GrantsFit
  <2>7. Queues' /\ DoneTold'
      BY <1>3, <2>1, <2>3 DEF Queues, QueuedNext, DoneTold
  <2>8. RunTold'
      BY <1>2, <1>3, <2>1, <2>3 DEF RunTold, RunEvents, Quiet
  <2>. QED
      BY <2>4, <2>5, <2>6, <2>7, <2>8 DEF TInv
<1>6. CASE Exit
    BY <1>6, GoneTold DEF Exit, disk, TInv, GrantsFit
<1>7. mem.state \in States /\ file.state \in States
    BY DEF TypeOK, Session
<1>8. CASE (\E p \in Plans : Plan(p)) \/ CancelLook
  <2>1. /\ mem' = mem /\ file' = file /\ ledger' = ledger /\ approvals' = approvals
        /\ due' = due /\ Loaded
      BY <1>8 DEF Plan, CancelLook, Active, Loaded, disk
  <2>2. \/ desk'.pc = "planning" /\ mem.state \notin Final
        \/ desk'.pc = "stop run" /\ mem.state = "running"
        \/ desk'.pc = "close" /\ mem.state # "candidate_ready"
    <3>1. CASE \E p \in Plans : Plan(p)
        BY <3>1 DEF Plan, Active, Final
    <3>2. CASE CancelLook
        BY <3>2 DEF CancelLook, Idle
    <3>. QED
        BY <1>8, <3>1, <3>2
  <2>3. Going'
      BY <1>2, <1>3, <2>1, <2>2 DEF Going, Final, OwedBy, Quiet
  <2>4. GrantsFit' /\ Closed(mem)'
      BY <2>1 DEF TInv, GrantsFit, Closes, Closed, HandedOver, Cancelled
  <2>5. OwedBy("desk")' = "none" /\ due'["desk"].save = "no"
      BY <1>2, <2>1 DEF OwedBy
  <2>. QED
      BY <1>2, <1>3, <1>7, <2>1, <2>3, <2>4, <2>5, DeskTold DEF Closing, RunEvents, Loaded
<1>9. CASE \E a \in Actions, C \in Grants : Approve(a, C)
  <2>1. PICK a \in Actions, C \in Grants : Approve(a, C)
      BY <1>9
  <2>2. /\ mem' = mem /\ file' = file /\ ledger' = ledger /\ desk' = Idle
        /\ Loaded /\ mem.state \notin Final
      BY <1>2, <2>1 DEF Approve, Active, Loaded, Final
  <2>3. due'["desk"] = JustAppend("action_approved", a)
      BY <2>1, OwesOne DEF Approve
  <2>4. OwedBy("desk")' = "action_approved" /\ due'["desk"].save = "no"
      BY <2>3, DueShapes DEF OwedBy
  <2>5. GrantsFit'
      BY <2>1 DEF Approve, TInv, GrantsFit, TypeOK, GrantType
  <2>6. Going' /\ Closed(mem)'
      BY <1>3, <2>2 DEF Going, TInv, Closes, Closed, HandedOver, Cancelled
  <2>. QED
      BY <1>2, <1>3, <1>7, <2>2, <2>4, <2>5, <2>6, DeskTold DEF Closing, RunEvents, Loaded
<1>10. CASE ManualCheckpoint
  <2>1. /\ mem' = mem /\ file' = file /\ ledger' = ledger /\ approvals' = approvals
        /\ desk' = Idle /\ Loaded
      BY <1>2, <1>10 DEF ManualCheckpoint, disk
  <2>2. due'["desk"] = JustAppend("other", NoAction)
      BY <1>10, OwesOne DEF ManualCheckpoint
  <2>3. OwedBy("desk")' = "other" /\ due'["desk"].save = "no"
      BY <2>2, DueShapes DEF OwedBy
  <2>4. Going' /\ Closed(mem)' /\ GrantsFit'
      BY <1>3, <2>1, <2>3 DEF Going, TInv, Closes, Closed, HandedOver, Cancelled, GrantsFit
  <2>. QED
      BY <1>2, <1>3, <1>7, <2>1, <2>3, <2>4, DeskTold DEF Closing, RunEvents, Loaded
<1>11. CASE Pause \/ Resume \/ FinalizeCandidate
  <2>1. /\ file' = file /\ ledger' = ledger /\ approvals' = approvals /\ desk' = Idle /\ Loaded
      BY <1>2, <1>11 DEF Pause, Resume, FinalizeCandidate, Active, Loaded, disk
  <2>2. mem'.completed = mem.completed /\ mem'.queued = mem.queued
      BY <1>11 DEF Pause, Resume, FinalizeCandidate, TypeOK, Session
  <2>3. PICK e \in {"other", "candidate_ready"} :
            /\ Owes("desk", SaveThen(e, NoAction))
            /\ e = "other" => mem'.state \in {"paused", "waiting_approval", "created"}
                              /\ mem.state \notin Final
            /\ e = "candidate_ready" => /\ mem'.state = "candidate_ready"
                                        /\ mem.state # "cancelled"
                                        /\ Elems(mem.queued) \subseteq Elems(mem.completed)
    <3>1. CASE Pause \/ Resume
        BY <3>1 DEF Pause, Resume, Active, Final, TypeOK, Session
    <3>2. CASE FinalizeCandidate
        BY <3>2 DEF FinalizeCandidate, ReadyForReview, TypeOK, Session
    <3>. QED
        BY <1>11, <3>1, <3>2
  <2>4. due'["desk"] = SaveThen(e, NoAction)
      BY <2>3, OwesOne
  <2>5. OwedBy("desk")' = e /\ due'["desk"].save = "due"
      BY <2>4, DueShapes DEF OwedBy
  <2>6. Closed(mem)'
      BY <2>1, <2>3 DEF TInv, Closes, Closed, HandedOver, Cancelled, Final
  <2>7. Going' /\ GrantsFit'
      BY <1>3, <2>1, <2>3, <2>5 DEF Going, TInv, GrantsFit
  <2>8. mem'.state \in Closing(OwedBy("desk")') /\ mem'.state # "absent"
      BY <2>3, <2>5 DEF Closing, States
  <2>. QED
      BY <1>2, <1>3, <2>1, <2>2, <2>3, <2>5, <2>6, <2>7, <2>8, DeskTold DEF RunEvents, Loaded
<1>. QED
    BY <1>4, <1>5, <1>6, <1>8, <1>9, <1>10, <1>11 DEF DeskCall

LEMMA DeskStepTold ==
    ASSUME ~Desktop, TypeOK, TypeOK', LInv, LInv', TInv,
           PlanOne \/ PlanRejected \/ PlanDone \/ CancelSession \/ RequestCancel \/ SignalCancel
    PROVE  TInv'
<1>. USE Resolved, TwoThreads
<1>1. desk # Idle
    BY DEF PlanOne, PlanRejected, PlanDone, CancelSession, RequestCancel, SignalCancel
<1>2. /\ Loaded /\ worker = NoRun /\ due["worker"] = NothingDue
      /\ Quiet("desk") /\ due["desk"] = NothingDue
    BY <1>1, OneAtATime DEF PlanOne, PlanRejected, PlanDone, CancelSession, RequestCancel,
       SignalCancel, Quiet, TInv, Going
<1>3. worker' = NoRun /\ file' = file /\ ledger' = ledger /\ approvals' = approvals
    BY <1>2 DEF PlanOne, PlanRejected, PlanDone, CancelSession, RequestCancel, SignalCancel, disk
<1>4. due'["worker"] = NothingDue
  <2>1. ASSUME NEW w, Owes("desk", w) PROVE due'["worker"] = NothingDue
      BY <1>2, <2>1, OwesOne
  <2>2. due' = due \/ \E w : Owes("desk", w)
      BY DEF PlanOne, PlanRejected, PlanDone, CancelSession, RequestCancel, SignalCancel
  <2>. QED
      BY <1>2, <2>1, <2>2
<1>5. GrantsFit' /\ mem.state \in States /\ file.state \in States /\ "session_created" \in ledger.marks
    BY <1>2, <1>3 DEF TInv, GrantsFit, TypeOK, Session, Opened, OwedBy
<1>6. CASE PlanOne
  <2>. DEFINE a == Head(desk.rest)
  <2>1. a \in Actions /\ a \notin Elems(mem.queued) /\ mem.state \notin Final
    <3>1. desk.rest \in Seq(Actions) /\ desk.rest # <<>>
        BY <1>6 DEF PlanOne, TypeOK, DeskType, Lists
    <3>. QED
        BY <1>6, <3>1, HeadTailProperties DEF PlanOne, TInv, Going
  <2>2. /\ mem'.queued = Append(mem.queued, a)
        /\ mem'.state = mem.state /\ mem'.completed = mem.completed
        /\ mem.queued \in Lists
      BY <1>6 DEF PlanOne, TypeOK, Session
  <2>3. Elems(mem'.queued) = Elems(mem.queued) \cup {a}
      BY <2>1, <2>2, AppendList
  <2>4. due'["desk"] = JustAppend("action_queued", a)
      BY <1>6, OwesOne DEF PlanOne
  <2>5. /\ OwedBy("desk")' = "action_queued" /\ due'["desk"].save = "no"
        /\ due'["desk"].entry.action = a /\ OwedBy("worker")' = "none"
      BY <1>4, <2>4, DueShapes DEF OwedBy
  <2>6. QueuedNext = {} /\ QueuedNext' = {a}
      BY <1>2, <2>5 DEF QueuedNext, OwedBy
  <2>7. Opened' /\ Closes'
      BY <1>2, <1>3, <1>4, <1>5, <2>2, <2>5
      DEF TInv, Opened, Closes, Closed, HandedOver, Cancelled, Loaded
  <2>8. SavedFirst' /\ Going'
    <3>1. desk'.pc = "planning"
        BY <1>6 DEF PlanOne, TypeOK, DeskType
    <3>2. Going'
        BY <1>3, <2>1, <2>2, <3>1 DEF Going
    <3>3. SavedFirst'
        BY <1>3, <1>4, <1>5, <2>2, <2>5 DEF SavedFirst, Closing
    <3>. QED
        BY <3>2, <3>3
  <2>9. Queues'
      BY <1>2, <1>3, <2>1, <2>3, <2>6 DEF TInv, Queues
  <2>10. RunTold' /\ DoneTold'
      BY <1>2, <1>3, <1>4, <2>2, <2>5 DEF TInv, RunTold, DoneTold, RunEvents, Quiet, Loaded
  <2>. QED
      BY <1>5, <2>7, <2>8, <2>9, <2>10 DEF TInv
<1>7. CASE PlanRejected
    BY <1>3, <1>5, <1>7, GoneTold DEF PlanRejected, AfterRaise
<1>8. CASE PlanDone \/ SignalCancel
  <2>1. /\ mem'.completed = mem.completed /\ mem'.queued = mem.queued /\ desk' = Idle
        /\ mem'.state \in {"waiting_approval", mem.state} \ {"absent"} /\ Closed(mem)'
    <3>1. CASE PlanDone
      <4>1. ~HandedOver /\ ~Cancelled
          BY <1>2, <3>1, StillOpen DEF PlanDone, TInv, Going
      <4>. QED
          BY <1>3, <3>1, <4>1 DEF PlanDone, TypeOK, Session, Closed, HandedOver, Cancelled
    <3>2. CASE SignalCancel
        BY <1>2, <1>3, <3>2 DEF SignalCancel, TInv, Closes, Closed, HandedOver, Cancelled, Loaded
    <3>. QED
        BY <1>8, <3>1, <3>2
  <2>2. due'["desk"] \in {JustSave, NothingDue}
      BY <1>2, <1>8, OwesOne DEF PlanDone, SignalCancel
  <2>3. OwedBy("desk")' = "none" /\ due'["desk"].save # "taken"
      BY <2>2, DueShapes DEF OwedBy
  <2>4. Going'
      BY <1>3, <2>1, <2>3 DEF Going
  <2>5. mem'.state \in States
      BY DEF TypeOK, Session
  <2>. QED
      BY <1>2, <1>3, <1>4, <1>5, <2>1, <2>3, <2>4, <2>5, DeskTold DEF Closing, RunEvents, Loaded
<1>9. CASE CancelSession \/ RequestCancel
  <2>1. PICK e \in {"session_cancelled", "other"} :
            /\ Owes("desk", SaveThen(e, NoAction))
            /\ e = "session_cancelled" => /\ mem'.state = "cancelled" /\ desk' = Idle
                                          /\ mem.state # "candidate_ready"
            /\ e = "other" => /\ mem'.state = "cancelling" /\ desk'.pc = "signal"
                              /\ mem.state \notin Final
            /\ mem'.completed = mem.completed /\ mem'.queued = mem.queued
    <3>1. CASE CancelSession
        BY <3>1 DEF CancelSession, TypeOK, Session, TInv, Going
    <3>2. CASE RequestCancel
        BY <3>2 DEF RequestCancel, TypeOK, Session, DeskType, TInv, Going
    <3>. QED
        BY <1>9, <3>1, <3>2
  <2>2. due'["desk"] = SaveThen(e, NoAction)
      BY <2>1, OwesOne
  <2>3. OwedBy("desk")' = e /\ due'["desk"].save = "due"
      BY <2>2, DueShapes DEF OwedBy
  <2>4. Closed(mem)'
      BY <1>2, <1>3, <2>1 DEF TInv, Closes, Closed, HandedOver, Cancelled, Final
  <2>5. Going'
      BY <1>3, <2>1, <2>3 DEF Going
  <2>6. mem'.state \in Closing(e) /\ mem'.state # "absent"
      BY <2>1 DEF Closing, States
  <2>. QED
      BY <1>2, <1>3, <1>4, <1>5, <2>1, <2>3, <2>4, <2>5, <2>6, DeskTold DEF RunEvents, Loaded
<1>. QED
    BY <1>6, <1>7, <1>8, <1>9

---------------------------------------------------------------------------
(* The writes.                                                            *)

LEMMA SavesTold ==
    ASSUME ~Desktop, TypeOK, TypeOK', LInv, CInv, TInv,
           NEW t \in Threads, TakeSnapshot(t) \/ ReplaceFile(t)
    PROVE  TInv'
<1>. USE Resolved, TwoThreads
<1>1. /\ mem' = mem /\ desk' = desk /\ worker' = worker /\ ~Quiet(t) /\ Loaded
      /\ \A u \in Threads \ {t} : due'[u] = due[u] /\ Quiet(u)
      /\ ledger' = ledger /\ approvals' = approvals
    BY PersistShape, OneAtATime DEF Persist, TakeSnapshot, ReplaceFile, disk
<1>2. /\ due'[t].entry = due[t].entry
      /\ \/ /\ due'[t].save = "taken" /\ due'[t].image = mem
            /\ file' = file
         \/ /\ due'[t].save = "no" /\ due'[t].image = NoSession
            /\ file' = due[t].image /\ due[t].save = "taken"
  <2>1. due[t] \in DueType
      BY DEF TypeOK
  <2>2. CASE TakeSnapshot(t)
    <3>1. due'[t] = [due[t] EXCEPT !.save = "taken", !.image = mem]
        BY <2>2, OwesOne DEF TakeSnapshot
    <3>. QED
        BY <2>1, <2>2, <3>1 DEF DueType, TakeSnapshot, disk
  <2>3. CASE ReplaceFile(t)
    <3>1. due'[t] = [due[t] EXCEPT !.save = "no", !.image = NoSession]
        BY <2>3, OwesOne DEF ReplaceFile
    <3>. QED
        BY <2>1, <2>3, <3>1 DEF DueType, ReplaceFile
  <2>. QED
      BY <2>2, <2>3
<1>3. OwedBy("desk")' = OwedBy("desk") /\ OwedBy("worker")' = OwedBy("worker")
    BY <1>1, <1>2 DEF OwedBy
<1>4. QueuedNext' = QueuedNext /\ due'["worker"].entry = due["worker"].entry
    BY <1>1, <1>2, <1>3 DEF QueuedNext
<1>5. Opened'
    BY <1>1, <1>2, <1>3 DEF TInv, Opened, Loaded, CInv, Saved
<1>6. Closes'
    BY <1>1, <1>2 DEF TInv, Closes, Closed, HandedOver, Cancelled, Loaded, Quiet
<1>7. SavedFirst'
    BY <1>1, <1>2, <1>3 DEF TInv, SavedFirst, Quiet, OwedBy
<1>8. worker.pc \in {"begin", "finish"} => (Quiet("worker")' <=> Quiet("worker"))
    BY <1>1, <1>2, <1>3 DEF TInv, RunTold, Quiet, OwedBy, Entry
<1>9. Going' /\ Queues' /\ GrantsFit'
    BY <1>1, <1>3, <1>4, OneAtATime DEF TInv, Going, Queues, GrantsFit, Loaded
<1>10. RunTold'
    BY <1>1, <1>3, <1>4, <1>8 DEF TInv, RunTold
<1>11. DoneTold'
    BY <1>1, <1>3, <1>8 DEF TInv, DoneTold, Loaded
<1>. QED
    BY <1>5, <1>6, <1>7, <1>9, <1>10, <1>11 DEF TInv

LEMMA EntryTold ==
    ASSUME ~Desktop, TypeOK, TypeOK', LInv, CInv, TInv, NEW t \in Threads, AppendEntry(t)
    PROVE  TInv'
<1>. USE Resolved, TwoThreads
<1>. DEFINE e == due[t].entry
<1>1. /\ mem' = mem /\ desk' = desk /\ worker' = worker /\ ~Quiet(t) /\ Loaded
      /\ \A u \in Threads \ {t} : due'[u] = due[u] /\ Quiet(u)
      /\ due'[t] = NothingDue /\ due[t].save = "no"
      /\ file' = file /\ file.state # "absent"
    BY PersistShape, OneAtATime, OwesOne DEF Persist, AppendEntry, CInv, Saved
<1>2. \A u \in Threads : due'[u] = NothingDue
    BY <1>1 DEF Quiet
<1>3. e \in EntryType /\ ledger \in LedgerType /\ ledger' = Recorded(ledger, e)
    BY DEF TypeOK, DueType, AppendEntry
<1>4. /\ ledger'.marks = ledger.marks \cup ({e.event} \cap SessionEvents)
      /\ Elems(ledger'.queued) =
            Elems(ledger.queued) \cup (IF e.event = "action_queued" THEN {e.action} ELSE {})
      /\ Elems(ledger'.completed) =
            Elems(ledger.completed) \cup (IF e.event = "action_completed" THEN {e.action} ELSE {})
      /\ ledger'.run = IF e.event = "action_started" THEN e.action
                       ELSE IF e.event \in RunEvents THEN NoAction ELSE ledger.run
      /\ ledger'.cancelled # <<>> <=> ledger.cancelled # <<>> \/ e.event = "action_cancelled"
    BY <1>3, RecordedShape
<1>5. OwedBy("desk")' = "none" /\ OwedBy("worker")' = "none" /\ QueuedNext' = {}
    BY <1>2 DEF OwedBy, QueuedNext
<1>6. "session_created" \in ledger'.marks
  <2>1. CASE "session_created" \in ledger.marks
      BY <1>4, <2>1
  <2>2. CASE "session_created" \notin ledger.marks
    <3>1. OwedBy("desk") = "session_created"
        BY <1>1, <2>2 DEF TInv, Opened
    <3>2. t = "desk" /\ e.event = "session_created"
        BY <1>1, <3>1 DEF OwedBy, Quiet
    <3>. QED
        BY <1>4, <3>2 DEF SessionEvents
  <2>. QED
      BY <2>1, <2>2
<1>7. Opened'
    BY <1>1, <1>5, <1>6 DEF Opened
<1>8. Closes'
  <2>1. Closed(mem) /\ Closed(file)
      BY <1>1 DEF TInv, Closes
  <2>2. mem.state \in Closing(e.event) /\ file.state \in Closing(e.event)
      BY <1>1 DEF TInv, SavedFirst, OwedBy
  <2>3. Closed(mem)' /\ Closed(file)'
      BY <1>1, <1>4, <2>1, <2>2
      DEF Closed, HandedOver, Cancelled, Closing, SessionEvents
  <2>. QED
      BY <1>2, <2>3 DEF Closes
<1>9. SavedFirst'
    BY <1>2, <1>5 DEF SavedFirst, Closing, TypeOK, Session
<1>10. Going'
    BY <1>1, <1>2, <1>5 DEF TInv, Going, Quiet
<1>11. Queues'
    BY <1>1, <1>4, <1>5 DEF TInv, Queues, QueuedNext, OwedBy, RunTold, RunEvents, Quiet, Loaded
<1>12. RunTold'
  <2>1. CASE t = "desk"
      BY <1>1, <1>2, <1>5, <2>1, OneAtATime DEF RunTold, RunEvents, Quiet
  <2>2. CASE t = "worker"
    <3>1. worker.pc \in {"idle", "begin", "finish"}
        BY <1>1, <2>2 DEF LInv, Settled
    <3>2. worker.pc = "begin" => ledger'.run = worker.action
        BY <1>1, <1>4, <2>2 DEF TInv, RunTold, Entry
    <3>. QED
        BY <1>1, <1>2, <1>5, <3>1, <3>2 DEF RunTold, RunEvents, Quiet
  <2>. QED
      BY <2>1, <2>2
<1>13. DoneTold'
  <2>1. Elems(ledger.completed) \subseteq Elems(ledger'.completed)
      BY <1>4
  <2>2. CASE t = "desk"
      BY <1>1, <1>5, <2>1, <2>2, OneAtATime DEF TInv, DoneTold, Loaded
  <2>3. CASE t = "worker" /\ worker.pc # "finish"
      BY <1>1, <1>5, <2>1, <2>3 DEF TInv, DoneTold, Loaded
  <2>4. CASE t = "worker" /\ worker.pc = "finish"
    <3>1. worker.out = "completed" => worker.action \in Elems(ledger'.completed)
        BY <1>1, <1>4, <2>4 DEF TInv, RunTold, OwedBy
    <3>. QED
        BY <1>1, <1>5, <2>1, <2>4, <3>1 DEF TInv, DoneTold, Loaded
  <2>. QED
      BY <2>2, <2>3, <2>4
<1>14. GrantsFit'
    BY DEF AppendEntry, TInv, GrantsFit, TypeOK, GrantType
<1>. QED
    BY <1>7, <1>8, <1>9, <1>10, <1>11, <1>12, <1>13, <1>14 DEF TInv

---------------------------------------------------------------------------
(* execute.                                                               *)

LEMMA StartTold ==
    ASSUME TypeOK, TypeOK', TInv, NEW a \in Actions, Execute(a)
    PROVE  TInv'
<1>. USE Resolved, TwoThreads
<1>1. /\ mem' = mem /\ file' = file /\ ledger' = ledger /\ approvals' = approvals
      /\ desk' = Idle /\ worker = NoRun /\ Loaded /\ mem.state \notin Final
      /\ due["desk"] = NothingDue /\ due["worker"] = NothingDue
    BY DEF Execute, Free, Active, Loaded, Final, Quiet, disk
<1>2. /\ due'["desk"] = NothingDue
      /\ \/ worker' = NoRun /\ OwedBy("worker")' = "other" /\ due'["worker"].save = "no"
         \/ worker'.pc = "checkpoint" /\ due'["worker"] = NothingDue
  <2>1. CASE a \in Permitted
      BY <1>1, <2>1 DEF Execute, NoRun
  <2>2. CASE a \notin Permitted
    <3>1. due'["worker"] = JustAppend("other", a) /\ due'["desk"] = due["desk"]
        BY <2>2, OwesOne DEF Execute
    <3>2. due'["worker"].entry.event = "other" /\ due'["worker"].save = "no"
        BY <3>1, DueShapes
    <3>. QED
        BY <1>1, <2>2, <3>1, <3>2 DEF Execute, OwedBy
  <2>. QED
      BY <2>1, <2>2
<1>3. /\ OwedBy("desk") = "none" /\ OwedBy("desk")' = "none"
      /\ OwedBy("worker")' \in {"none", "other"}
      /\ worker'.pc \in {"idle", "checkpoint"}
      /\ due'["worker"].save = "no" /\ due'["desk"].save = "no"
    BY <1>1, <1>2 DEF OwedBy
<1>4. Opened' /\ Closes'
    BY <1>1, <1>3 DEF TInv, Opened, Closes, Closed, HandedOver, Cancelled, Loaded
<1>5. SavedFirst'
    BY <1>3 DEF SavedFirst, Closing, TypeOK, Session
<1>6. Going' /\ GrantsFit'
    BY <1>1, <1>3 DEF TInv, Going, GrantsFit
<1>7. Queues' /\ DoneTold'
    BY <1>1, <1>3 DEF TInv, Queues, QueuedNext, DoneTold, Loaded
<1>8. RunTold'
    BY <1>3 DEF RunTold, RunEvents
<1>. QED
    BY <1>4, <1>5, <1>6, <1>7, <1>8 DEF TInv

\* Where the ledger has the run open.
InRun == \/ worker.pc \in {"process", "exited", "judge", "wipe", "restore"}
         \/ worker.pc = "begin" /\ Quiet("worker")
         \/ worker.pc = "finish" /\ ~Quiet("worker")

(* What a step of a run need not show again.                               *)
LEMMA RunStepTold ==
    ASSUME ~Desktop, TypeOK, TypeOK', LInv, TInv, worker.pc # "idle", Loaded',
           desk' = desk, due'["desk"] = due["desk"],
           file' = file, ledger' = ledger, approvals' = approvals,
           mem'.queued = mem.queued, Closed(mem)',
           due'["worker"].save # "taken",
           mem'.state \in Closing(OwedBy("worker")'),
           due'["worker"].save = "no" => file.state \in Closing(OwedBy("worker")'),
           worker'.pc # "idle" /\ (worker'.pc = "finish" => worker'.out # "cancelled")
               => mem'.state \notin Final,
           RunTold',
           (worker'.pc = "finish" => worker'.out = "completed") =>
               Elems(mem'.completed) \subseteq
                  Elems(ledger.completed) \cup
                  (IF worker'.pc = "finish" /\ ~Quiet("worker")' THEN {worker'.action} ELSE {})
    PROVE  TInv'
<1>. USE Resolved, TwoThreads
<1>1. Loaded /\ desk = Idle /\ due["desk"] = NothingDue
    BY OneAtATime DEF Quiet
<1>2. OwedBy("desk") = "none" /\ OwedBy("desk")' = "none" /\ QueuedNext = {} /\ QueuedNext' = {}
    BY <1>1 DEF OwedBy, QueuedNext
<1>3. Opened' /\ Closes'
    BY <1>1, <1>2 DEF TInv, Opened, Closes, Closed, HandedOver, Cancelled
<1>4. SavedFirst'
  <2>1. mem'.state \in States /\ file'.state \in States
      BY DEF TypeOK, Session
  <2>. QED
      BY <1>1, <1>2, <2>1 DEF SavedFirst, Closing, OwedBy
<1>5. Going' /\ GrantsFit'
    BY <1>1, <1>2 DEF TInv, Going, GrantsFit
<1>6. Queues' /\ DoneTold'
    BY <1>1, <1>2 DEF TInv, Queues, DoneTold
<1>. QED
    BY <1>3, <1>4, <1>5, <1>6 DEF TInv

(* However a run ends, the trail is told of the run it has open.           *)
LEMMA EndTold ==
    ASSUME ~Desktop, TypeOK, TypeOK', LInv, TInv, NEW usage,
           EndsCompleted(usage) \/ FailsWith(usage) \/ EndsCancelled,
           InRun, worker.pc = "finish" => worker.out = "completed" /\ ~EndsCompleted(usage),
           desk' = desk, file' = file, ledger' = ledger, approvals' = approvals
    PROVE  TInv'
<1>. USE Resolved, TwoThreads
<1>1. worker.pc # "idle" /\ mem.state \notin Final /\ Loaded /\ ledger.run = worker.action
    BY OneAtATime DEF InRun, TInv, Going, RunTold
<1>2. ~HandedOver /\ ~Cancelled
    BY <1>1, StillOpen
<1>3. PICK event, out :
          /\ Owes("worker", SaveThen(event, worker.action))
          /\ worker'.out = out /\ worker'.pc = "finish" /\ worker'.action = worker.action
          /\ \/ event = "action_completed" /\ out = "completed" /\ EndsCompleted(usage)
                /\ mem'.state \in {"waiting_approval", "paused"}
             \/ event = "action_failed" /\ out \in {"failed", "abandoned"} /\ mem'.state = "failed"
             \/ event = "action_cancelled" /\ out = "cancelled" /\ mem'.state = "cancelled"
  <2>1. worker'.pc = "finish" /\ worker'.action = worker.action
      BY EndShape
  <2>2. CASE EndsCompleted(usage)
    <3>1. mem'.state \in {"waiting_approval", "paused"}
      <4>. DEFINE t == [mem EXCEPT !.completed = Append(@, worker.action), !.usage = usage]
      <4>1. mem' = [t EXCEPT !.state = IF Remaining(t) # {} THEN "waiting_approval" ELSE "paused"]
          BY <2>2 DEF EndsCompleted, Completed
      <4>2. "state" \in DOMAIN t
          BY DEF TypeOK, Session
      <4>. HIDE DEF t
      <4>. QED
          BY <4>1, <4>2
    <3>2. worker'.out = "completed" /\ Owes("worker", SaveThen("action_completed", worker.action))
        BY <2>2 DEF EndsCompleted, TypeOK, WorkerType
    <3>. QED
        BY <2>1, <2>2, <3>1, <3>2
  <2>3. CASE FailsWith(usage)
    <3>1. worker'.out \in {"failed", "abandoned"} /\ mem'.state = "failed"
          /\ Owes("worker", SaveThen("action_failed", worker.action))
        BY <2>3 DEF FailsWith, EndsFailedCharged, EndsAbandoned, TypeOK, Session, WorkerType
    <3>. QED
        BY <2>1, <3>1
  <2>4. CASE EndsCancelled
    <3>1. worker'.out = "cancelled" /\ mem'.state = "cancelled"
          /\ Owes("worker", SaveThen("action_cancelled", worker.action))
        BY <2>4 DEF EndsCancelled, TypeOK, Session, WorkerType
    <3>. QED
        BY <2>1, <3>1
  <2>. QED
      BY <2>2, <2>3, <2>4
<1>4. due'["worker"] = SaveThen(event, worker.action) /\ due'["desk"] = due["desk"]
    BY <1>3, OwesOne
<1>5. /\ OwedBy("worker")' = event /\ due'["worker"].save = "due"
      /\ due'["worker"].entry.action = worker.action /\ ~Quiet("worker")'
    BY <1>4, DueShapes DEF OwedBy, Quiet
<1>6. mem'.queued = mem.queued
  <2>1. CASE EndsCompleted(usage)
    <3>. DEFINE t == [mem EXCEPT !.completed = Append(@, worker.action), !.usage = usage]
    <3>1. mem' = [t EXCEPT !.state = IF Remaining(t) # {} THEN "waiting_approval" ELSE "paused"]
        BY <2>1 DEF EndsCompleted, Completed
    <3>2. t.queued = mem.queued
        BY DEF TypeOK, Session
    <3>. HIDE DEF t
    <3>. QED
        BY <3>1, <3>2
  <2>2. CASE FailsWith(usage) \/ EndsCancelled
      BY <2>2 DEF FailsWith, EndsFailedCharged, EndsAbandoned, EndsCancelled, TypeOK, Session
  <2>. QED
      BY <2>1, <2>2
<1>7. Closed(mem)' /\ mem'.state \in Closing(event) /\ mem'.state # "absent"
    BY <1>2, <1>3 DEF Closed, HandedOver, Cancelled, Closing, States
<1>8. RunTold'
  <2>1. OwedBy("desk")' \notin RunEvents
      BY <1>4 DEF TInv, RunTold, OwedBy
  <2>. QED
      BY <1>1, <1>3, <1>5, <2>1 DEF RunTold, RunEvents
<1>9. worker'.out = "completed" =>
          Elems(mem'.completed) \subseteq Elems(ledger.completed) \cup {worker'.action}
  <2>. SUFFICES ASSUME worker'.out = "completed"
                PROVE  Elems(mem'.completed) \subseteq Elems(ledger.completed) \cup {worker'.action}
      OBVIOUS
  <2>1. EndsCompleted(usage) /\ worker.pc # "finish"
      BY <1>3
  <2>2. mem'.completed = Append(mem.completed, worker.action)
    <3>. DEFINE t == [mem EXCEPT !.completed = Append(@, worker.action), !.usage = usage]
    <3>1. mem' = [t EXCEPT !.state = IF Remaining(t) # {} THEN "waiting_approval" ELSE "paused"]
        BY <2>1 DEF EndsCompleted, Completed
    <3>2. t.completed = Append(mem.completed, worker.action)
        BY DEF TypeOK, Session
    <3>. HIDE DEF t
    <3>. QED
        BY <3>1, <3>2
  <2>3. Elems(mem'.completed) = Elems(mem.completed) \cup {worker.action}
      BY <1>1, <2>2, AppendList DEF TypeOK, Session
  <2>4. Elems(mem.completed) \subseteq Elems(ledger.completed)
      BY <1>1, <2>1 DEF TInv, DoneTold
  <2>. QED
      BY <1>3, <2>3, <2>4
<1>. QED
    BY <1>1, <1>3, <1>4, <1>5, <1>6, <1>7, <1>8, <1>9, RunStepTold DEF Final, Loaded

LEMMA WorkingTold ==
    ASSUME ~Desktop, TypeOK, TypeOK', LInv, LInv', TInv, Working
    PROVE  TInv'
<1>. USE Resolved, TwoThreads
<1>1. /\ worker.pc # "idle" /\ Loaded /\ desk = Idle /\ due["desk"] = NothingDue
      /\ mem.state \in States /\ file.state \in States
    BY WorkingShape, OneAtATime DEF Quiet, TypeOK, Session
<1>2. /\ desk' = desk /\ due'["desk"] = due["desk"] /\ OwedBy("desk")' = "none"
      /\ file' = file /\ ledger' = ledger
    BY <1>1, DeskUntouched, WorkAside DEF Working, WorkerStep, Aside, OwedBy
<1>3. approvals' = approvals
    BY DEF Working, ReuseCheckpoint, MakeCheckpoint, CopyFile, CheckpointMade, Register,
       Announce, WriteText, WriteOverBudget, ProcessRefused, ProcessStarts, ProcessWrites,
       ProcessExits, ProcessAborts, ProcessCancelled, CheckedNoCancel, Judge,
       RestoreRefused, WipeWorkspace, RestoreStopped, RestoreCheckpoint, Finish,
       CheckpointFails, AnnounceFails, RunFails, LogFails, HandlerFails, disk
<1>4. GrantsFit'
    BY <1>3 DEF TInv, GrantsFit
<1>5. CASE \/ CheckpointFails \/ AnnounceFails \/ HandlerFails
           \/ Finish /\ worker.out # "completed"
  <2>1. mem' = NoSession
      BY <1>5 DEF CheckpointFails, AnnounceFails, HandlerFails, Finish, AfterRaise
  <2>. QED
      BY <1>2, <1>4, <2>1, GoneTold
<1>6. CASE Finish /\ worker.out = "completed"
  <2>1. mem' = mem /\ due' = due /\ worker' = NoRun /\ worker.pc = "finish"
        /\ due["worker"] = NothingDue
      BY <1>6 DEF Finish, Quiet
  <2>2. OwedBy("worker")' = "none" /\ Quiet("worker") /\ Quiet("worker")'
      BY <2>1 DEF OwedBy, Quiet
  <2>3. RunTold'
      BY <1>2, <2>1, <2>2 DEF RunTold, RunEvents
  <2>4. Closed(mem)' /\ Elems(mem.completed) \subseteq Elems(ledger.completed)
      BY <1>1, <1>2, <1>6, <2>1, <2>2
      DEF TInv, Closes, Closed, HandedOver, Cancelled, DoneTold
  <2>. QED
      BY <1>1, <1>2, <1>3, <2>1, <2>2, <2>3, <2>4, RunStepTold DEF Closing, Loaded
<1>7. CASE ReuseCheckpoint \/ MakeCheckpoint \/ CopyFile \/ CheckpointMade \/ Register
           \/ ProcessStarts \/ ProcessWrites \/ ProcessExits \/ ProcessAborts
           \/ ProcessCancelled \/ CheckedNoCancel \/ WipeWorkspace
  <2>1. mem' = mem /\ due' = due /\ worker.pc # "finish"
        /\ (worker.pc = "begin" => Quiet("worker"))
      BY <1>7 DEF ReuseCheckpoint, MakeCheckpoint, CopyFile, CheckpointMade, Register,
         ProcessStarts, Begins, ProcessWrites, ProcessExits, ProcessAborts, ProcessCancelled,
         CheckedNoCancel, WipeWorkspace
  <2>2. /\ worker'.action = worker.action
        /\ worker'.pc \in {"copying", "register", "announce", "process", "exited", "judge",
                           "wipe", "restore"}
        /\ worker'.pc \in {"process", "exited", "judge", "wipe", "restore"} => InRun
    <3>1. CASE CopyFile \/ ProcessWrites
        BY <3>1 DEF CopyFile, ProcessWrites, InRun
    <3>2. CASE ReuseCheckpoint \/ MakeCheckpoint \/ CheckpointMade \/ Register
        BY <3>2 DEF ReuseCheckpoint, MakeCheckpoint, CheckpointMade, Register, TypeOK, WorkerType
    <3>3. CASE ProcessStarts \/ ProcessExits \/ CheckedNoCancel
        BY <3>3 DEF ProcessStarts, Begins, ProcessExits, CheckedNoCancel, InRun, TypeOK, WorkerType
    <3>4. CASE ProcessAborts \/ ProcessCancelled \/ WipeWorkspace
        BY <3>4 DEF ProcessAborts, ProcessCancelled, WipeWorkspace, Restores, InRun, TypeOK, WorkerType
    <3>. QED
        BY <1>7, <3>1, <3>2, <3>3, <3>4
  <2>3. due["worker"] = NothingDue /\ OwedBy("worker")' = "none" /\ Quiet("worker")'
      BY <1>1, <2>1 DEF LInv, Settled, Quiet, OwedBy
  <2>4. mem.state \notin Final /\ Closed(mem)' /\ Elems(mem.completed) \subseteq Elems(ledger.completed)
      BY <1>1, <1>2, <2>1 DEF TInv, Going, Closes, Closed, HandedOver, Cancelled, DoneTold
  <2>5. RunTold'
      BY <1>2, <2>2, <2>3 DEF TInv, RunTold, InRun, RunEvents
  <2>. QED
      BY <1>1, <1>2, <1>3, <2>1, <2>2, <2>3, <2>4, <2>5, RunStepTold DEF Closing, Loaded
<1>8. CASE Announce
  <2>1. due'["worker"] = SaveThen("action_started", worker.action)
      BY <1>8, OwesOne DEF Announce
  <2>2. /\ OwedBy("worker")' = "action_started" /\ due'["worker"].save = "due"
        /\ due'["worker"].entry = Entry("action_started", worker.action) /\ ~Quiet("worker")'
    <3>1. SaveThen("action_started", worker.action).entry = Entry("action_started", worker.action)
        BY DEF SaveThen, NothingDue
    <3>. QED
        BY <2>1, <3>1, DueShapes DEF OwedBy, Quiet
  <2>3. /\ mem'.queued = mem.queued /\ mem'.completed = mem.completed /\ mem'.state = "running"
        /\ worker'.action = worker.action /\ worker'.pc = "begin" /\ worker.pc = "announce"
      BY <1>8 DEF Announce, TypeOK, Session, WorkerType
  <2>4. mem.state \notin Final /\ Elems(mem.completed) \subseteq Elems(ledger.completed)
      BY <1>1, <2>3 DEF TInv, Going, DoneTold
  <2>5. Closed(mem)'
      BY <1>1, <1>2, <2>4, StillOpen DEF Closed, HandedOver, Cancelled
  <2>6. RunTold'
      BY <1>2, <2>2, <2>3 DEF RunTold, RunEvents
  <2>. QED
      BY <1>1, <1>2, <1>3, <2>2, <2>3, <2>4, <2>5, <2>6, RunStepTold
      DEF Closing, States, Final, Loaded
<1>9. CASE Ending
  <2>1. InRun /\ (worker.pc = "finish" => worker.out = "completed")
    <3>1. CASE WriteText \/ WriteOverBudget \/ ProcessRefused \/ RestoreRefused
               \/ RestoreStopped \/ RestoreCheckpoint \/ LogFails
        BY <3>1 DEF WriteText, WriteOverBudget, ProcessRefused, Begins, RestoreRefused,
           RestoreStopped, RestoreCheckpoint, LogFails, InRun
    <3>2. CASE RunFails
        BY <3>2 DEF RunFails, Begins, InRun
    <3>. QED
        BY <1>9, <3>1, <3>2 DEF Ending
  <2>2. PICK u : /\ EndsCompleted(u) \/ FailsWith(u) \/ EndsCancelled
                 /\ worker.pc = "finish" => ~EndsCompleted(u)
    <3>1. CASE WriteText
        BY <3>1 DEF WriteText, Begins
    <3>2. CASE WriteOverBudget \/ ProcessRefused \/ RestoreRefused
               \/ RestoreStopped \/ RestoreCheckpoint
        BY <3>2 DEF WriteOverBudget, ProcessRefused, Begins, RestoreRefused,
           RestoreStopped, RestoreCheckpoint, SettleAfterRestore, EndsFailed, FailsWith
    <3>3. CASE LogFails
        BY <3>3 DEF LogFails, FailsWith
    <3>4. CASE RunFails
      <4>1. FailsWith(mem.usage)
          BY <3>4 DEF RunFails, EndsFailed, FailsWith
      <4>2. ~EndsCompleted(mem.usage)
          BY <4>1 DEF FailsWith, EndsFailedCharged, EndsAbandoned, EndsCompleted, TypeOK, WorkerType
      <4>. QED
          BY <4>1, <4>2
    <3>. QED
        BY <1>9, <3>1, <3>2, <3>3, <3>4 DEF Ending
  <2>. QED
      BY <1>2, <1>3, <2>1, <2>2, EndTold
<1>10. CASE Judge
  <2>1. worker.pc = "judge" /\ InRun
      BY <1>10 DEF Judge, FailsWith, InRun
  <2>2. ASSUME NEW u, mem' = [mem EXCEPT !.usage = u], Restores("failed"), UNCHANGED due
        PROVE  TInv'
    <3>1. /\ mem'.queued = mem.queued /\ mem'.completed = mem.completed /\ mem'.state = mem.state
          /\ worker'.action = worker.action /\ worker'.pc = "wipe"
        BY <2>2 DEF Restores, TypeOK, Session, WorkerType
    <3>2. due["worker"] = NothingDue /\ OwedBy("worker")' = "none" /\ Quiet("worker")'
        BY <2>1, <2>2 DEF LInv, Settled, Quiet, OwedBy
    <3>3. mem.state \notin Final /\ Closed(mem)' /\ Elems(mem.completed) \subseteq Elems(ledger.completed)
        BY <1>1, <1>2, <2>1, <3>1 DEF TInv, Going, Closes, Closed, HandedOver, Cancelled, DoneTold
    <3>4. RunTold'
        BY <1>2, <2>1, <3>1, <3>2 DEF TInv, RunTold, InRun, RunEvents
    <3>. QED
        BY <1>1, <1>2, <1>3, <2>1, <2>2, <3>1, <3>2, <3>3, <3>4, RunStepTold DEF Closing, Loaded
  <2>3. ASSUME NEW u, EndsCompleted(u) \/ FailsWith(u)
        PROVE  TInv'
      BY <1>2, <1>3, <2>1, <2>3, EndTold
  <2>. QED
      BY <1>10, <2>2, <2>3 DEF Judge, FailsWith
<1>. QED
    BY <1>5, <1>6, <1>7, <1>8, <1>9, <1>10 DEF Working, Ending

---------------------------------------------------------------------------
(* Every step keeps the ledger and the session together.                   *)

LEMMA TInit == Init => TInv
<1>. SUFFICES ASSUME Init PROVE TInv
    OBVIOUS
<1>. USE Resolved, TwoThreads, EmptyLists
<1>1. /\ mem = NoSession /\ file = NoSession /\ ledger = EmptyLedger
      /\ desk = Idle /\ worker = NoRun
      /\ due["desk"] = NothingDue /\ due["worker"] = NothingDue
      /\ \A t \in Threads : due[t] = NothingDue
    BY DEF Init
<1>2. OwedBy("desk") = "none" /\ OwedBy("worker") = "none" /\ QueuedNext = {} /\ ~Loaded
    BY <1>1 DEF OwedBy, QueuedNext, Loaded
<1>3. /\ ledger.marks = {} /\ ledger.queued = <<>> /\ ledger.cancelled = <<>>
      /\ ~HandedOver /\ ~Cancelled
    BY <1>1 DEF EmptyLedger, HandedOver, Cancelled
<1>4. Opened /\ Closes /\ Going /\ Queues
    BY <1>1, <1>2, <1>3 DEF Opened, Closes, Closed, Going, Queues
<1>5. SavedFirst
    BY <1>1, <1>2 DEF SavedFirst, Closing, OwedBy, States
<1>6. RunTold /\ DoneTold
    BY <1>1, <1>2 DEF RunTold, DoneTold, RunEvents
<1>7. GrantsFit
    BY DEF Init, GrantsFit
<1>. QED
    BY <1>4, <1>5, <1>6, <1>7 DEF TInv

LEMMA TNext ==
    ASSUME ~Desktop, TypeOK, TypeOK', LInv, LInv', CInv, TInv, [Next]_vars
    PROVE  TInv'
<1>1. CASE DeskCall
    BY <1>1, DeskCallTold
<1>2. CASE PlanOne \/ PlanRejected \/ PlanDone \/ CancelSession \/ RequestCancel \/ SignalCancel
    BY <1>2, DeskStepTold
<1>3. CASE Persist("desk") \/ Persist("worker")
    BY <1>3, TwoThreads, SavesTold, EntryTold DEF Persist
<1>4. CASE \E a \in Actions : Execute(a)
    BY <1>4, StartTold
<1>5. CASE Working
    BY <1>5, WorkingTold
<1>6. CASE Crash \/ DeskWriteFails
    BY <1>6, GoneTold DEF Crash, DeskWriteFails, AfterRaise, disk, TInv, GrantsFit
<1>7. CASE UNCHANGED vars
  <2>1. /\ mem' = mem /\ file' = file /\ ledger' = ledger /\ approvals' = approvals
        /\ due' = due /\ desk' = desk /\ worker' = worker
      BY <1>7 DEF vars
  <2>2. /\ Loaded' = Loaded /\ HandedOver' = HandedOver /\ Cancelled' = Cancelled
        /\ QueuedNext' = QueuedNext /\ \A t : OwedBy(t)' = OwedBy(t) /\ Quiet(t)' = Quiet(t)
      BY <2>1 DEF Loaded, HandedOver, Cancelled, QueuedNext, OwedBy, Quiet
  <2>3. Opened' /\ Going' /\ Queues'
      BY <2>1, <2>2 DEF TInv, Opened, Going, Queues
  <2>4. Closes' /\ SavedFirst'
      BY <2>1, <2>2 DEF TInv, Closes, Closed, SavedFirst
  <2>5. RunTold' /\ DoneTold' /\ GrantsFit'
      BY <2>1, <2>2 DEF TInv, RunTold, DoneTold, GrantsFit
  <2>. QED
      BY <2>3, <2>4, <2>5 DEF TInv
<1>8. DeskStep => \/ PlanOne \/ PlanRejected \/ PlanDone \/ CancelSession \/ RequestCancel
                  \/ SignalCancel \/ Persist("desk")
    BY DEF DeskStep
<1>9. WorkerStep \/ ProcessWrites \/ FaultStep =>
          Working \/ Persist("worker") \/ Crash \/ DeskWriteFails
    BY DEF WorkerStep, FaultStep, Working
<1>. QED
    BY <1>1, <1>2, <1>3, <1>4, <1>5, <1>6, <1>7, <1>8, <1>9 DEF Next

---------------------------------------------------------------------------
(* Every step is a step of the trail, or one its reader does not see.      *)

TrailOpened == "session_created" \in ledger.marks
TrailGranted == [a \in Actions |-> IF approvals[a].recorded THEN approvals[a].caps ELSE {}]
TrailClosing == IF HandedOver THEN "candidate" ELSE IF Cancelled THEN "cancelled" ELSE "open"

(* A new grant file is a narrower grant until its entry is written: the    *)
(* trail then holds no grant of the action.                                *)
LEMMA ApproveTells ==
    ASSUME TypeOK, TInv, NEW a \in Actions, NEW C, Approve(a, C)
    PROVE  Trail!TrailNext
<1>1. ledger' = ledger /\ Loaded /\ mem.state \notin Final
    BY DEF Approve, Active, Loaded, Final
<1>2. ~HandedOver /\ ~Cancelled
    BY <1>1, StillOpen
<1>3. approvals' = [approvals EXCEPT ![a] = [caps |-> C, recorded |-> FALSE]]
    BY DEF Approve
<1>4. TrailGranted' = [TrailGranted EXCEPT ![a] = {}]
    BY <1>3 DEF TrailGranted, TypeOK
<1>5. Trail!Grant(a, {})
    BY <1>1, <1>2, <1>4 DEF Trail!Grant, TrailGranted, HandedOver, Cancelled
<1>6. {} \in SUBSET Capability
    OBVIOUS
<1>. QED
    BY <1>5, <1>6 DEF Trail!TrailNext

LEMMA EntryTells ==
    ASSUME ~Desktop, TypeOK, LInv, CInv, TInv, RunsOnlyApproved,
           NEW t \in Threads, AppendEntry(t)
    PROVE  [Trail!TrailNext]_(Trail!trail)
<1>. USE TwoThreads
<1>. DEFINE e == due[t].entry
<1>1. e \in EntryType /\ ledger \in LedgerType /\ ledger' = Recorded(ledger, e)
    BY DEF TypeOK, DueType, AppendEntry
<1>2. /\ ledger'.marks = ledger.marks \cup ({e.event} \cap SessionEvents)
      /\ Elems(ledger'.queued) =
            Elems(ledger.queued) \cup (IF e.event = "action_queued" THEN {e.action} ELSE {})
      /\ Elems(ledger'.completed) =
            Elems(ledger.completed) \cup (IF e.event = "action_completed" THEN {e.action} ELSE {})
      /\ ledger'.run = IF e.event = "action_started" THEN e.action
                       ELSE IF e.event \in RunEvents THEN NoAction ELSE ledger.run
      /\ ledger'.cancelled # <<>> <=> ledger.cancelled # <<>> \/ e.event = "action_cancelled"
    BY <1>1, RecordedShape
<1>3. ~Quiet(t) /\ Loaded /\ due[t].save = "no" /\ Closed(mem)
    BY PersistShape, OneAtATime DEF Persist, AppendEntry, TInv, Closes
<1>4. e.event # "session_created" => TrailOpened
    <2>1. t = "worker" => due["desk"] = NothingDue
        BY <1>3, OneAtATime DEF Quiet
    <2>. QED
        BY <1>3, <2>1, Resolved DEF TInv, Opened, OwedBy, TrailOpened
<1>5. t = "desk" \/ e.event \in RunEvents \cup {"none", "other"}
    BY DEF TInv, RunTold, OwedBy
<1>6. e.event \in RunEvents => t = "worker"
    BY DEF TInv, RunTold, OwedBy
<1>7. e.event # "action_approved" => TrailGranted' = TrailGranted
    BY DEF AppendEntry, TrailGranted
<1>8. mem.state \in Closing(e.event)
    BY DEF TInv, SavedFirst, OwedBy
<1>9. HandedOver' <=> (HandedOver \/ e.event = "candidate_ready")
    BY <1>2 DEF HandedOver, SessionEvents
<1>10. Cancelled' <=> (Cancelled \/ e.event \in {"session_cancelled", "action_cancelled"})
    BY <1>2 DEF Cancelled, SessionEvents
<1>11. e.event \notin {"candidate_ready", "session_cancelled", "action_cancelled"} =>
           TrailClosing' = TrailClosing
    BY <1>9, <1>10 DEF TrailClosing
<1>12. TrailOpened' <=> (TrailOpened \/ e.event = "session_created")
    BY <1>2 DEF TrailOpened, SessionEvents
<1>13. e.event \notin RunEvents => ledger'.run = ledger.run
    BY <1>2 DEF RunEvents
<1>14. e.event # "action_queued" => Elems(ledger'.queued) = Elems(ledger.queued)
    BY <1>2
<1>15. e.event # "action_completed" => Elems(ledger'.completed) = Elems(ledger.completed)
    BY <1>2
<1>16. mem.state \notin Final => TrailClosing = "open"
    BY <1>3, StillOpen DEF TrailClosing
<1>. HIDE DEF e
<1>20. CASE e.event = "session_created"
  <2>1. ~TrailOpened
      BY <1>5, <1>20 DEF TInv, Opened, OwedBy, TrailOpened, RunEvents, e
  <2>2. Trail!Open
      BY <1>7, <1>11, <1>12, <1>13, <1>14, <1>15, <1>20, <2>1
      DEF Trail!Open, TrailOpened, TrailGranted, TrailClosing, HandedOver, Cancelled, RunEvents
  <2>. QED
      BY <2>2 DEF Trail!TrailNext
<1>21. CASE e.event = "action_queued"
  <2>1. t = "desk" /\ OwedBy("desk") = "action_queued"
      BY <1>5, <1>21 DEF RunEvents, OwedBy, e
  <2>2. e.action \in Actions /\ e.action \notin Elems(ledger.queued) /\ mem.state \notin Final
    <3>1. QueuedNext = {e.action}
        BY <2>1 DEF QueuedNext, e
    <3>. QED
        BY <1>1, <1>21, <2>1, <3>1 DEF TInv, Queues, Going, EntryType, SessionEvents
  <2>3. Elems(ledger'.queued) = Elems(ledger.queued) \cup {e.action}
      BY <1>2, <1>21 DEF e
  <2>4. Trail!Queue(e.action)
      BY <1>4, <1>7, <1>11, <1>12, <1>13, <1>15, <1>16, <1>21, <2>2, <2>3
      DEF Trail!Queue, TrailOpened, TrailGranted, TrailClosing, HandedOver, Cancelled, RunEvents
  <2>. QED
      BY <2>2, <2>4 DEF Trail!TrailNext
<1>22. CASE e.event = "action_approved"
  <2>1. t = "desk" /\ OwedBy("desk") = "action_approved"
      BY <1>5, <1>22 DEF RunEvents, OwedBy, e
  <2>2. e.action \in Actions /\ mem.state \notin Final
      BY <1>1, <1>22, <2>1 DEF TInv, Going, EntryType, SessionEvents
  <2>c. PICK C : C = approvals[e.action].caps
      OBVIOUS
  <2>3. C \subseteq Caps[e.action] /\ C \in SUBSET Capability
      BY <2>2, <2>c DEF TInv, GrantsFit, TypeOK, GrantType
  <2>4. TrailGranted' = [TrailGranted EXCEPT ![e.action] = C]
    <3>1. approvals' = [approvals EXCEPT ![e.action].recorded = TRUE]
        BY <1>22 DEF AppendEntry, e
    <3>2. approvals \in [Actions -> GrantType]
        BY DEF TypeOK
    <3>3. \A a \in Actions : /\ approvals'[a].caps = approvals[a].caps
                             /\ a = e.action => approvals'[a].recorded
                             /\ a # e.action => approvals'[a] = approvals[a]
        BY <2>2, <3>1, <3>2 DEF GrantType
    <3>. QED
        BY <2>2, <2>c, <3>3 DEF TrailGranted
  <2>5. Trail!Grant(e.action, C)
    <3>1. TrailClosing = "open" /\ TrailClosing' = TrailClosing /\ (TrailOpened' <=> TrailOpened)
        BY <1>11, <1>12, <1>16, <1>22, <2>2
    <3>2. /\ ledger'.run = ledger.run /\ Elems(ledger'.queued) = Elems(ledger.queued)
          /\ Elems(ledger'.completed) = Elems(ledger.completed)
        BY <1>13, <1>14, <1>15, <1>22 DEF RunEvents
    <3>3. UNCHANGED <<TrailOpened, Elems(ledger.queued), ledger.run, Elems(ledger.completed),
                      TrailClosing>>
        BY <3>1, <3>2 DEF TrailOpened
    <3>4. TrailClosing = "open" /\ C \subseteq Caps[e.action]
        BY <2>3, <3>1
    <3>. QED
        BY <2>4, <3>3, <3>4
        DEF Trail!Grant, TrailOpened, TrailGranted, TrailClosing, HandedOver, Cancelled
  <2>. QED
      BY <2>2, <2>3, <2>5 DEF Trail!TrailNext
<1>23. CASE e.event \in RunEvents
  <2>. DEFINE a == worker.action
  <2>1. t = "worker" /\ OwedBy("worker") \in RunEvents /\ ~Quiet("worker")
      BY <1>3, <1>6, <1>23 DEF OwedBy, e
  <2>2. worker.pc \in {"begin", "finish"} /\ a \in Actions /\ due["desk"] = NothingDue
      BY <2>1, OneAtATime DEF TInv, RunTold, TypeOK, Quiet
  <2>3. worker.pc = "begin" => e.event = "action_started" /\ e.action = a
      BY <2>1 DEF TInv, RunTold, Entry, e
  <2>4. worker.pc = "finish" =>
            /\ e.action = a /\ ledger.run = a
            /\ \/ e.event = "action_completed" /\ worker.out = "completed"
               \/ e.event = "action_failed" /\ worker.out \in {"failed", "abandoned"}
               \/ e.event = "action_cancelled" /\ worker.out = "cancelled"
      BY <2>1 DEF TInv, RunTold, OwedBy, e
  <2>5. e.event # "action_cancelled" => mem.state \notin Final
      BY <2>2, <2>3, <2>4 DEF TInv, Going
  <2>. HIDE DEF a
  <2>6. CASE e.event = "action_started"
    <3>1. worker.pc = "begin" /\ e.action = a
        BY <2>2, <2>3, <2>4, <2>6
    <3>2. a \in Elems(mem.queued) /\ approvals[a].recorded /\ Caps[a] \subseteq approvals[a].caps
        BY <2>2 DEF RunsOnlyApproved, a
    <3>3. a \in Elems(ledger.queued)
        BY <1>3, <2>2, <3>2, Resolved DEF TInv, Queues, QueuedNext, OwedBy
    <3>4. a \notin Elems(ledger.completed)
        BY <1>3, <3>1 DEF CInv, Known, Fresh, a
    <3>5. ledger'.run = a
        BY <1>2, <2>6, <3>1 DEF e
    <3>6. Caps[a] \subseteq TrailGranted[a]
        BY <2>2, <3>2 DEF TrailGranted
    <3>7. Trail!Start(a)
        BY <1>7, <1>11, <1>12, <1>14, <1>15, <1>16, <2>5, <2>6, <3>3, <3>4, <3>5, <3>6
        DEF Trail!Start, TrailOpened, TrailGranted, TrailClosing, HandedOver, Cancelled
    <3>. QED
        BY <2>2, <3>7 DEF Trail!TrailNext
  <2>7. CASE e.event \in {"action_completed", "action_failed"}
    <3>1. ledger.run = a /\ e.action = a /\ ledger'.run = NoAction
        BY <1>2, <2>2, <2>3, <2>4, <2>7 DEF e, RunEvents
    <3>2. CASE e.event = "action_completed"
      <4>1. Elems(ledger'.completed) = Elems(ledger.completed) \cup {a}
          BY <1>2, <3>1, <3>2 DEF e
      <4>2. Trail!Complete(a)
          BY <1>7, <1>11, <1>12, <1>14, <1>16, <2>5, <3>1, <3>2, <4>1
          DEF Trail!Complete, TrailOpened, TrailGranted, TrailClosing, HandedOver, Cancelled
      <4>. QED
          BY <2>2, <4>2 DEF Trail!TrailNext
    <3>3. CASE e.event = "action_failed"
      <4>1. Trail!Fail(a)
          BY <1>7, <1>11, <1>12, <1>14, <1>15, <1>16, <2>5, <3>1, <3>3
          DEF Trail!Fail, TrailOpened, TrailGranted, TrailClosing, HandedOver, Cancelled
      <4>. QED
          BY <2>2, <4>1 DEF Trail!TrailNext
    <3>. QED
        BY <2>7, <3>2, <3>3
  <2>8. CASE e.event = "action_cancelled"
    <3>1. ledger.run = a /\ ledger'.run = NoAction
        BY <1>2, <2>2, <2>3, <2>4, <2>8 DEF e, RunEvents
    <3>2. ~HandedOver
        BY <1>3, <1>8, <2>8 DEF Closed, Closing
    <3>3. TrailClosing' = "cancelled"
        BY <1>9, <1>10, <2>8, <3>2 DEF TrailClosing
    <3>4. Trail!CancelRun(a)
        BY <1>7, <1>12, <1>14, <1>15, <2>8, <3>1, <3>3
        DEF Trail!CancelRun, TrailOpened, TrailGranted, TrailClosing, HandedOver, Cancelled
    <3>. QED
        BY <2>2, <3>4 DEF Trail!TrailNext
  <2>. QED
      BY <1>23, <2>6, <2>7, <2>8 DEF RunEvents
<1>24. CASE e.event \in {"session_cancelled", "candidate_ready"}
  <2>1. TrailOpened
      BY <1>4, <1>24
  <2>2. CASE e.event = "session_cancelled"
    <3>1. ~HandedOver
        BY <1>3, <1>8, <2>2 DEF Closed, Closing
    <3>2. TrailClosing' = "cancelled" /\ TrailClosing \in {"cancelled", "open"}
        BY <1>9, <1>10, <2>2, <3>1 DEF TrailClosing
    <3>3. Trail!CancelSession \/ UNCHANGED Trail!trail
        BY <1>7, <1>12, <1>13, <1>14, <1>15, <2>1, <2>2, <3>2
        DEF Trail!CancelSession, Trail!trail, TrailOpened, TrailGranted, TrailClosing,
            HandedOver, Cancelled, RunEvents
    <3>. QED
        BY <3>3 DEF Trail!TrailNext
  <2>3. CASE e.event = "candidate_ready"
    <3>1. ~Cancelled
        BY <1>3, <1>8, <2>3 DEF Closed, Closing
    <3>2. TrailClosing' = "candidate" /\ TrailClosing \in {"candidate", "open"}
        BY <1>9, <2>3, <3>1 DEF TrailClosing
    <3>3. Elems(ledger.queued) \subseteq Elems(ledger.completed)
        BY <1>5, <2>3 DEF TInv, DoneTold, OwedBy, RunEvents, e
    <3>4. Trail!HandOver \/ UNCHANGED Trail!trail
        BY <1>7, <1>12, <1>13, <1>14, <1>15, <2>1, <2>3, <3>2, <3>3
        DEF Trail!HandOver, Trail!trail, TrailOpened, TrailGranted, TrailClosing,
            HandedOver, Cancelled, RunEvents
    <3>. QED
        BY <3>4 DEF Trail!TrailNext
  <2>. QED
      BY <1>24, <2>2, <2>3
<1>25. CASE e.event \in {"none", "other"}
  <2>1. UNCHANGED Trail!trail
      BY <1>7, <1>11, <1>12, <1>13, <1>14, <1>15, <1>25
      DEF Trail!trail, TrailOpened, TrailGranted, TrailClosing, HandedOver, Cancelled, RunEvents
  <2>. QED
      BY <2>1
<1>26. e.event \in SessionEvents \cup RunEvents \cup
                   {"action_queued", "action_approved", "none", "other"}
    BY <1>1 DEF EntryType, ActionEvents, e
<1>. QED
    BY <1>20, <1>21, <1>22, <1>23, <1>24, <1>25, <1>26 DEF SessionEvents

LEMMA UntoldSteps ==
    ASSUME [Next]_vars,
           \A t \in Threads : ~AppendEntry(t),
           ~ \E a \in Actions, C \in Grants : Approve(a, C)
    PROVE  UNCHANGED <<ledger, approvals>>
<1>1. CASE DeskCall
    BY <1>1 DEF DeskCall, CreateSession, LoadSession, Exit, Plan, Pause, Resume,
       ManualCheckpoint, FinalizeCandidate, CancelLook, disk
<1>2. CASE PlanOne \/ PlanRejected \/ PlanDone \/ CancelSession \/ RequestCancel \/ SignalCancel
    BY <1>2 DEF PlanOne, PlanRejected, PlanDone, CancelSession, RequestCancel, SignalCancel, disk
<1>3. CASE Persist("desk") \/ Persist("worker")
    BY <1>3, TwoThreads DEF Persist, TakeSnapshot, ReplaceFile, disk
<1>4. CASE \E a \in Actions : Execute(a)
    BY <1>4 DEF Execute, disk
<1>5. CASE Working \/ Crash \/ DeskWriteFails
    BY <1>5 DEF Working, ReuseCheckpoint, MakeCheckpoint, CopyFile, CheckpointMade, Register,
       Announce, WriteText, WriteOverBudget, ProcessRefused, ProcessStarts, ProcessWrites,
       ProcessExits, ProcessAborts, ProcessCancelled, CheckedNoCancel, Judge,
       RestoreRefused, WipeWorkspace, RestoreStopped, RestoreCheckpoint, Finish, Crash, DeskWriteFails,
       CheckpointFails, AnnounceFails, RunFails, LogFails, HandlerFails, disk
<1>6. CASE UNCHANGED vars
    BY <1>6 DEF vars
<1>7. DeskStep => \/ PlanOne \/ PlanRejected \/ PlanDone \/ CancelSession \/ RequestCancel
                  \/ SignalCancel \/ Persist("desk")
    BY DEF DeskStep
<1>8. WorkerStep \/ ProcessWrites \/ FaultStep =>
          Working \/ Persist("worker") \/ Crash \/ DeskWriteFails
    BY DEF WorkerStep, FaultStep, Working
<1>. QED
    BY <1>1, <1>2, <1>3, <1>4, <1>5, <1>6, <1>7, <1>8 DEF Next

LEMMA StepTells ==
    ASSUME ~Desktop, TypeOK, LInv, CInv, TInv, RunsOnlyApproved, [Next]_vars
    PROVE  [Trail!TrailNext]_(Trail!trail)
<1>1. CASE \E t \in Threads : AppendEntry(t)
    BY <1>1, EntryTells
<1>2. CASE \E a \in Actions, C \in Grants : Approve(a, C)
    BY <1>2, ApproveTells
<1>3. CASE UNCHANGED <<ledger, approvals>>
    BY <1>3 DEF Trail!trail
<1>. QED
    BY <1>1, <1>2, <1>3, UntoldSteps

(* On the command line the ledger of service.py and ledger.py tells a      *)
(* legal story: nothing is started unqueued, ungranted, twice completed or *)
(* after the session was closed, every end is the end of the run that was  *)
(* started, and a candidate has everything queued completed, whatever      *)
(* raises, crashes and is loaded again.                                    *)
THEOREM CommandLineTellsLegalStory == ~Desktop => (Spec => TellsLegalStory)
<1>. SUFFICES ASSUME ~Desktop PROVE Spec => TellsLegalStory
    OBVIOUS
<1>1. Init => TInv
    BY TInit
<1>2. Init => Trail!TrailInit
    BY DEF Init, Trail!TrailInit, EmptyLedger, Elems
<1>3. /\ TypeOK /\ TypeOK' /\ LInv /\ LInv' /\ CInv /\ TInv /\ [Next]_vars => TInv'
    BY TNext
<1>4. /\ TypeOK /\ LInv /\ CInv /\ TInv /\ RunsOnlyApproved /\ [Next]_vars
      => [Trail!TrailNext]_(Trail!trail)
    BY StepTells
<1>5. Spec => [](TypeOK /\ LInv /\ CInv /\ BInv)
    BY RunInvariant
<1>6. Spec => []RunsOnlyApproved
    BY OnlyApprovedRun
<1>. QED
    BY <1>1, <1>2, <1>3, <1>4, <1>5, <1>6, PTL DEF Spec, TellsLegalStory, Trail!TrailSpec

---------------------------------------------------------------------------
(* Final states on the command line: nothing leads out of them, and       *)
(* session.json does not know one that memory has left.                   *)

FileFinal == Loaded /\ file.state \in Final => mem.state = file.state

LEMMA FinalStays ==
    ASSUME ~Desktop, TypeOK, LInv, TInv, mem.state \in Final, [Next]_vars
    PROVE  mem' = NoSession \/ mem'.state = mem.state
<1>. USE Resolved, TwoThreads DEF Final
<1>1. CASE UNCHANGED vars
    BY <1>1 DEF vars
<1>2. CASE DeskCall
    BY <1>2 DEF DeskCall, CreateSession, LoadSession, Exit, Plan, Approve, Pause, Resume,
       ManualCheckpoint, FinalizeCandidate, CancelLook, Active, Loaded, TypeOK, Session
<1>3. desk.pc \notin {"planning", "stop run"} /\ (desk.pc = "close" => mem.state = "cancelled")
    BY DEF TInv, Going
<1>4. CASE DeskStep \/ Persist("worker")
    BY <1>3, <1>4, PersistShape DEF DeskStep, PlanOne, PlanRejected, PlanDone, CancelSession,
       RequestCancel, SignalCancel, TypeOK, Session
<1>5. CASE \E a \in Actions : Execute(a)
    BY <1>5 DEF Execute
<1>6. CASE Working
  <2>1. worker.pc = "finish" /\ worker.out = "cancelled"
      BY <1>6, WorkingShape DEF TInv, Going
  <2>2. CASE Finish \/ HandlerFails
      BY <2>1, <2>2 DEF Finish, HandlerFails, AfterRaise
  <2>3. ~RunFails /\ ~LogFails /\ ~AnnounceFails /\ ~CheckpointFails /\ ~Judge
      BY <2>1 DEF RunFails, Begins, LogFails, AnnounceFails, CheckpointFails, Judge
  <2>4. ~(\/ ReuseCheckpoint \/ MakeCheckpoint \/ CopyFile \/ CheckpointMade
          \/ Register \/ Announce \/ WriteText \/ WriteOverBudget
          \/ ProcessRefused \/ ProcessStarts \/ ProcessWrites
          \/ ProcessExits \/ ProcessAborts \/ ProcessCancelled
          \/ CheckedNoCancel \/ RestoreRefused \/ WipeWorkspace \/ RestoreStopped \/ RestoreCheckpoint)
      BY <2>1 DEF ReuseCheckpoint, MakeCheckpoint, CopyFile, CheckpointMade, Register, Announce,
         WriteText, WriteOverBudget, ProcessRefused, ProcessStarts, Begins, ProcessWrites,
         ProcessExits, ProcessAborts, ProcessCancelled, CheckedNoCancel, RestoreRefused,
         WipeWorkspace, RestoreStopped, RestoreCheckpoint
  <2>. QED
      BY <1>6, <2>2, <2>3, <2>4 DEF Working
<1>7. CASE Crash \/ DeskWriteFails
    BY <1>7 DEF Crash, DeskWriteFails, AfterRaise
<1>. QED
    BY <1>1, <1>2, <1>4, <1>5, <1>6, <1>7 DEF Next, WorkerStep, FaultStep, Working

(* Only create_session and os.replace change session.json.                 *)
LEMMA FileMoves ==
    ASSUME TypeOK, LInv, [Next]_vars, file' # file
    PROVE  CreateSession \/ \E t \in Threads : ReplaceFile(t)
<1>. USE TwoThreads
<1>1. CASE DeskCall \/ DeskStep
    BY <1>1 DEF DeskCall, LoadSession, Exit, Plan, Approve, Pause, Resume,
       ManualCheckpoint, FinalizeCandidate, CancelLook, DeskStep, PlanOne, PlanRejected, PlanDone,
       CancelSession, RequestCancel, SignalCancel, Persist, TakeSnapshot, AppendEntry, disk
<1>2. CASE Persist("worker")
    BY <1>2 DEF Persist, TakeSnapshot, AppendEntry, disk
<1>3. CASE (\E a \in Actions : Execute(a)) \/ Crash \/ DeskWriteFails \/ UNCHANGED vars
    BY <1>3 DEF Execute, Crash, DeskWriteFails, disk, vars
<1>4. CASE Working
    BY <1>4, WorkAside DEF Aside
<1>. QED
    BY <1>1, <1>2, <1>3, <1>4 DEF Next, WorkerStep, FaultStep, Working

(* A session object appears only when it is created or loaded.             *)
LEMMA Appears ==
    ASSUME TypeOK, LInv, [Next]_vars, ~Loaded, Loaded'
    PROVE  CreateSession \/ LoadSession
<1>. USE Resolved, TwoThreads
<1>1. desk = Idle /\ worker.pc = "idle" /\ Quiet("desk") /\ Quiet("worker")
    BY DEF LInv, Held
<1>2. CASE DeskCall
    BY <1>2 DEF DeskCall, Exit, Plan, Approve, Pause, Resume,
       ManualCheckpoint, FinalizeCandidate, CancelLook, Active, Loaded
<1>3. CASE DeskStep
    BY <1>1, <1>3, PersistShape DEF DeskStep, PlanOne, PlanRejected, PlanDone,
       CancelSession, RequestCancel, SignalCancel
<1>4. CASE Persist("worker") \/ (\E a \in Actions : Execute(a)) \/ UNCHANGED vars
    BY <1>1, <1>4, PersistShape DEF Execute, Loaded, vars
<1>5. CASE Crash \/ DeskWriteFails
    BY <1>5, <1>1 DEF Crash, DeskWriteFails, Loaded
<1>6. CASE Working
    BY <1>1, <1>6, WorkingShape
<1>. QED
    BY <1>2, <1>3, <1>4, <1>5, <1>6 DEF Next, WorkerStep, FaultStep, Working

LEMMA FileFinalNext ==
    ASSUME ~Desktop, TypeOK, LInv, TInv, FileFinal, [Next]_vars
    PROVE  /\ FileFinal'
           /\ file.state \in Final => file'.state = file.state
<1>. USE Resolved DEF Final
<1>1. CASE CreateSession
    BY <1>1 DEF CreateSession, FileFinal, FreshSession
<1>2. CASE \E t \in Threads : ReplaceFile(t)
  <2>1. PICK t \in Threads : ReplaceFile(t)
      BY <1>2
  <2>2. file' = due[t].image /\ due[t].save = "taken" /\ mem' = mem /\ ~Quiet(t)
      BY <2>1 DEF ReplaceFile, Quiet
  <2>3. due[t].image.state = mem.state /\ Loaded
      BY <2>2 DEF TInv, SavedFirst, LInv, Held
  <2>. QED
      BY <2>2, <2>3 DEF FileFinal
<1>3. CASE file' = file
  <2>1. CASE Loaded
      BY <1>3, <2>1, FinalStays DEF FileFinal, Loaded
  <2>2. CASE LoadSession
      BY <1>3, <2>2 DEF LoadSession, FileFinal
  <2>. QED
      BY <1>1, <1>3, <2>1, <2>2, Appears DEF FileFinal
<1>. QED
    BY <1>1, <1>2, <1>3, FileMoves

(* On the command line a cancelled session stays cancelled in memory and  *)
(* in session.json, across crashes, failed writes and loads: cancel,      *)
(* resume, plan and execute read the state load_session brought back.     *)
THEOREM CommandLineCancelIsFinal == ~Desktop => (Spec => CancelledIsFinal)
<1>. SUFFICES ASSUME ~Desktop PROVE Spec => CancelledIsFinal
    OBVIOUS
<1>1. Init => TInv /\ FileFinal
    BY TInit, Resolved DEF Init, FileFinal, Loaded
<1>2. TypeOK /\ TypeOK' /\ LInv /\ LInv' /\ CInv /\ TInv /\ [Next]_vars => TInv'
    BY TNext
<1>3. TypeOK /\ LInv /\ TInv /\ FileFinal /\ [Next]_vars => FileFinal'
    BY FileFinalNext
<1>4. TypeOK /\ LInv /\ TInv /\ FileFinal /\ [Next]_vars =>
          [/\ mem.state = "cancelled" => mem'.state \in {"cancelled", "absent"}
           /\ file.state = "cancelled" => file'.state = "cancelled"]_vars
    BY FinalStays, FileFinalNext, Resolved DEF Final
<1>. QED
    BY <1>1, <1>2, <1>3, <1>4, RunInvariant, PTL DEF Spec, CancelledIsFinal

---------------------------------------------------------------------------
(* What load_session compares, on the command line: the lists of every    *)
(* copy of the session against the ledger, with the entry a run still     *)
(* owes counted as written.                                               *)

SameHistory(s, u) == s.completed = u.completed /\ s.failed = u.failed
Tells(s, l) == s.completed = l.completed /\ (NoRepeat(l.failed) => s.failed = l.failed)
Told == Recorded(ledger, due["worker"].entry)
Unsaved == \E t \in Threads : due[t].save # "no"

HistoryKept ==
    /\ file.state = "absent" => file.completed = <<>> /\ file.failed = <<>>
    /\ ~Loaded /\ file.state # "absent" => "session_created" \in ledger.marks
    /\ Loaded => Tells(mem, Told)
    /\ \A t \in Threads : due[t].save = "taken" => SameHistory(due[t].image, mem)
    /\ ~Unsaved => IF Loaded THEN SameHistory(file, mem) ELSE Tells(file, ledger)

\* Cancel never finds a run of its own process: nothing is listed cancelled.
Unstopped ==
    /\ worker.pc \in {"idle", "checkpoint", "copying", "register"} => cancelEvent = "none"
    /\ cancelEvent # "set" /\ worker.out # "cancelled"
    /\ desk.pc \notin {"stop run", "signal"}
NoneCancelled == ledger.cancelled = <<>> /\ \A s \in Copies : s.cancelled = <<>>

(* A list without repeats has none in its front, nor its last once more.   *)
LEMMA FrontNoRepeat ==
    ASSUME NEW s \in Lists, NEW a \in Actions, NoRepeat(Append(s, a))
    PROVE  NoRepeat(s) /\ a \notin Elems(s)
<1>1. Len(Append(s, a)) = Len(s) + 1 /\ Len(s) \in Nat
    BY DEF Lists
<1>2. \A i \in 1..Len(s) : Append(s, a)[i] = s[i]
    BY DEF Lists
<1>3. Append(s, a)[Len(s) + 1] = a
    BY DEF Lists
<1>4. \A i \in 1..Len(s) : i \in 1..Len(Append(s, a)) /\ i # Len(s) + 1
    BY <1>1
<1>5. Len(s) + 1 \in 1..Len(Append(s, a))
    BY <1>1
<1>6. NoRepeat(s)
    BY <1>2, <1>4 DEF NoRepeat
<1>7. a \notin Elems(s)
    BY <1>2, <1>3, <1>4, <1>5 DEF NoRepeat, Elems
<1>. QED
    BY <1>6, <1>7

(* Which entries change the lists of the ledger.                          *)
LEMMA RecordedLists ==
    ASSUME NEW l \in LedgerType, NEW e \in EntryType
    PROVE  /\ Recorded(l, e).completed =
                 IF e.event = "action_completed" THEN Append(l.completed, e.action) ELSE l.completed
           /\ Recorded(l, e).failed =
                 IF e.event = "action_failed" THEN Append(l.failed, e.action) ELSE l.failed
           /\ e.event # "action_cancelled" => Recorded(l, e).cancelled = l.cancelled
           /\ l.marks \subseteq Recorded(l, e).marks
           /\ e.event = "session_created" => "session_created" \in Recorded(l, e).marks
<1>1. CASE e.event \in SessionEvents
    BY <1>1 DEF Recorded, LedgerType, SessionEvents
<1>2. CASE e.event = "action_queued"
    BY <1>2 DEF Recorded, LedgerType, SessionEvents
<1>3. CASE e.event \in RunEvents
    BY <1>3 DEF Recorded, LedgerType, SessionEvents, RunEvents
<1>4. CASE e.event \notin SessionEvents \cup RunEvents \cup {"action_queued"}
    BY <1>4 DEF Recorded, SessionEvents, RunEvents
<1>. QED
    BY <1>1, <1>2, <1>3, <1>4

LEMMA Entries == TypeOK => ledger \in LedgerType /\ \A t \in Threads : due[t].entry \in EntryType
BY DEF TypeOK, DueType

(* Nothing is owed, and the step writes nothing.                          *)
LEMMA CalmHistory ==
    ASSUME TypeOK, TypeOK', LInv', HistoryKept, Loaded, \A t \in Threads : Quiet(t),
           file' = file, ledger' = ledger,
           file.state # "absent" => "session_created" \in ledger.marks,
           \A t \in Threads : due'[t].save # "taken",
           OwedBy("worker")' \notin {"action_completed", "action_failed"},
           mem' = NoSession \/ SameHistory(mem', mem)
    PROVE  HistoryKept'
<1>. USE Resolved, TwoThreads
<1>1. /\ Told.completed = ledger.completed /\ Told.failed = ledger.failed
      /\ Told'.completed = ledger.completed /\ Told'.failed = ledger.failed
  <2>1. OwedBy("worker") = "none"
      BY DEF Quiet, OwedBy
  <2>2. Told.completed = ledger.completed /\ Told.failed = ledger.failed
      BY <2>1, Entries, RecordedLists DEF Told, OwedBy
  <2>3. ledger' \in LedgerType /\ due'["worker"].entry \in EntryType
      BY DEF TypeOK, DueType
  <2>4. Told'.completed = ledger.completed /\ Told'.failed = ledger.failed
      BY <2>3, RecordedLists DEF Told, OwedBy
  <2>. QED
      BY <2>2, <2>4
<1>2. ~Unsaved
    BY DEF Unsaved, Quiet
<1>3. SameHistory(file, mem) /\ Tells(mem, Told)
    BY <1>2 DEF HistoryKept
<1>4. CASE mem' = NoSession
    BY <1>1, <1>3, <1>4 DEF HistoryKept, Loaded, SameHistory, Tells
<1>5. CASE SameHistory(mem', mem)
    BY <1>1, <1>3, <1>5 DEF HistoryKept, SameHistory, Tells
<1>. QED
    BY <1>4, <1>5

(* The end of a run, completed or failed, is owed as it is in memory.      *)
LEMMA EndHistory ==
    ASSUME TypeOK, TypeOK', HistoryKept, Loaded, \A t \in Threads : Quiet(t),
           worker.action \in Actions, file' = file, ledger' = ledger,
           NEW usage, EndsCompleted(usage) \/ FailsWith(usage)
    PROVE  HistoryKept'
<1>. USE Resolved, TwoThreads
<1>1. Tells(mem, ledger)
  <2>1. OwedBy("worker") = "none"
      BY DEF Quiet, OwedBy
  <2>. QED
      BY <2>1, Entries, RecordedLists DEF HistoryKept, Tells, Told, OwedBy
<1>2. /\ mem.completed \in Lists /\ mem.failed \in Lists
      /\ ledger.completed \in Lists /\ ledger.failed \in Lists
    BY DEF TypeOK, Session, LedgerType
<1>3. PICK event \in {"action_completed", "action_failed"} :
          /\ Owes("worker", SaveThen(event, worker.action))
          /\ event = "action_completed" <=> EndsCompleted(usage)
  <2>1. ~(EndsCompleted(usage) /\ FailsWith(usage))
    <3>1. EndsCompleted(usage) => worker'.out = "completed"
        BY DEF EndsCompleted, TypeOK, WorkerType
    <3>2. FailsWith(usage) => worker'.out \in {"failed", "abandoned"}
        BY DEF FailsWith, EndsFailedCharged, EndsAbandoned, TypeOK, WorkerType
    <3>. QED
        BY <3>1, <3>2
  <2>. QED
      BY <2>1 DEF EndsCompleted, FailsWith, EndsFailedCharged, EndsAbandoned
<1>4. due'["worker"] = SaveThen(event, worker.action) /\ due'["desk"] = due["desk"]
    BY <1>3, OwesOne
<1>5. /\ OwedBy("worker")' = event /\ due'["worker"].save = "due"
      /\ due'["worker"].entry.action = worker.action
    BY <1>4, DueShapes DEF OwedBy
<1>6. due'["desk"].save = "no"
    BY <1>4 DEF Quiet
<1>9. PICK e \in EntryType : /\ e = due'["worker"].entry /\ e.event = event
                            /\ e.action = worker.action /\ ledger \in LedgerType
  <2>1. due'["worker"].entry \in EntryType /\ ledger \in LedgerType
      BY DEF TypeOK, DueType
  <2>. QED
      BY <1>5, <2>1 DEF OwedBy
<1>7. CASE event = "action_completed"
  <2>1. mem'.completed = Append(mem.completed, worker.action) /\ mem'.failed = mem.failed
        /\ mem'.state # "absent"
    <3>1. PICK t : t = [mem EXCEPT !.completed = Append(@, worker.action), !.usage = usage]
        OBVIOUS
    <3>2. mem' = [t EXCEPT !.state = IF Remaining(t) # {} THEN "waiting_approval" ELSE "paused"]
        BY <1>3, <1>7, <3>1 DEF EndsCompleted, Completed
    <3>3. t.completed = Append(mem.completed, worker.action) /\ t.failed = mem.failed
          /\ "state" \in DOMAIN t
        BY <3>1 DEF TypeOK, Session
    <3>. QED
        BY <3>2, <3>3
  <2>2. /\ Told'.completed = Append(ledger.completed, worker.action)
        /\ Told'.failed = ledger.failed
    <3>1. Told' = Recorded(ledger, e)
        BY <1>9 DEF Told
    <3>2. /\ Recorded(ledger, e).completed =
                 IF e.event = "action_completed" THEN Append(ledger.completed, e.action)
                 ELSE ledger.completed
          /\ Recorded(ledger, e).failed =
                 IF e.event = "action_failed" THEN Append(ledger.failed, e.action)
                 ELSE ledger.failed
        BY <1>9, RecordedLists
    <3>. QED
        BY <1>7, <1>9, <3>1, <3>2
  <2>. QED
      BY <1>1, <1>5, <1>6, <2>1, <2>2 DEF HistoryKept, Loaded, Tells, Unsaved
<1>8. CASE event = "action_failed"
  <2>1. FailsWith(usage)
      BY <1>3, <1>8
  <2>2. mem'.completed = mem.completed /\ mem'.failed = AddOnce(mem.failed, worker.action)
        /\ mem'.state # "absent"
      BY <2>1 DEF FailsWith, EndsFailedCharged, EndsAbandoned, TypeOK, Session
  <2>3. /\ Told'.completed = ledger.completed
        /\ Told'.failed = Append(ledger.failed, worker.action)
    <3>1. Told' = Recorded(ledger, e)
        BY <1>9 DEF Told
    <3>2. /\ Recorded(ledger, e).completed =
                 IF e.event = "action_completed" THEN Append(ledger.completed, e.action)
                 ELSE ledger.completed
          /\ Recorded(ledger, e).failed =
                 IF e.event = "action_failed" THEN Append(ledger.failed, e.action)
                 ELSE ledger.failed
        BY <1>9, RecordedLists
    <3>. QED
        BY <1>8, <1>9, <3>1, <3>2
  <2>4. NoRepeat(Append(ledger.failed, worker.action)) =>
            mem'.failed = Append(ledger.failed, worker.action)
      BY <1>1, <1>2, <2>2, FrontNoRepeat DEF Tells, AddOnce
  <2>. QED
      BY <1>1, <1>5, <1>6, <2>2, <2>3, <2>4 DEF HistoryKept, Loaded, Tells, Unsaved
<1>. QED
    BY <1>7, <1>8

(* Between calls a session that is used has its first entry.               *)
LEMMA QuietOpened ==
    ASSUME TInv, Loaded, Quiet("desk")
    PROVE  "session_created" \in ledger.marks
BY Resolved DEF TInv, Opened, OwedBy, Quiet

LEMMA DeskHistory ==
    ASSUME ~Desktop, TypeOK, TypeOK', LInv, LInv', TInv, HistoryKept,
           \/ DeskCall /\ ~CreateSession /\ ~LoadSession
           \/ PlanOne \/ PlanRejected \/ PlanDone
           \/ CancelSession \/ RequestCancel \/ SignalCancel
    PROVE  HistoryKept'
<1>. USE Resolved, TwoThreads
<1>1. Loaded /\ Quiet("desk") /\ Quiet("worker")
  <2>1. CASE Free /\ DeskCall /\ ~CreateSession /\ ~LoadSession
      BY <2>1 DEF Free, DeskCall, Exit, Plan, Approve, Pause, Resume, ManualCheckpoint,
         FinalizeCandidate, CancelLook, Active, Loaded
  <2>2. CASE PlanOne \/ PlanRejected \/ PlanDone \/ CancelSession \/ RequestCancel \/ SignalCancel
    <3>1. desk.pc # "idle" /\ Quiet("desk")
        BY <2>2 DEF PlanOne, PlanRejected, PlanDone, CancelSession, RequestCancel, SignalCancel,
           TInv, Going
    <3>. QED
        BY <3>1, OneAtATime
  <2>3. DeskCall => Free
      BY DEF DeskCall, CreateSession, LoadSession, Exit, Plan, Approve, Pause, Resume,
         ManualCheckpoint, FinalizeCandidate, CancelLook
  <2>. QED
      BY <2>1, <2>2, <2>3
<1>2. file' = file /\ ledger' = ledger /\ \A t \in Threads : due'[t] = due[t] \/ Bare(due'[t])
    BY DeskAside DEF Aside
<1>3. \A t \in Threads : Quiet(t) /\ due'[t].save # "taken"
    BY <1>1, <1>2 DEF Bare, Quiet
<1>4. due'["worker"] = due["worker"]
  <2>1. ASSUME NEW w, Owes("desk", w) PROVE due'["worker"] = due["worker"]
      BY <2>1, OwesOne
  <2>2. CASE UNCHANGED due
      BY <2>2
  <2>. QED
      BY <2>1, <2>2 DEF DeskCall, Exit, Plan, Approve, Pause, Resume, ManualCheckpoint,
         FinalizeCandidate, CancelLook, PlanOne, PlanRejected, PlanDone, CancelSession,
         RequestCancel, SignalCancel
<1>5. OwedBy("worker")' = "none"
    BY <1>1, <1>4 DEF OwedBy, Quiet
<1>6. mem' = NoSession \/ SameHistory(mem', mem)
    BY DEF DeskCall, Exit, Plan, Approve, Pause, Resume, ManualCheckpoint,
       FinalizeCandidate, CancelLook, PlanOne, PlanRejected, PlanDone, CancelSession,
       RequestCancel, SignalCancel, AfterRaise, SameHistory, TypeOK, Session
<1>. QED
    BY <1>1, <1>2, <1>3, <1>5, <1>6, QuietOpened, CalmHistory

LEMMA OpenHistory ==
    ASSUME ~Desktop, TypeOK, TypeOK', LInv, LInv', CInv, TInv, HistoryKept,
           CreateSession \/ LoadSession
    PROVE  HistoryKept'
<1>. USE Resolved, TwoThreads
<1>1. /\ ~Loaded /\ ~Unsaved /\ OwedBy("worker") = "none"
      /\ \A t \in Threads : due[t] = NothingDue
    BY DEF CreateSession, LoadSession, Free, Quiet, Unsaved, OwedBy
<1>2. Tells(file, ledger)
    BY <1>1 DEF HistoryKept
<1>3. CASE LoadSession
  <2>1. mem' = file /\ due' = due /\ file' = file /\ ledger' = ledger
      BY <1>3 DEF LoadSession, disk
  <2>2. Told' = Told /\ Told.completed = ledger.completed /\ Told.failed = ledger.failed
      BY <1>1, <2>1, Entries, RecordedLists DEF Told, OwedBy
  <2>3. \A t \in Threads : due'[t] = NothingDue
      BY <1>1, <2>1
  <2>. QED
      BY <1>1, <1>2, <1>3, <2>1, <2>2, <2>3 DEF HistoryKept, SameHistory, Tells, Loaded, LoadSession
<1>4. CASE CreateSession
  <2>1. /\ mem' = FreshSession /\ file' = FreshSession /\ ledger' = ledger
        /\ file.state = "absent" /\ Owes("desk", JustAppend("session_created", NoAction))
      BY <1>4 DEF CreateSession
  <2>2. due'["worker"] = due["worker"] /\ due'["desk"].save = "no"
      BY <2>1, OwesOne, DueShapes
  <2>3. Told' = Told /\ Told.completed = ledger.completed /\ Told.failed = ledger.failed
      BY <1>1, <2>1, <2>2, Entries, RecordedLists DEF Told, OwedBy
  <2>4. file.completed = <<>> /\ file.failed = <<>>
      BY <2>1 DEF HistoryKept
  <2>5. FreshSession.failed = <<>>
      BY DEF FreshSession
  <2>6. \A t \in Threads : due'[t].save = "no"
      BY <1>1, <2>2
  <2>. QED
      BY <1>2, <2>1, <2>3, <2>4, <2>5, <2>6 DEF HistoryKept, SameHistory, Tells, Loaded
<1>. QED
    BY <1>3, <1>4

LEMMA WritesHistory ==
    ASSUME ~Desktop, TypeOK, TypeOK', LInv, CInv, TInv, HistoryKept,
           NEW t \in Threads, Persist(t)
    PROVE  HistoryKept'
<1>. USE Resolved, TwoThreads
<1>1. /\ mem' = mem /\ ~Quiet(t) /\ Loaded /\ Loaded'
      /\ \A u \in Threads \ {t} : due'[u] = due[u] /\ due[u] = NothingDue
    BY PersistShape, OneAtATime DEF Loaded, Quiet
<1>2. due[t] \in DueType
    BY DEF TypeOK
<1>3. CASE TakeSnapshot(t)
  <2>1. due'[t] = [due[t] EXCEPT !.save = "taken", !.image = mem]
      BY <1>3, OwesOne DEF TakeSnapshot
  <2>2. due'[t].save = "taken" /\ due'[t].image = mem /\ due'[t].entry = due[t].entry
      BY <1>2, <2>1 DEF DueType
  <2>3. file' = file /\ ledger' = ledger
      BY <1>3 DEF TakeSnapshot, disk
  <2>4. Told' = Told
      BY <1>1, <2>2, <2>3 DEF Told
  <2>. QED
      BY <1>1, <2>2, <2>3, <2>4 DEF HistoryKept, SameHistory, Unsaved
<1>4. CASE ReplaceFile(t)
  <2>1. due'[t] = [due[t] EXCEPT !.save = "no", !.image = NoSession]
      BY <1>4, OwesOne DEF ReplaceFile
  <2>2. due'[t].save = "no" /\ due'[t].entry = due[t].entry
      BY <1>2, <2>1 DEF DueType
  <2>3. file' = due[t].image /\ ledger' = ledger /\ due[t].save = "taken"
      BY <1>4 DEF ReplaceFile
  <2>4. Told' = Told
      BY <1>1, <2>2, <2>3 DEF Told
  <2>5. file'.state # "absent"
      BY <2>3 DEF CInv, Saved
  <2>. QED
      BY <1>1, <2>2, <2>3, <2>4, <2>5 DEF HistoryKept, SameHistory, Unsaved
<1>5. CASE AppendEntry(t)
  <2>1. due'[t] = NothingDue
      BY <1>5, OwesOne DEF AppendEntry
  <2>2. file' = file /\ ledger' = Recorded(ledger, due[t].entry) /\ due[t].save = "no"
      BY <1>5 DEF AppendEntry
  <2>3. Told'.completed = Told.completed /\ Told'.failed = Told.failed
    <3>1. ledger' \in LedgerType /\ NoEntry \in EntryType
        BY InitialTypes DEF TypeOK
    <3>2. Told' = Recorded(ledger', NoEntry)
        BY <1>1, <2>1 DEF Told, NothingDue
    <3>3. Told'.completed = ledger'.completed /\ Told'.failed = ledger'.failed
        BY <3>1, <3>2, RecordedLists
    <3>4. CASE t = "worker"
        BY <2>2, <3>3, <3>4 DEF Told
    <3>5. CASE t = "desk"
      <4>1. OwedBy("worker") = "none" /\ OwedBy("desk") \notin RunEvents
          BY <1>1, <3>5 DEF OwedBy, TInv, RunTold
      <4>. QED
          BY <2>2, <3>3, <3>5, <4>1, Entries, RecordedLists DEF Told, OwedBy, RunEvents
    <3>. QED
        BY <3>4, <3>5
  <2>4. \A u \in Threads : due'[u].save = "no" /\ due[u].save = "no"
      BY <1>1, <2>1, <2>2
  <2>. QED
      BY <1>1, <2>2, <2>3, <2>4 DEF HistoryKept, SameHistory, Unsaved, Tells
<1>. QED
    BY <1>3, <1>4, <1>5 DEF Persist

\* A fault in a run.
RunFault == CheckpointFails \/ AnnounceFails \/ RunFails \/ LogFails \/ HandlerFails

LEMMA WorkHistory ==
    ASSUME ~Desktop, TypeOK, TypeOK', LInv, LInv', TInv, HistoryKept, worker.out # "cancelled",
           Working, ~RunFault
    PROVE  HistoryKept'
<1>. USE Resolved, TwoThreads
<1>1. /\ worker.pc # "idle" /\ Loaded /\ due["desk"] = NothingDue /\ worker.action \in Actions
    BY WorkingShape, OneAtATime DEF Quiet, TypeOK
<1>2. file' = file /\ ledger' = ledger /\ \A t \in Threads : due'[t] = due[t] \/ Bare(due'[t])
    BY WorkAside DEF Aside
<1>3. due["worker"] = NothingDue
  <2>1. worker.pc \in {"begin", "finish"} => Quiet("worker")
      BY DEF Working, RunFault, ReuseCheckpoint, MakeCheckpoint, CopyFile, CheckpointMade,
         Register, Announce, WriteText, WriteOverBudget, ProcessRefused, ProcessStarts, Begins,
         ProcessWrites, ProcessExits, ProcessAborts, ProcessCancelled, CheckedNoCancel, Judge,
         RestoreRefused, WipeWorkspace, RestoreStopped, RestoreCheckpoint, Finish
  <2>. QED
      BY <1>1, <2>1 DEF LInv, Settled, Quiet
<1>4. \A t \in Threads : Quiet(t) /\ due'[t].save # "taken"
    BY <1>1, <1>2, <1>3 DEF Bare, Quiet
<1>5. "session_created" \in ledger.marks
    BY <1>1, QuietOpened DEF Quiet
<1>6. ASSUME due'["worker"] = NothingDue \/ OwedBy("worker")' = "action_started",
             mem' = NoSession \/ SameHistory(mem', mem)
      PROVE  HistoryKept'
  <2>1. OwedBy("worker")' \notin {"action_completed", "action_failed"}
      BY <1>6 DEF OwedBy
  <2>. QED
      BY <1>1, <1>2, <1>4, <1>5, <1>6, <2>1, CalmHistory
<1>7. CASE ReuseCheckpoint \/ MakeCheckpoint \/ CopyFile \/ CheckpointMade \/ Register
           \/ ProcessStarts \/ ProcessWrites \/ ProcessExits \/ ProcessAborts
           \/ ProcessCancelled \/ CheckedNoCancel \/ WipeWorkspace \/ Finish
  <2>1. due' = due /\ mem' \in {mem, NoSession}
      BY <1>7 DEF ReuseCheckpoint, MakeCheckpoint, CopyFile, CheckpointMade, Register,
         ProcessStarts, ProcessWrites, ProcessExits, ProcessAborts, ProcessCancelled,
         CheckedNoCancel, WipeWorkspace, Finish, AfterRaise
  <2>. QED
      BY <1>3, <1>6, <2>1 DEF SameHistory
<1>8. CASE Announce
  <2>1. due'["worker"] = SaveThen("action_started", worker.action)
      BY <1>8, OwesOne DEF Announce
  <2>2. SameHistory(mem', mem)
      BY <1>8 DEF Announce, SameHistory, TypeOK, Session
  <2>. QED
      BY <1>6, <2>1, <2>2, DueShapes DEF OwedBy
<1>9. ASSUME NEW u, EndsCompleted(u) \/ FailsWith(u)
      PROVE  HistoryKept'
    BY <1>1, <1>2, <1>4, <1>9, EndHistory
<1>10. CASE Judge
  <2>1. ASSUME NEW u, mem' = [mem EXCEPT !.usage = u], UNCHANGED due
        PROVE  HistoryKept'
    <3>1. SameHistory(mem', mem)
        BY <2>1 DEF SameHistory, TypeOK, Session
    <3>. QED
        BY <1>3, <1>6, <2>1, <3>1
  <2>. QED
      BY <1>9, <1>10, <2>1 DEF Judge, FailsWith
<1>11. CASE WriteText \/ WriteOverBudget \/ ProcessRefused \/ RestoreRefused
           \/ RestoreStopped \/ RestoreCheckpoint
    BY <1>9, <1>11 DEF WriteText, WriteOverBudget, ProcessRefused, RestoreRefused,
       RestoreStopped, RestoreCheckpoint, SettleAfterRestore, EndsFailed, FailsWith
<1>. QED
    BY <1>7, <1>8, <1>10, <1>11 DEF Working, RunFault

LEMMA HistoryNext ==
    ASSUME ~Desktop, TypeOK, TypeOK', LInv, LInv', CInv, TInv, worker.out # "cancelled",
           faults = 0 => HistoryKept, [Next]_vars
    PROVE  (faults = 0 => HistoryKept)'
<1>. SUFFICES ASSUME faults' = 0 PROVE HistoryKept'
    OBVIOUS
<1>. USE TwoThreads
<1>1. faults = 0 /\ ~FaultStep
    BY FaultsGrow
<1>2. HistoryKept
    BY <1>1
<1>3. CASE UNCHANGED vars
    BY <1>2, <1>3 DEF vars, HistoryKept, Told, Unsaved, Loaded
<1>4. CASE DeskCall
    BY <1>2, <1>4, DeskHistory, OpenHistory
<1>5. CASE DeskStep
    BY <1>2, <1>5, DeskHistory, WritesHistory DEF DeskStep
<1>6. CASE \E a \in Actions : Execute(a)
  <2>1. /\ Loaded /\ \A t \in Threads : Quiet(t)
        /\ mem' = mem /\ file' = file /\ ledger' = ledger
      BY <1>6 DEF Execute, Free, Active, Loaded, disk
  <2>2. \A t \in Threads : due'[t].save # "taken"
      BY <1>6, <2>1, OwesOne, DueShapes, Resolved DEF Execute, Quiet
  <2>3. OwedBy("worker")' \in {"none", "other"}
      BY <1>6, <2>1, OwesOne, DueShapes, Resolved DEF Execute, Quiet, OwedBy
  <2>. QED
      BY <1>2, <2>1, <2>2, <2>3, QuietOpened, CalmHistory DEF SameHistory
<1>7. CASE WorkerStep \/ ProcessWrites
  <2>1. CASE Persist("worker")
      BY <1>2, <2>1, WritesHistory
  <2>2. CASE Working /\ ~RunFault
      BY <1>2, <2>2, WorkHistory
  <2>3. Persist("worker") \/ (Working /\ ~RunFault)
      BY <1>1, <1>7 DEF WorkerStep, Working, FaultStep, RunFault
  <2>. QED
      BY <2>1, <2>2, <2>3
<1>. QED
    BY <1>1, <1>3, <1>4, <1>5, <1>6, <1>7 DEF Next

LEMMA UnstoppedNext ==
    ASSUME ~Desktop, TypeOK, TInv, Unstopped, [Next]_vars
    PROVE  Unstopped'
<1>. USE Resolved, TwoThreads
<1>1. CASE UNCHANGED vars
    BY <1>1 DEF vars, Unstopped
<1>2. CASE DeskCall
  <2>1. Free /\ worker = NoRun /\ worker' = worker /\ cancelEvent' \in {cancelEvent, "none"}
      BY <1>2 DEF DeskCall, CreateSession, LoadSession, Exit, Plan, Approve, Pause, Resume,
         ManualCheckpoint, FinalizeCandidate, CancelLook, Free
  <2>2. cancelEvent = "none" /\ desk = Idle
      BY <2>1 DEF Unstopped, Free
  <2>3. CASE CancelLook
      BY <2>1, <2>2, <2>3 DEF CancelLook, Unstopped, Idle
  <2>4. CASE \E p \in Plans : Plan(p)
    <3>1. desk'.pc = "planning"
        BY <2>4 DEF Plan
    <3>. QED
        BY <2>1, <2>2, <3>1 DEF Unstopped
  <2>5. CASE ~CancelLook /\ ~(\E p \in Plans : Plan(p))
    <3>1. desk' = desk
        BY <1>2, <2>5 DEF DeskCall, CreateSession, LoadSession, Exit, Approve, Pause, Resume,
           ManualCheckpoint, FinalizeCandidate
    <3>. QED
        BY <2>1, <2>2, <3>1 DEF Unstopped
  <2>. QED
      BY <2>3, <2>4, <2>5
<1>3. CASE DeskStep \/ Persist("worker")
  <2>1. CASE PlanOne \/ PlanRejected \/ PlanDone \/ CancelSession
      BY <2>1 DEF PlanOne, PlanRejected, PlanDone, CancelSession, Unstopped, TypeOK, DeskType
  <2>2. CASE Persist("desk") \/ Persist("worker")
      BY <2>2 DEF Persist, TakeSnapshot, ReplaceFile, AppendEntry, Unstopped
  <2>. QED
      BY <1>3, <2>1, <2>2 DEF DeskStep, RequestCancel, SignalCancel, Unstopped
<1>4. CASE \E a \in Actions : Execute(a)
  <2>1. /\ desk' = desk
        /\ cancelEvent' = cancelEvent
        /\ worker = NoRun
        /\ worker'.out = "none"
    <3>1. worker = NoRun /\ NoRun.out = "none"
        BY <1>4 DEF Execute, Free, NoRun
    <3>2. \A a : [NoRun EXCEPT !.pc = "checkpoint", !.action = a].out = "none"
        BY DEF NoRun
    <3>3. PICK a \in Actions : Execute(a)
        BY <1>4
    <3>4. desk' = desk /\ cancelEvent' = cancelEvent
        BY <3>3 DEF Execute
    <3>5. CASE worker' = worker
        BY <3>1, <3>4, <3>5
    <3>6. CASE worker' = [NoRun EXCEPT !.pc = "checkpoint", !.action = a]
        BY <3>1, <3>2, <3>4, <3>6
    <3>. QED
        BY <3>3, <3>5, <3>6 DEF Execute
  <2>. QED
      BY <2>1 DEF Unstopped
<1>5. CASE Working
  <2>1. desk' = desk
      BY <1>5, DeskUntouched DEF Working, WorkerStep
  <2>2. ~EndsCancelled \/ ~SettleAfterRestore \/ worker.out = "cancelled"
      BY DEF SettleAfterRestore, EndsCancelled, EndsFailed, FailsWith, EndsFailedCharged,
         EndsAbandoned, TypeOK, WorkerType
  <2>3. ASSUME NEW u, EndsCompleted(u) \/ FailsWith(u), cancelEvent' = cancelEvent
        PROVE  Unstopped'
    <3>1. worker'.pc = "finish" /\ worker'.out \in {"completed", "failed", "abandoned"}
        BY <2>3 DEF EndsCompleted, FailsWith, EndsFailedCharged, EndsAbandoned, TypeOK, WorkerType
    <3>. QED
        BY <2>1, <2>3, <3>1 DEF Unstopped
  <2>4. CASE Ending
      BY <2>3, <2>4 DEF Ending, WriteText, WriteOverBudget, ProcessRefused, RestoreRefused,
         RestoreStopped, RestoreCheckpoint, SettleAfterRestore, EndsFailed, FailsWith,
         RunFails, LogFails, Unstopped, disk
  <2>5. CASE Judge
    <3>1. CASE Restores("failed")
        BY <2>1, <2>5, <3>1 DEF Judge, FailsWith, Restores, Unstopped, TypeOK, WorkerType
    <3>. QED
        BY <2>3, <2>5, <3>1 DEF Judge, FailsWith
  <2>6. CASE ReuseCheckpoint \/ MakeCheckpoint \/ CopyFile \/ CheckpointMade \/ Register \/ Announce
      BY <2>1, <2>6 DEF ReuseCheckpoint, MakeCheckpoint, CopyFile, CheckpointMade, Register,
         Announce, Unstopped, TypeOK, WorkerType
  <2>7. CASE ProcessStarts \/ ProcessWrites \/ ProcessExits \/ ProcessAborts \/ ProcessCancelled
             \/ CheckedNoCancel \/ WipeWorkspace
      BY <2>1, <2>7 DEF ProcessStarts, Begins, ProcessWrites, ProcessExits, ProcessAborts,
         ProcessCancelled, CheckedNoCancel, WipeWorkspace, Restores, Unstopped, TypeOK, WorkerType
  <2>8. CASE Finish \/ CheckpointFails \/ AnnounceFails \/ HandlerFails
    <3>1. worker' = NoRun /\ NoRun.out = "none"
        BY <2>8 DEF Finish, CheckpointFails, AnnounceFails, HandlerFails, NoRun
    <3>2. cancelEvent' = "none"
        BY <2>8 DEF Finish, CheckpointFails, AnnounceFails, HandlerFails, Unstopped
    <3>. QED
        BY <2>1, <3>1, <3>2 DEF Unstopped
  <2>. QED
      BY <1>5, <2>4, <2>5, <2>6, <2>7, <2>8 DEF Working, Ending
<1>6. CASE Crash \/ DeskWriteFails
  <2>1. NoRun.out = "none"
      BY DEF NoRun
  <2>. QED
      BY <1>6, <2>1 DEF Crash, DeskWriteFails, Unstopped
<1>. QED
    BY <1>1, <1>2, <1>3, <1>4, <1>5, <1>6 DEF Next, WorkerStep, FaultStep, Working
(* What is listed as cancelled in memory is so by the end of a run.         *)
LEMMA CancelledListed ==
    ASSUME TypeOK, worker.out # "cancelled", [Next]_vars
    PROVE  mem'.cancelled \in {mem.cancelled, file.cancelled, <<>>}
<1>1. NoSession.cancelled = <<>> /\ FreshSession.cancelled = <<>>
    BY DEF NoSession, FreshSession
<1>2. mem \in Session
    BY DEF TypeOK
<1>3. CASE UNCHANGED vars
    BY <1>3 DEF vars
<1>4. CASE DeskCall \/ DeskStep \/ Persist("worker")
    BY <1>1, <1>2, <1>4 DEF DeskCall, CreateSession, LoadSession, Exit, Plan, Approve, Pause,
       Resume, ManualCheckpoint, FinalizeCandidate, CancelLook, DeskStep, PlanOne, PlanRejected,
       PlanDone, CancelSession, RequestCancel, SignalCancel, Persist, TakeSnapshot, ReplaceFile,
       AppendEntry, AfterRaise, Session
<1>5. CASE (\E a \in Actions : Execute(a)) \/ Crash \/ DeskWriteFails
    BY <1>1, <1>5 DEF Execute, Crash, DeskWriteFails, AfterRaise
<1>6. ASSUME NEW u, EndsCompleted(u) \/ FailsWith(u)
      PROVE  mem'.cancelled = mem.cancelled
  <2>1. CASE EndsCompleted(u)
    <3>1. PICK t : t = [mem EXCEPT !.completed = Append(@, worker.action), !.usage = u]
        OBVIOUS
    <3>2. mem' = [t EXCEPT !.state = IF Remaining(t) # {} THEN "waiting_approval" ELSE "paused"]
        BY <2>1, <3>1 DEF EndsCompleted, Completed
    <3>3. t.cancelled = mem.cancelled
        BY <1>2, <3>1 DEF Session
    <3>. QED
        BY <3>2, <3>3
  <2>2. CASE FailsWith(u)
      BY <1>2, <2>2 DEF FailsWith, EndsFailedCharged, EndsAbandoned, Session
  <2>. QED
      BY <1>6, <2>1, <2>2
<1>7. CASE Ending
    BY <1>6, <1>7 DEF Ending, WriteText, WriteOverBudget, ProcessRefused, RestoreRefused,
       RestoreStopped, RestoreCheckpoint, SettleAfterRestore, EndsFailed, FailsWith,
         RunFails, LogFails
<1>8. CASE Judge
    BY <1>2, <1>6, <1>8 DEF Judge, FailsWith, Session
<1>9. CASE Working /\ ~Ending /\ ~Judge
    BY <1>1, <1>2, <1>9 DEF Working, Ending, ReuseCheckpoint, MakeCheckpoint, CopyFile,
       CheckpointMade, Register, Announce, ProcessStarts, ProcessWrites, ProcessExits,
       ProcessAborts, ProcessCancelled, CheckedNoCancel, WipeWorkspace, Finish, CheckpointFails,
       AnnounceFails, HandlerFails, AfterRaise, Session
<1>. QED
    BY <1>3, <1>4, <1>5, <1>7, <1>8, <1>9 DEF Next, WorkerStep, FaultStep, Working, Ending

LEMMA NoneCancelledNext ==
    ASSUME ~Desktop, TypeOK, LInv, TInv, Unstopped, NoneCancelled, [Next]_vars
    PROVE  NoneCancelled'
<1>. USE Resolved, TwoThreads
<1>1. /\ mem.cancelled = <<>> /\ file.cancelled = <<>>
      /\ \A t \in Threads : due[t].image.cancelled = <<>>
      /\ NoSession.cancelled = <<>> /\ FreshSession.cancelled = <<>>
    BY DEF NoneCancelled, Copies, NoSession, FreshSession
<1>2. mem'.cancelled = <<>>
    BY <1>1, CancelledListed DEF Unstopped
<1>3. CASE \E t \in Threads : Persist(t)
  <2>1. PICK t \in Threads : Persist(t)
      BY <1>3
  <2>2. /\ due[t] \in DueType /\ ~Quiet(t)
        /\ \A u \in Threads \ {t} : due'[u] = due[u]
      BY <2>1, PersistShape DEF TypeOK
  <2>3. CASE TakeSnapshot(t)
    <3>1. due'[t] = [due[t] EXCEPT !.save = "taken", !.image = mem]
        BY <2>3, OwesOne DEF TakeSnapshot
    <3>2. due'[t].image = mem
        BY <2>2, <3>1 DEF DueType
    <3>3. file' = file /\ ledger' = ledger
        BY <2>3 DEF TakeSnapshot, disk
    <3>. QED
        BY <1>1, <1>2, <2>2, <3>2, <3>3 DEF NoneCancelled, Copies
  <2>4. CASE ReplaceFile(t)
    <3>1. due'[t] = [due[t] EXCEPT !.save = "no", !.image = NoSession]
        BY <2>4, OwesOne DEF ReplaceFile
    <3>2. due'[t].image = NoSession
        BY <2>2, <3>1 DEF DueType
    <3>3. file' = due[t].image /\ ledger' = ledger
        BY <2>4 DEF ReplaceFile
    <3>. QED
        BY <1>1, <1>2, <2>2, <3>2, <3>3 DEF NoneCancelled, Copies
  <2>5. CASE AppendEntry(t)
    <3>1. due'[t] = NothingDue /\ file' = file /\ ledger' = Recorded(ledger, due[t].entry)
        BY <2>5, OwesOne DEF AppendEntry
    <3>2. due[t].entry.event # "action_cancelled"
      <4>1. OwedBy(t) # "action_cancelled"
          BY <2>2 DEF TInv, RunTold, RunEvents, OwedBy, Entry, Unstopped
      <4>. QED
          BY <4>1 DEF OwedBy
    <3>3. ledger'.cancelled = ledger.cancelled
        BY <3>1, <3>2, Entries, RecordedLists
    <3>. QED
        BY <1>1, <1>2, <2>2, <3>1, <3>3 DEF NoneCancelled, Copies
  <2>. QED
      BY <2>1, <2>3, <2>4, <2>5 DEF Persist
<1>4. ASSUME Aside
      PROVE  NoneCancelled'
    BY <1>1, <1>2, <1>4 DEF Aside, Bare, NoneCancelled, Copies
<1>5. ASSUME file' \in {file, FreshSession}, ledger' = ledger,
             NEW t \in Threads, NEW w, Owes(t, w), w.image = NoSession
      PROVE  NoneCancelled'
  <2>1. due'[t].image = NoSession /\ \A u \in Threads \ {t} : due'[u] = due[u]
      BY <1>5, OwesOne
  <2>. QED
      BY <1>1, <1>2, <1>5, <2>1 DEF NoneCancelled, Copies
<1>6. CASE CreateSession
    BY <1>5, <1>6, DueShapes DEF CreateSession
<1>7. CASE LoadSession \/ UNCHANGED vars
  <2>1. file' = file /\ ledger' = ledger /\ due' = due
      BY <1>7 DEF LoadSession, disk, vars
  <2>. QED
      BY <1>4, <2>1 DEF Aside
<1>8. CASE \E a \in Actions : Execute(a)
  <2>1. PICK a \in Actions : Execute(a)
      BY <1>8
  <2>2. CASE UNCHANGED due
      BY <1>4, <2>1, <2>2 DEF Execute, disk, Aside
  <2>3. CASE Owes("worker", JustAppend("other", a))
      BY <1>5, <2>1, <2>3, DueShapes DEF Execute, disk
  <2>. QED
      BY <2>1, <2>2, <2>3 DEF Execute
<1>9. CASE Working
    BY <1>4, <1>9, WorkAside
<1>10. CASE \/ DeskCall /\ ~CreateSession /\ ~LoadSession
           \/ PlanOne \/ PlanRejected \/ PlanDone
           \/ CancelSession \/ RequestCancel \/ SignalCancel
           \/ Crash \/ DeskWriteFails
    BY <1>4, <1>10, DeskAside
<1>. QED
    BY <1>3, <1>6, <1>7, <1>8, <1>9, <1>10 DEF Next, DeskStep, WorkerStep, FaultStep, Working

(* On the command line, between calls and with nothing lost, the session  *)
(* on disk agrees with its ledger, so load_session takes it, unless an    *)
(* action failed in two runs or a plan was refused half-way: each end of  *)
(* a run in execute saves and appends what it listed.                     *)
THEOREM CommandLineSessionLoads == ~Desktop => (Spec => []RestingSessionLoads)
<1>. SUFFICES ASSUME ~Desktop PROVE Spec => []RestingSessionLoads
    OBVIOUS
<1>. DEFINE Base == TypeOK /\ LInv /\ CInv
            Inv == TInv /\ Unstopped /\ NoneCancelled /\ (faults = 0 => HistoryKept)
<1>1. Init => Inv
  <2>. SUFFICES ASSUME Init PROVE Inv
      OBVIOUS
  <2>. USE Resolved, TwoThreads
  <2>1. TInv
      BY TInit
  <2>2. Unstopped
      BY DEF Init, Unstopped, NoRun, Idle
  <2>3. NoSession.cancelled = <<>> /\ NoSession.failed = <<>>
      BY DEF NoSession, FreshSession
  <2>4. NoneCancelled
      BY <2>3 DEF Init, NoneCancelled, Copies, EmptyLedger
  <2>5. HistoryKept
      BY <2>3 DEF Init, HistoryKept, Loaded, Unsaved, Tells, EmptyLedger
  <2>. QED
      BY <2>1, <2>2, <2>4, <2>5
<1>2. Base /\ Base' /\ Inv /\ [Next]_vars => Inv'
    BY TNext, UnstoppedNext, NoneCancelledNext, HistoryNext DEF Unstopped
<1>3. Base /\ Inv => RestingSessionLoads
  <2>. SUFFICES ASSUME Base, Inv, Free, file.state # "absent", faults = 0,
                       NoRepeat(ledger.failed), file.queued = ledger.queued
                PROVE  Loadable
      BY DEF RestingSessionLoads
  <2>. USE Resolved, TwoThreads
  <2>1. \A t \in Threads : due[t] = NothingDue
      BY DEF Free, Quiet
  <2>2. ~Unsaved /\ OwedBy("worker") = "none"
      BY <2>1 DEF Unsaved, OwedBy
  <2>3. "session_created" \in ledger.marks
      BY <2>1, QuietOpened DEF Quiet, HistoryKept
  <2>4. Told.completed = ledger.completed /\ Told.failed = ledger.failed
      BY <2>2, Entries, RecordedLists DEF Told, OwedBy
  <2>5. file.completed = ledger.completed /\ file.failed = ledger.failed
      BY <2>2, <2>4 DEF HistoryKept, Tells, SameHistory
  <2>6. file.cancelled = <<>> /\ ledger.cancelled = <<>>
      BY DEF NoneCancelled, Copies
  <2>. QED
      BY <2>3, <2>5, <2>6 DEF Loadable, ListsAgree
<1>4. Spec => []Base
    BY RunInvariant, PTL
<1>. QED
    BY <1>1, <1>2, <1>3, <1>4, PTL DEF Spec
===========================================================================
