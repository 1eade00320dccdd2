------------------------------ MODULE Desktop ------------------------------
(***************************************************************************)
(* The desktop window (src/relic_auditor/dashboard/qt_app.py, flow.py):    *)
(* the focused flow from a folder to a supervised build, the scan thread   *)
(* that answers into it, the dialogs that open over it, the plan, and the  *)
(* update check and download.                                              *)
(*                                                                         *)
(* One action is one slot of the user-interface thread, or one step of a   *)
(* worker thread.  A slot runs to its end or to the dialog it opens; the   *)
(* signals of worker threads are delivered whatever dialog is open, the    *)
(* user's clicks only to the dialog on top.  The thread of an update task  *)
(* ends with its last signal.  Abstract: an answer is the ranked list of   *)
(* its opportunities, a plan is whether it is Premium, the secondary       *)
(* surfaces (History, Settings, Technical Evidence) are one, reports and   *)
(* what pages display are left out.  The supervised run behind the build   *)
(* dialog is Supervisor's; here it is running or not.                      *)
(* Bound: Answers, the rankings a scan may give.                           *)
(***************************************************************************)
EXTENDS Sequences, SequencesExt

CONSTANTS Targets,      \* folders the user may choose
          Answers,      \* rankings of opportunities a scan may find
          Selectable,   \* flow states whose page offers the folder selector
          None,
          Cancelled, Failed   \* what a scan without an answer ends in

FlowState == {"no_target", "target_selected", "scanning", "answer_ready",
              "opportunity_chooser", "opportunity_selected", "prepare_product",
              "build_pack_gate", "build_pack_ready", "build_session_active"}

Opportunities == UNION {Range(a) : a \in Answers}
Plans == {"free", "premium"}
BundleType == [target : Targets, ranking : Answers, plan : Plans]

ASSUME DesktopConstants ==
    /\ None \notin Targets \cup BundleType
    /\ Selectable \subseteq FlowState
    /\ Answers \subseteq Seq(Opportunities)

Dialogs == {"plan", "pack", "build", "update", "box", "question"}

VARIABLES flow,      \* FlowController.state
          shell,     \* whether the product page or a secondary surface is shown
          target,    \* the folder in the selector
          plan,      \* RelicWindow.entitlement
          bundle,    \* RelicWindow.bundle: folder, ranking, entitlement of the scan
          selected,  \* _selected_opportunity_id
          picked,    \* _opportunity_was_selected
          pack,      \* _exported_build_pack: the folder and opportunity it is for
          scan,      \* the scan thread: its step, folder, plan, cancel flag, result
          builder,   \* a supervised run is active behind the build dialog
          update,    \* update check, download, their threads and dialog
          modal,     \* open dialogs, the one that has the input last
          window,    \* open, hidden until the scan ends, closed, or quit
          refused    \* a slot was cut short by a refused flow transition

vars == <<flow, shell, target, plan, bundle, selected, picked, pack, scan,
          builder, update, modal, window, refused>>
results == <<bundle, selected, picked, pack>>
place == <<flow, shell, refused>>

NoScan == [step |-> "none", target |-> None, plan |-> "free",
           cancelled |-> FALSE, result |-> None]
NoUpdate == [check |-> "none", manual |-> FALSE, auto |-> FALSE, offered |-> FALSE,
             download |-> "none", prepared |-> FALSE, mode |-> "download"]

Init ==
    /\ \E t \in Targets \cup {None} :
          /\ target = t
          /\ flow = IF t = None THEN "no_target" ELSE "target_selected"
    /\ shell = "product" /\ refused = FALSE
    /\ plan \in Plans
    /\ bundle = None /\ selected = None /\ picked = FALSE /\ pack = None
    /\ scan = NoScan
    /\ builder = FALSE
    /\ update \in {[NoUpdate EXCEPT !.auto = a] : a \in BOOLEAN}
    /\ modal = <<>>
    /\ window = "open"

(***************************************************************************)
(* FlowController.transition: a destination outside the table is refused   *)
(* with an exception, which ends the slot.                                 *)
(***************************************************************************)
Allowed ==
    [ no_target            |-> {"target_selected"},
      target_selected      |-> {"no_target", "scanning"},
      scanning             |-> {"target_selected", "answer_ready"},
      answer_ready         |-> {"no_target", "target_selected", "opportunity_chooser",
                                "prepare_product"},
      opportunity_chooser  |-> {"answer_ready", "opportunity_selected"},
      opportunity_selected |-> {"answer_ready", "opportunity_chooser", "prepare_product"},
      prepare_product      |-> {"answer_ready", "opportunity_selected",
                                "opportunity_chooser", "build_pack_gate",
                                "build_pack_ready"},
      build_pack_gate      |-> {"prepare_product"},
      build_pack_ready     |-> {"answer_ready", "opportunity_selected",
                                "prepare_product", "build_session_active"},
      build_session_active |-> {"build_pack_ready"} ]

Transition(destination) ==
    IF destination \in Allowed[flow] \cup {flow}
    THEN /\ flow' = destination
         /\ shell' = "product"
         /\ UNCHANGED refused
    ELSE /\ refused' = TRUE
         /\ UNCHANGED <<flow, shell>>

NewWorkflow(destination) ==
    flow' = destination /\ shell' = "product" /\ UNCHANGED refused

Open(d) == modal' = Append(modal, d)
Box == Open("box")
Running == window \in {"open", "hidden"}
OnTop(d) == Running /\ modal # <<>> /\ Last(modal) = d
Close == modal' = Front(modal)

Free == modal = <<>> /\ window = "open"
OnPage(states) == Free /\ shell = "product" /\ flow \in states
OnSurface == Free /\ shell = "secondary"
AnswerPage == {"answer_ready", "opportunity_selected"}

Ranking == IF bundle = None THEN <<>> ELSE bundle.ranking

\* Mutants: the choice is kept whatever was found; the rank is kept for the opportunity.
LeadAsChosen(ranking, choice) == choice
LeadRank(ranking, choice) == IF ranking = <<>> THEN None ELSE 1
\* focused_answer: the chosen opportunity if the scan found it, else the first
Lead(ranking, choice) ==
    IF choice \in Range(ranking) THEN choice
    ELSE IF ranking = <<>> THEN None ELSE Head(ranking)

-----------------------------------------------------------------------------
\* Secondary surfaces never touch the flow.
OpenSurface ==
    /\ Free /\ shell = "product" /\ shell' = "secondary"
    /\ UNCHANGED <<flow, refused, target, plan, results, scan, builder, update, modal, window>>
CloseSurface ==
    /\ OnSurface /\ shell' = "product"
    /\ UNCHANGED <<flow, refused, target, plan, results, scan, builder, update, modal, window>>

\* _target_changed; the selector is disabled from the start of a scan to its thread's end
TargetChanged(t) ==
    /\ OnPage(Selectable) /\ scan.step = "none"
    /\ target' = t
    /\ IF t = None \/ (bundle # None /\ bundle.target # t)
       THEN bundle' = None /\ selected' = None /\ picked' = FALSE /\ pack' = None
       ELSE UNCHANGED results
    /\ NewWorkflow(IF t = None THEN "no_target" ELSE "target_selected")
    /\ UNCHANGED <<plan, scan, builder, update, modal, window>>

StartScan ==
    /\ OnPage({"target_selected"}) /\ target # None /\ scan.step = "none"
    /\ bundle' = None /\ pack' = None
    /\ Transition("scanning")
    /\ scan' = [NoScan EXCEPT !.step = "running", !.target = target, !.plan = plan]
    /\ UNCHANGED <<target, plan, selected, picked, builder, update, modal, window>>

CancelScan ==
    /\ OnPage({"scanning"}) /\ scan.step # "none"
    /\ scan' = [scan EXCEPT !.cancelled = TRUE]
    /\ UNCHANGED <<place, target, plan, results, builder, update, modal, window>>

(***************************************************************************)
(* ScanWorker.run.  The cancel flag is looked at when the engine reports   *)
(* progress, so a scan past its last report completes all the same.        *)
(***************************************************************************)
Emit(result) ==
    /\ scan.step = "running"
    /\ scan' = [scan EXCEPT !.step = "emitted", !.result = result]
    /\ UNCHANGED <<place, target, plan, results, builder, update, modal, window>>

WorkerCancels == scan.cancelled /\ Emit(Cancelled)
WorkerFails == Emit(Failed)
WorkerAnswers ==
    \E a \in Answers : Emit([target |-> scan.target, ranking |-> a, plan |-> scan.plan])

Handled == scan' = [scan EXCEPT !.step = "handled", !.result = None]

ScanComplete ==
    /\ scan.step = "emitted" /\ scan.result \notin {Cancelled, Failed}
    /\ bundle' = scan.result
    /\ selected' = Lead(scan.result.ranking, None)
    /\ picked' = FALSE
    /\ Transition("answer_ready")
    /\ Handled
    /\ UNCHANGED <<target, plan, pack, builder, update, modal, window>>

\* Mutant: a cancelled scan is not taken for an ended one.
ScanFailedAloud ==
    /\ scan.step = "emitted" /\ scan.result = Failed
    /\ Transition("target_selected") /\ Box /\ Handled
    /\ UNCHANGED <<target, plan, results, builder, update, window>>

ScanFailed ==
    /\ scan.step = "emitted" /\ scan.result \in {Cancelled, Failed}
    /\ Transition("target_selected")
    /\ \/ scan.result = Cancelled /\ UNCHANGED modal
       \/ scan.result = Failed /\ Box
    /\ Handled
    /\ UNCHANGED <<target, plan, results, builder, update, window>>

(***************************************************************************)
(* closeEvent: refused while an update thread lives; while a scan runs the *)
(* user is asked, and may have the window hidden and closed by             *)
(* _thread_finished, which sends the same event again.  The scan may end   *)
(* before the answer, and then nothing closes the hidden window.           *)
(***************************************************************************)
UpdateThread == update.check # "none" \/ update.download # "none"

ThreadFinished ==
    /\ scan.step = "handled"
    /\ scan' = NoScan
    /\ IF window # "hidden" THEN UNCHANGED <<window, modal>>
       ELSE IF UpdateThread THEN Box /\ UNCHANGED window
       ELSE window' = "closed" /\ UNCHANGED modal
    /\ UNCHANGED <<place, target, plan, results, builder, update>>

CloseWindow ==
    /\ Free
    /\ \/ UpdateThread /\ Box /\ UNCHANGED window
       \/ ~ UpdateThread /\ scan.step = "none" /\ window' = "closed" /\ UNCHANGED modal
       \/ ~ UpdateThread /\ scan.step # "none" /\ Open("question") /\ UNCHANGED window
    /\ UNCHANGED <<place, target, plan, results, scan, builder, update>>

AnswerClose ==
    /\ OnTop("question") /\ Close
    /\ window' = "hidden" \/ UNCHANGED window
    /\ UNCHANGED <<place, target, plan, results, scan, builder, update>>

DismissBox ==
    /\ OnTop("box") /\ Close
    /\ UNCHANGED <<place, target, plan, results, scan, builder, update, window>>

-----------------------------------------------------------------------------
\* The journey from the answer to a Build Pack.
OpenChooser ==
    /\ \/ OnPage(AnswerPage) /\ Len(Ranking) > 1
       \/ OnPage({"prepare_product"}) /\ Ranking # <<>>
    /\ Transition("opportunity_chooser")
    /\ UNCHANGED <<target, plan, results, scan, builder, update, modal, window>>

SelectOpportunity(o) ==
    /\ OnPage({"opportunity_chooser"}) /\ o \in Range(Ranking)
    /\ selected' = o /\ picked' = TRUE
    /\ Transition("opportunity_selected")
    /\ UNCHANGED <<target, plan, bundle, pack, scan, builder, update, modal, window>>

ReturnToAnswer ==
    /\ OnPage({"opportunity_chooser", "prepare_product"}) /\ bundle # None
    /\ Transition(IF picked THEN "opportunity_selected" ELSE "answer_ready")
    /\ UNCHANGED <<target, plan, results, scan, builder, update, modal, window>>

PrepareLeadingProduct ==
    /\ OnPage(AnswerPage) /\ Ranking # <<>>
    /\ Transition("prepare_product")
    /\ UNCHANGED <<target, plan, results, scan, builder, update, modal, window>>

ReturnToPrepare ==
    /\ OnPage({"build_pack_gate"}) /\ bundle # None
    /\ Transition("prepare_product")
    /\ UNCHANGED <<target, plan, results, scan, builder, update, modal, window>>

\* CREATE BUILD PACK on the prepare page, Export on the Build Pack page
CreateBuildPack ==
    /\ OnPage({"prepare_product", "build_pack_ready"}) /\ Ranking # <<>>
    /\ \/ /\ plan # "premium"
          /\ Transition("build_pack_gate")
          /\ UNCHANGED modal
       \/ /\ plan = "premium" /\ selected \in Range(Ranking)
          /\ Open("pack") \/ Box      \* prepared, or not ready
          /\ UNCHANGED place
    /\ UNCHANGED <<target, plan, results, scan, builder, update, window>>

RejectPack ==
    /\ OnTop("pack") /\ Close
    /\ UNCHANGED <<place, target, plan, results, scan, builder, update, window>>

FinishPack ==
    /\ OnTop("pack")
    /\ \/ /\ pack' = [target |-> bundle.target, opportunity |-> selected]
          /\ Transition("build_pack_ready")
          /\ Close
       \/ \* the export raises
          /\ modal' = Append(Front(modal), "box")
          /\ UNCHANGED <<place, pack>>
    /\ UNCHANGED <<target, plan, bundle, selected, picked, scan, builder, update, window>>

\* start_assisted_build and the dialog it runs: it asks the plan of the bundle
StartAssistedBuild ==
    /\ OnPage({"build_pack_ready"}) /\ bundle # None /\ pack # None
    /\ Transition("build_session_active")
    /\ Open("build")
    /\ UNCHANGED <<target, plan, results, scan, builder, update, window>>

RunBuilder ==
    /\ OnTop("build") /\ ~ builder /\ bundle.plan = "premium"
    /\ builder' = TRUE
    /\ UNCHANGED <<place, target, plan, results, scan, update, modal, window>>

BuilderEnds ==
    /\ Running /\ builder /\ builder' = FALSE
    /\ UNCHANGED <<place, target, plan, results, scan, update, modal, window>>

CloseBuild ==
    /\ OnTop("build") /\ ~ builder
    /\ Close
    /\ Transition("build_pack_ready")
    /\ UNCHANGED <<target, plan, results, scan, builder, update, window>>

-----------------------------------------------------------------------------
\* The plan dialog, from Settings or the gate, and _entitlement_changed.
ManagePlan ==
    /\ OnSurface \/ OnPage({"build_pack_gate"})
    /\ Open("plan")
    /\ UNCHANGED <<place, target, plan, results, scan, builder, update, window>>

\* Mutant: the scan keeps the plan it was started under.
EntitlementKeptByScan(p) ==
    /\ OnTop("plan") /\ plan' = p
    /\ UNCHANGED <<place, target, results, scan, builder, update, modal, window>>

EntitlementChanged(p) ==
    /\ OnTop("plan")
    /\ plan' = p
    /\ IF bundle = None THEN UNCHANGED <<bundle, selected>>
       ELSE /\ bundle' = [bundle EXCEPT !.plan = p]
            /\ selected' = Lead(Ranking, selected)
    /\ UNCHANGED <<place, target, picked, pack, scan, builder, update, modal, window>>

ClosePlan ==
    /\ OnTop("plan") /\ Close
    /\ UNCHANGED <<place, target, plan, results, scan, builder, update, window>>

-----------------------------------------------------------------------------
\* Updates: the check at launch or by hand, the dialog, the download, the installer.
Checking(manual) == [update EXCEPT !.check = "running", !.manual = manual, !.auto = FALSE]

\* the timer of the launch, once; it does nothing while a check runs
AutoUpdateCheck ==
    /\ Running /\ update.auto
    /\ update' = IF update.check = "none" THEN Checking(FALSE)
                 ELSE [update EXCEPT !.auto = FALSE]
    /\ UNCHANGED <<place, target, plan, results, scan, builder, modal, window>>

CheckForUpdates ==
    /\ OnSurface /\ ~ update.offered /\ update.check = "none"
    /\ update' = [Checking(TRUE) EXCEPT !.auto = update.auto]
    /\ UNCHANGED <<place, target, plan, results, scan, builder, modal, window>>

\* the mode a fresh dialog opens in
ShowUpdateDialog(u) ==
    IF "update" \in Range(modal) THEN update' = u /\ UNCHANGED modal
    ELSE /\ update' = [u EXCEPT !.mode = IF u.prepared THEN "install" ELSE "download"]
         /\ Open("update")

UpdateCheckEnds ==
    /\ Running /\ update.check = "running"
    /\ LET u == [update EXCEPT !.check = "none", !.manual = FALSE]
       IN  \/ \* a newer version
              IF update.manual THEN ShowUpdateDialog([u EXCEPT !.offered = TRUE])
              ELSE update' = [u EXCEPT !.offered = TRUE] /\ UNCHANGED modal
           \/ \* up to date, or the check failed
              /\ update' = u \/ update' = [u EXCEPT !.offered = FALSE]
              /\ IF update.manual THEN Box ELSE UNCHANGED modal
    /\ UNCHANGED <<place, target, plan, results, scan, builder, window>>

ShowOffered ==
    /\ OnSurface /\ update.offered
    /\ ShowUpdateDialog(update)
    /\ UNCHANGED <<place, target, plan, results, scan, builder, window>>

DownloadUpdate ==
    /\ OnTop("update") /\ update.mode = "download"
    /\ update.offered /\ update.download = "none"
    /\ update' = [update EXCEPT !.download = "running", !.mode = "busy"]
    /\ UNCHANGED <<place, target, plan, results, scan, builder, modal, window>>

DownloadEnds ==
    /\ Running /\ update.download = "running"
    /\ \E verified \in BOOLEAN :
          update' = [update EXCEPT !.download = "none", !.prepared = verified,
                     !.mode = IF "update" \notin Range(modal) THEN update.mode
                              ELSE IF verified THEN "install" ELSE "download"]
    /\ UNCHANGED <<place, target, plan, results, scan, builder, modal, window>>

UpdateLater ==
    /\ OnTop("update") /\ update.mode # "busy" /\ Close
    /\ update' = [update EXCEPT !.mode = "download"]
    /\ UNCHANGED <<place, target, plan, results, scan, builder, window>>

\* _install_prepared_update: never under a running scan; the program quits
InstallUpdate ==
    /\ OnTop("update") /\ update.mode = "install" /\ update.prepared
    /\ IF scan.step # "none" THEN Box /\ UNCHANGED <<update, window>>
       ELSE \/ window' = "quit" /\ modal' = <<>> /\ UNCHANGED update
            \/ /\ Box
               /\ update' = [update EXCEPT !.mode = "download"]
               /\ UNCHANGED window
    /\ UNCHANGED <<place, target, plan, results, scan, builder>>

-----------------------------------------------------------------------------
ScanEvents == WorkerCancels \/ WorkerFails \/ WorkerAnswers \/ ScanComplete \/ ScanFailed
              \/ ThreadFinished
UpdateEvents == AutoUpdateCheck \/ UpdateCheckEnds \/ DownloadEnds

User ==
    \/ OpenSurface \/ CloseSurface \/ StartScan \/ CancelScan \/ CloseWindow \/ AnswerClose
    \/ DismissBox \/ \E t \in Targets \cup {None} : TargetChanged(t)
    \/ OpenChooser \/ ReturnToAnswer \/ PrepareLeadingProduct \/ ReturnToPrepare
    \/ \E o \in Opportunities : SelectOpportunity(o)
    \/ CreateBuildPack \/ RejectPack \/ FinishPack
    \/ StartAssistedBuild \/ RunBuilder \/ CloseBuild
    \/ ManagePlan \/ ClosePlan
    \/ \E p \in Plans : EntitlementChanged(p)
    \/ CheckForUpdates \/ ShowOffered \/ DownloadUpdate \/ UpdateLater \/ InstallUpdate

Next == User \/ ScanEvents \/ BuilderEnds \/ UpdateEvents

(***************************************************************************)
(* A scan is bounded by its ScanLimits and its thread is scheduled; the    *)
(* user-interface thread delivers the signals that are queued.  Nothing    *)
(* obliges the user to click.                                              *)
(***************************************************************************)
Fairness == WF_vars(ScanEvents)

Spec == Init /\ [][Next]_vars /\ Fairness

-----------------------------------------------------------------------------
ScanType == [step : {"none", "running", "emitted", "handled"},
             target : Targets \cup {None}, plan : Plans, cancelled : BOOLEAN,
             result : {None, Cancelled, Failed} \cup BundleType]
UpdateType == [check : {"none", "running"}, manual : BOOLEAN, auto : BOOLEAN,
               offered : BOOLEAN, download : {"none", "running"}, prepared : BOOLEAN,
               mode : {"download", "busy", "install"}]

TypeOK ==
    /\ flow \in FlowState
    /\ shell \in {"product", "secondary"}
    /\ target \in Targets \cup {None}
    /\ plan \in Plans
    /\ bundle = None \/ bundle \in BundleType
    /\ selected \in Opportunities \cup {None}
    /\ picked \in BOOLEAN
    /\ pack = None \/ pack \in [target : Targets, opportunity : Opportunities]
    /\ scan \in ScanType
    /\ builder \in BOOLEAN
    /\ update \in UpdateType
    /\ modal \in Seq(Dialogs)
    /\ window \in {"open", "hidden", "closed", "quit"}
    /\ refused \in BOOLEAN

Answered == FlowState \ {"no_target", "target_selected", "scanning"}
Chosen == Answered \ {"answer_ready"}

\* The page shown never outlives what it shows: an answer page has the completed scan
\* of the folder that is selected, a product page an opportunity that scan found, a
\* Build Pack page the pack exported for exactly that opportunity of that folder,
\* through new targets, plan changes and late worker signals.
PageHasItsResults ==
    /\ flow \in Answered => bundle # None /\ bundle.target = target
    /\ flow \in Chosen => selected \in Range(bundle.ranking)
    /\ flow \in {"build_pack_ready", "build_session_active"} =>
          pack = [target |-> target, opportunity |-> selected]

\* No supervised run proceeds under a plan the window no longer holds, though the
\* build dialog asks the scan's copy of the plan and not the window's.
BuildsOnlyUnderPlan == builder => plan = "premium"

\* Every scan comes to its end on the page, whatever dialogs the user leaves open.
ScanEnds == flow = "scanning" ~> flow # "scanning"

\* qt_app.py:2588-2591 asks "The read-only audit is still running. Close automatically
\* when it finishes?": a window that was hidden on a Yes is closed when the scan has ended. Violated:
\* MCDesktopHidden.cfg.
HiddenWindowCloses == window = "hidden" ~> window # "hidden"
=============================================================================
