---------------------------- MODULE DesktopProofs ----------------------------
(* What holds of Desktop for every set of folders and of rankings a scan  *)
(* may find, and for every choice of pages with a folder selector.        *)
EXTENDS Desktop, TLAPS

OverPages == {"update", "box"}

\* the dialog that opened first
Bottom(s) == IF s = <<>> THEN "none" ELSE s[1]

(* Only the update dialog and message boxes open over another dialog.     *)
Stacked(s) == \A i \in 1..Len(s) : i > 1 => s[i] \in OverPages

(* The scan and the page: a scan that still owes its answer is the one the *)
(* scanning page shows, of the folder in the selector.                    *)
ScanPhase ==
    /\ scan.step \in {"running", "emitted"} <=> flow = "scanning"
    /\ flow = "scanning" => scan.target = target /\ target \in Targets
    /\ scan.step = "emitted" =>
          \/ scan.result \in {Cancelled, Failed}
          \/ scan.result \in BundleType /\ scan.result.target = scan.target

(* Where there is something to choose from, something is chosen.          *)
LeadIsThere == flow \in Answered /\ Ranking # <<>> => selected \in Range(Ranking)

(* From the Build Pack page on, the scan's copy of the plan grants no more *)
(* than the window's.                                                     *)
PlanFollows ==
    flow \in {"build_pack_ready", "build_session_active"} /\ bundle.plan = "premium"
        => plan = "premium"

Pages == ScanPhase /\ LeadIsThere /\ PlanFollows /\ PageHasItsResults

(* A dialog keeps the page it opened over, and a supervised run its dialog. *)
Under ==
    /\ Stacked(modal)
    /\ Bottom(modal) = "pack" => flow \in {"prepare_product", "build_pack_ready"}
                                 /\ plan = "premium"
    /\ Bottom(modal) = "build" => flow = "build_session_active"
    /\ builder /\ Running => Bottom(modal) = "build"

IInv == TypeOK /\ Pages /\ Under /\ BuildsOnlyUnderPlan

-----------------------------------------------------------------------------
LEMMA OpenStack ==
    ASSUME NEW s \in Seq(Dialogs), Stacked(s), NEW d \in Dialogs,
           s = <<>> \/ d \in OverPages
    PROVE  /\ Append(s, d) \in Seq(Dialogs) /\ Stacked(Append(s, d))
           /\ Bottom(Append(s, d)) = IF s = <<>> THEN d ELSE Bottom(s)
<1>1. /\ Append(s, d) \in Seq(Dialogs) /\ Len(Append(s, d)) = Len(s) + 1
      /\ \A i \in 1..Len(s) : Append(s, d)[i] = s[i]
      /\ Append(s, d)[Len(s) + 1] = d
    OBVIOUS
<1>2. Len(s) \in Nat /\ (s # <<>> => Len(s) > 0) /\ (s = <<>> => Len(s) = 0)
    OBVIOUS
<1>3. Append(s, d) # <<>>
    BY <1>1, <1>2
<1>. QED
    BY <1>1, <1>2, <1>3 DEF Stacked, Bottom

LEMMA CloseStack ==
    ASSUME NEW s \in Seq(Dialogs), Stacked(s), s # <<>>
    PROVE  /\ Front(s) \in Seq(Dialogs) /\ Stacked(Front(s))
           /\ Front(s) # <<>> => Bottom(Front(s)) = Bottom(s) /\ Last(s) \in OverPages
           /\ Front(s) = <<>> => Bottom(s) = Last(s)
           /\ Last(s) \notin OverPages => Front(s) = <<>>
<1>1. Len(s) \in Nat \ {0} /\ s \in [1..Len(s) -> Dialogs]
    OBVIOUS
<1>2. /\ Front(s) \in Seq(Dialogs) /\ Len(Front(s)) = Len(s) - 1
      /\ \A i \in 1..Len(s) - 1 : Front(s)[i] = s[i]
    BY <1>1 DEF Front
<1>3. Last(s) = s[Len(s)]
    BY DEF Last
<1>4. Front(s) = <<>> <=> Len(s) = 1
    BY <1>1, <1>2
<1>. QED
    BY <1>1, <1>2, <1>3, <1>4 DEF Stacked, Bottom

(* A refused transition leaves the page; these four are never refused.    *)
LEMMA FlowMoves ==
    ASSUME TypeOK, NEW d \in FlowState, Transition(d)
    PROVE  /\ flow' \in {flow, d} /\ flow' \in FlowState
           /\ shell' \in {"product", "secondary"} /\ refused' \in BOOLEAN
           /\ <<flow, d>> \in {<<"target_selected", "scanning">>,
                               <<"scanning", "answer_ready">>,
                               <<"scanning", "target_selected">>,
                               <<"build_pack_ready", "build_session_active">>} => flow' = d
<1>1. /\ flow' \in {flow, d} /\ flow' \in FlowState
      /\ shell' \in {"product", "secondary"} /\ refused' \in BOOLEAN
    BY DEF TypeOK, Transition
<1>2. /\ Allowed["target_selected"] = {"no_target", "scanning"}
      /\ Allowed["scanning"] = {"target_selected", "answer_ready"}
      /\ "build_session_active" \in Allowed["build_pack_ready"]
    BY DEF Allowed
<1>. QED
    BY <1>1, <1>2 DEF Transition

LEMMA ModalMoves ==
    ASSUME TypeOK
    PROVE  /\ modal \in Seq(Dialogs)
           /\ \A d \in Dialogs : Open(d) => modal' \in Seq(Dialogs)
           /\ modal # <<>> => Front(modal) \in Seq(Dialogs)
           /\ <<>> \in Seq(Dialogs) /\ <<"box">> \in Seq(Dialogs)
<1>1. modal \in Seq(Dialogs)
    BY DEF TypeOK
<1>2. ASSUME modal # <<>> PROVE Front(modal) \in Seq(Dialogs)
    BY <1>1, <1>2 DEF Front
<1>3. \A d \in Dialogs : <<>> \in Seq(Dialogs) /\ <<d>> \in Seq(Dialogs)
    OBVIOUS
<1>4. "box" \in Dialogs
    BY DEF Dialogs
<1>. QED
    BY <1>1, <1>2, <1>3, <1>4 DEF Open

(* A new plan for the scan's results.                                     *)
LEMMA BundleMoves ==
    ASSUME NEW b \in BundleType, NEW p \in Plans
    PROVE  /\ b # None
           /\ [b EXCEPT !.plan = p] \in BundleType
           /\ [b EXCEPT !.plan = p].target = b.target
           /\ [b EXCEPT !.plan = p].ranking = b.ranking
           /\ [b EXCEPT !.plan = p].plan = p
BY DesktopConstants DEF BundleType

(* The leading opportunity is one the scan found, if it found any.        *)
LEMMA LeadFound ==
    ASSUME NEW r \in Answers, NEW c
    PROVE  /\ r # <<>> => Lead(r, c) \in Range(r)
           /\ c \in Range(r) => Lead(r, c) = c
           /\ Lead(r, c) \in Opportunities \cup {None}
<1>1. r \in Seq(Opportunities) /\ Range(r) \subseteq Opportunities
    BY DesktopConstants DEF Opportunities
<1>2. r # <<>> => Head(r) \in Range(r)
    BY <1>1 DEF Range
<1>. QED
    BY <1>1, <1>2 DEF Lead

-----------------------------------------------------------------------------
(* A step of the scan thread leaves the folder and the plan of the scan.  *)
LEMMA ScanMoves ==
    ASSUME TypeOK, NEW st \in {"none", "running", "emitted", "handled"},
           NEW r \in {None, Cancelled, Failed} \cup BundleType,
           scan' = [scan EXCEPT !.step = st, !.result = r]
    PROVE  /\ scan' \in ScanType
           /\ scan'.step = st /\ scan'.result = r /\ scan'.target = scan.target
<1>1. scan \in ScanType
    BY DEF TypeOK
<1>. QED
    BY <1>1 DEF ScanType

(* Well-typedness, by groups of actions.                                  *)
(* While the pack dialog is open, the page under it has its opportunity.  *)
LEMMA PackShown ==
    ASSUME IInv, OnTop("pack")
    PROVE  /\ flow \in {"prepare_product", "build_pack_ready"} /\ plan = "premium"
           /\ bundle \in BundleType /\ bundle.target = target
           /\ selected \in Range(bundle.ranking) /\ selected \in Opportunities
           /\ Front(modal) = <<>>
<1>1. /\ modal \in Seq(Dialogs) /\ Stacked(modal) /\ modal # <<>>
      /\ Last(modal) = "pack" /\ "pack" \notin OverPages
    BY DEF IInv, Under, TypeOK, OnTop, OverPages
<1>2. Front(modal) = <<>> /\ Bottom(modal) = "pack"
    BY <1>1, CloseStack
<1>3. flow \in {"prepare_product", "build_pack_ready"} /\ plan = "premium"
    BY <1>2 DEF IInv, Under
<1>4. /\ bundle \in BundleType /\ bundle.target = target
      /\ selected \in Range(bundle.ranking)
    BY <1>3 DEF IInv, Pages, PageHasItsResults, Answered, Chosen, FlowState, TypeOK
<1>5. selected \in Opportunities
    BY <1>4 DEF Opportunities, BundleType
<1>. QED
    BY <1>2, <1>3, <1>4, <1>5

LEMMA ScanTyped ==
    ASSUME TypeOK, ScanPhase, ScanEvents
    PROVE  TypeOK'
<1>1. ASSUME NEW r \in {Cancelled, Failed} \cup BundleType, Emit(r) PROVE TypeOK'
  <2>1. scan' \in ScanType
      BY <1>1, ScanMoves DEF Emit
  <2>. QED
      BY <1>1, <2>1 DEF Emit, place, results, TypeOK
<1>2. ASSUME ScanComplete PROVE TypeOK'
  <2>1. scan.result \in BundleType
      BY <1>2 DEF ScanComplete, ScanPhase
  <2>2. selected' \in Opportunities \cup {None}
      BY <1>2, <2>1, LeadFound DEF ScanComplete, BundleType
  <2>3. "answer_ready" \in FlowState
      BY DEF FlowState
  <2>4. flow' \in FlowState /\ shell' \in {"product", "secondary"} /\ refused' \in BOOLEAN
      BY <1>2, <2>3, FlowMoves DEF ScanComplete
  <2>5. scan' \in ScanType
      BY <1>2, ScanMoves DEF ScanComplete, Handled
  <2>. QED
      BY <1>2, <2>1, <2>2, <2>4, <2>5 DEF ScanComplete, TypeOK
<1>3. ASSUME ScanFailed PROVE TypeOK'
  <2>1. "target_selected" \in FlowState /\ "box" \in Dialogs
      BY DEF FlowState, Dialogs
  <2>2. flow' \in FlowState /\ shell' \in {"product", "secondary"} /\ refused' \in BOOLEAN
      BY <1>3, <2>1, FlowMoves DEF ScanFailed
  <2>3. modal' \in Seq(Dialogs)
      BY <1>3, <2>1, ModalMoves DEF ScanFailed, Box
  <2>4. scan' \in ScanType
      BY <1>3, ScanMoves DEF ScanFailed, Handled
  <2>. QED
      BY <1>3, <2>2, <2>3, <2>4 DEF ScanFailed, results, TypeOK
<1>4. ASSUME ThreadFinished PROVE TypeOK'
  <2>1. modal' \in Seq(Dialogs)
      BY <1>4, ModalMoves DEF ThreadFinished, Box, Dialogs
  <2>2. scan' \in ScanType
      BY <1>4 DEF ThreadFinished, NoScan, ScanType, Plans, TypeOK
  <2>. QED
      BY <1>4, <2>1, <2>2 DEF ThreadFinished, place, results, TypeOK
<1>5. ASSUME WorkerAnswers PROVE TypeOK'
  <2>1. ASSUME scan.target \notin Targets PROVE scan.step # "running"
      BY <2>1 DEF ScanPhase
  <2>2. scan.target \in Targets
      BY <1>5, <2>1 DEF WorkerAnswers, Emit
  <2>3. PICK a \in Answers : Emit([target |-> scan.target, ranking |-> a, plan |-> scan.plan])
      BY <1>5 DEF WorkerAnswers
  <2>4. [target |-> scan.target, ranking |-> a, plan |-> scan.plan] \in BundleType
      BY <2>2 DEF BundleType, ScanType, TypeOK
  <2>. QED
      BY <1>1, <2>3, <2>4
<1>. QED
    BY <1>1, <1>2, <1>3, <1>4, <1>5 DEF ScanEvents, WorkerCancels, WorkerFails

LEMMA PageTyped ==
    ASSUME TypeOK,
           \/ OpenSurface \/ CloseSurface \/ StartScan \/ CancelScan \/ OpenChooser
           \/ ReturnToAnswer \/ PrepareLeadingProduct \/ ReturnToPrepare
           \/ \E t \in Targets \cup {None} : TargetChanged(t)
           \/ \E o \in Opportunities : SelectOpportunity(o)
    PROVE  TypeOK'
<1>1. CASE OpenSurface \/ CloseSurface
    BY <1>1 DEF OpenSurface, CloseSurface, TypeOK, results
<1>2. CASE \E t \in Targets \cup {None} : TargetChanged(t)
    BY <1>2 DEF TargetChanged, NewWorkflow, FlowState, TypeOK, results
<1>3. CASE StartScan
  <2>1. scan' \in ScanType
      BY <1>3 DEF StartScan, NoScan, ScanType, TypeOK
  <2>2. flow' \in FlowState /\ shell' \in {"product", "secondary"} /\ refused' \in BOOLEAN
      BY <1>3, FlowMoves DEF StartScan, FlowState
  <2>. QED
      BY <1>3, <2>1, <2>2 DEF StartScan, TypeOK
<1>4. CASE CancelScan
  <2>1. scan' \in ScanType
      BY <1>4 DEF CancelScan, ScanType, TypeOK
  <2>. QED
      BY <1>4, <2>1 DEF CancelScan, TypeOK, place, results
<1>5. CASE \/ OpenChooser \/ ReturnToAnswer \/ PrepareLeadingProduct \/ ReturnToPrepare
  <2>1. PICK d \in FlowState : Transition(d)
      BY <1>5 DEF OpenChooser, ReturnToAnswer, PrepareLeadingProduct, ReturnToPrepare, FlowState
  <2>2. flow' \in FlowState /\ shell' \in {"product", "secondary"} /\ refused' \in BOOLEAN
      BY <2>1, FlowMoves
  <2>. QED
      BY <1>5, <2>2 DEF OpenChooser, ReturnToAnswer, PrepareLeadingProduct, ReturnToPrepare,
                        TypeOK, results
<1>6. CASE \E o \in Opportunities : SelectOpportunity(o)
  <2>1. flow' \in FlowState /\ shell' \in {"product", "secondary"} /\ refused' \in BOOLEAN
      BY <1>6, FlowMoves DEF SelectOpportunity, FlowState
  <2>. QED
      BY <1>6, <2>1 DEF SelectOpportunity, TypeOK
<1>. QED
    BY <1>1, <1>2, <1>3, <1>4, <1>5, <1>6

LEMMA PackTyped ==
    ASSUME IInv,
           CreateBuildPack \/ RejectPack \/ FinishPack \/ StartAssistedBuild
           \/ RunBuilder \/ BuilderEnds \/ CloseBuild
    PROVE  TypeOK'
<1>0. TypeOK
    BY DEF IInv
<1>1. CASE CreateBuildPack
  <2>1. flow' \in FlowState /\ shell' \in {"product", "secondary"} /\ refused' \in BOOLEAN
      BY <1>0, <1>1, FlowMoves DEF CreateBuildPack, FlowState, place, TypeOK
  <2>2. modal' \in Seq(Dialogs)
      BY <1>0, <1>1, ModalMoves DEF CreateBuildPack, Box, Dialogs
  <2>. QED
      BY <1>0, <1>1, <2>1, <2>2 DEF CreateBuildPack, TypeOK, results
<1>2. CASE RejectPack
  <2>1. modal' \in Seq(Dialogs)
      BY <1>0, <1>2, ModalMoves DEF RejectPack, OnTop, Close
  <2>. QED
      BY <1>0, <1>2, <2>1 DEF RejectPack, TypeOK, place, results
<1>3. CASE FinishPack
  <2>1. flow' \in FlowState /\ shell' \in {"product", "secondary"} /\ refused' \in BOOLEAN
      BY <1>0, <1>3, FlowMoves DEF FinishPack, FlowState, place, TypeOK
  <2>2. pack' = None \/ pack' \in [target : Targets, opportunity : Opportunities]
      BY <1>0, <1>3, PackShown DEF FinishPack, BundleType, TypeOK
  <2>3. modal' \in {<<>>, <<"box">>}
      BY <1>3, PackShown DEF FinishPack, Close
  <2>4. modal' \in Seq(Dialogs)
      BY <1>0, <2>3, ModalMoves
  <2>. QED
      BY <1>0, <1>3, <2>1, <2>2, <2>4 DEF FinishPack, TypeOK
<1>4. CASE StartAssistedBuild
  <2>1. flow' \in FlowState /\ shell' \in {"product", "secondary"} /\ refused' \in BOOLEAN
      BY <1>0, <1>4, FlowMoves DEF StartAssistedBuild, FlowState
  <2>2. modal' \in Seq(Dialogs)
      BY <1>0, <1>4, ModalMoves DEF StartAssistedBuild, Dialogs
  <2>. QED
      BY <1>0, <1>4, <2>1, <2>2 DEF StartAssistedBuild, TypeOK, results
<1>5. CASE RunBuilder \/ BuilderEnds
    BY <1>0, <1>5 DEF RunBuilder, BuilderEnds, TypeOK, place, results
<1>6. CASE CloseBuild
  <2>1. flow' \in FlowState /\ shell' \in {"product", "secondary"} /\ refused' \in BOOLEAN
      BY <1>0, <1>6, FlowMoves DEF CloseBuild, FlowState
  <2>2. modal' \in Seq(Dialogs)
      BY <1>0, <1>6, ModalMoves DEF CloseBuild, OnTop, Close
  <2>. QED
      BY <1>0, <1>6, <2>1, <2>2 DEF CloseBuild, TypeOK, results
<1>. QED
    BY <1>1, <1>2, <1>3, <1>4, <1>5, <1>6

LEMMA PlanTyped ==
    ASSUME TypeOK,
           \/ ManagePlan \/ ClosePlan \/ DismissBox \/ CloseWindow \/ AnswerClose
           \/ \E p \in Plans : EntitlementChanged(p)
    PROVE  TypeOK'
<1>1. CASE \E p \in Plans : EntitlementChanged(p)
  <2>1. PICK p \in Plans : EntitlementChanged(p)
      BY <1>1
  <2>2. CASE bundle = None
      BY <2>1, <2>2 DEF EntitlementChanged, TypeOK, place
  <2>3. CASE bundle # None
    <3>1. bundle \in BundleType /\ bundle.ranking \in Answers
        BY <2>3 DEF TypeOK, BundleType
    <3>2. bundle' \in BundleType /\ selected' \in Opportunities \cup {None}
        BY <2>1, <2>3, <3>1, BundleMoves, LeadFound DEF EntitlementChanged, Ranking
    <3>. QED
        BY <2>1, <3>2 DEF EntitlementChanged, TypeOK, place
  <2>. QED
      BY <2>2, <2>3
<1>2. CASE ManagePlan \/ ClosePlan \/ DismissBox \/ CloseWindow \/ AnswerClose
  <2>1. modal' \in Seq(Dialogs)
      BY <1>2, ModalMoves DEF ManagePlan, ClosePlan, DismissBox, CloseWindow, AnswerClose,
                              Box, OnTop, Close, Dialogs
  <2>2. window' \in {"open", "hidden", "closed", "quit"}
      BY <1>2 DEF ManagePlan, ClosePlan, DismissBox, CloseWindow, AnswerClose, TypeOK
  <2>. QED
      BY <1>2, <2>1, <2>2 DEF ManagePlan, ClosePlan, DismissBox, CloseWindow, AnswerClose,
                              TypeOK, place, results
<1>. QED
    BY <1>1, <1>2

LEMMA UpdateTyped ==
    ASSUME TypeOK,
           \/ UpdateEvents \/ CheckForUpdates \/ ShowOffered \/ DownloadUpdate
           \/ UpdateLater \/ InstallUpdate
    PROVE  TypeOK'
<1>0. update \in UpdateType
    BY DEF TypeOK
<1>1. ASSUME NEW u \in UpdateType, ShowUpdateDialog(u)
      PROVE  update' \in UpdateType /\ modal' \in Seq(Dialogs)
  <2>1. [u EXCEPT !.mode = IF u.prepared THEN "install" ELSE "download"] \in UpdateType
      BY DEF UpdateType
  <2>. QED
      BY <1>1, <2>1, ModalMoves DEF ShowUpdateDialog, Dialogs
<1>2. update' \in UpdateType /\ modal' \in Seq(Dialogs)
  <2>1. CASE AutoUpdateCheck \/ CheckForUpdates \/ DownloadUpdate \/ DownloadEnds
    <3>1. update' \in UpdateType
        BY <1>0, <2>1 DEF AutoUpdateCheck, CheckForUpdates, DownloadUpdate, DownloadEnds,
                          Checking, UpdateType
    <3>. QED
        BY <2>1, <3>1, ModalMoves DEF AutoUpdateCheck, CheckForUpdates, DownloadUpdate,
                                      DownloadEnds
  <2>2. CASE UpdateCheckEnds
    <3>. DEFINE u == [update EXCEPT !.check = "none", !.manual = FALSE]
    <3>1. u \in UpdateType /\ \A b \in BOOLEAN : [u EXCEPT !.offered = b] \in UpdateType
        BY <1>0 DEF UpdateType
    <3>. HIDE DEF u
    <3>. QED
        BY <1>1, <2>2, <3>1, ModalMoves DEF UpdateCheckEnds, u, Box, Dialogs
  <2>3. CASE ShowOffered
      BY <1>0, <1>1, <2>3 DEF ShowOffered
  <2>4. CASE UpdateLater
      BY <1>0, <2>4, ModalMoves DEF UpdateLater, OnTop, Close, UpdateType
  <2>5. CASE InstallUpdate
    <3>1. update' \in UpdateType
        BY <1>0, <2>5 DEF InstallUpdate, UpdateType
    <3>. QED
        BY <2>5, <3>1, ModalMoves DEF InstallUpdate, Box, Dialogs
  <2>. QED
      BY <2>1, <2>2, <2>3, <2>4, <2>5 DEF UpdateEvents
<1>3. /\ UNCHANGED <<place, target, plan, results, scan, builder>>
      /\ window' \in {window, "quit"}
    BY DEF UpdateEvents, AutoUpdateCheck, UpdateCheckEnds, DownloadEnds, CheckForUpdates,
           ShowOffered, DownloadUpdate, UpdateLater, InstallUpdate
<1>. QED
    BY <1>2, <1>3 DEF TypeOK, place, results

LEMMA StepTyped ==
    ASSUME IInv, [Next]_vars
    PROVE  TypeOK'
<1>1. TypeOK /\ ScanPhase
    BY DEF IInv, Pages
<1>2. CASE UNCHANGED vars
    BY <1>1, <1>2 DEF TypeOK, vars
<1>3. CASE Next
    BY <1>1, <1>3, ScanTyped, PageTyped, PackTyped, PlanTyped, UpdateTyped DEF Next, User
<1>. QED
    BY <1>2, <1>3

-----------------------------------------------------------------------------
(* Steps that leave the flow and the scan's results alone.                *)
LEMMA PagesStay ==
    ASSUME Pages, UNCHANGED <<flow, target, plan, results>>, ScanPhase'
    PROVE  Pages'
BY DEF Pages, LeadIsThere, PlanFollows, PageHasItsResults, Ranking, results

(* Steps that leave the page, the plan and the builder alone.             *)
LEMMA UnderStays ==
    ASSUME TypeOK, Under, UNCHANGED <<flow, plan>>, builder' => builder,
           window' = window \/ (Running' => Running),
           \/ UNCHANGED modal
           \/ \E d \in OverPages : Open(d)
           \/ modal # <<>> /\ Close /\ (Last(modal) = "build" => ~ builder)
    PROVE  Under'
<1>1. modal \in Seq(Dialogs) /\ Stacked(modal) /\ (Running' => Running)
    BY DEF TypeOK, Under, Running
<1>2. CASE UNCHANGED modal
    BY <1>1, <1>2 DEF Under
<1>3. CASE \E d \in OverPages : Open(d)
  <2>1. PICK d \in OverPages : Open(d)
      BY <1>3
  <2>2. d \in Dialogs /\ d \notin {"pack", "build", "none"}
      BY DEF OverPages, Dialogs
  <2>3. /\ Stacked(modal')
        /\ Bottom(modal') = IF modal = <<>> THEN d ELSE Bottom(modal)
      BY <1>1, <2>1, <2>2, OpenStack DEF Open
  <2>4. Bottom(modal) = "build" => modal # <<>>
      BY DEF Bottom
  <2>. QED
      BY <1>1, <2>2, <2>3, <2>4 DEF Under
<1>4. CASE modal # <<>> /\ Close /\ (Last(modal) = "build" => ~ builder)
  <2>1. /\ Stacked(modal')
        /\ modal' # <<>> => Bottom(modal') = Bottom(modal)
        /\ modal' = <<>> => Bottom(modal) = Last(modal)
      BY <1>1, <1>4, CloseStack DEF Close
  <2>2. modal' = <<>> => Bottom(modal') = "none"
      BY DEF Bottom
  <2>. QED
      BY <1>1, <1>4, <2>1, <2>2 DEF Under
<1>. QED
    BY <1>2, <1>3, <1>4

(* With no dialog open nothing is owed to one, and no builder runs.       *)
LEMMA FreeUnder ==
    ASSUME Under, Free
    PROVE  ~ builder
BY DEF Under, Free, Running, Bottom

(* A step on a page without a dialog, with whatever the user asks for.    *)
LEMMA FreeStep ==
    ASSUME TypeOK, Under, Free, UNCHANGED builder,
           \/ UNCHANGED modal
           \/ \E d \in {"plan", "box", "update", "question"} : Open(d)
    PROVE  Under'
<1>1. ~ builder' /\ modal = <<>>
    BY FreeUnder DEF Free
<1>2. CASE UNCHANGED modal
    BY <1>1, <1>2 DEF Under, Stacked, Bottom
<1>3. CASE \E d \in {"plan", "box", "update", "question"} : Open(d)
  <2>1. PICK d \in {"plan", "box", "update", "question"} : Open(d)
      BY <1>3
  <2>2. d \in Dialogs /\ <<>> \in Seq(Dialogs) /\ Stacked(<<>>)
      BY DEF Dialogs, Stacked
  <2>3. Stacked(modal') /\ Bottom(modal') = d
      BY <1>1, <2>1, <2>2, OpenStack DEF Open
  <2>. QED
      BY <1>1, <2>3 DEF Under
<1>. QED
    BY <1>2, <1>3

-----------------------------------------------------------------------------
(* The pages.  From one page with results to another the Build Pack page  *)
(* is entered only with its pack, the others with something chosen.       *)
LEMMA PageMove ==
    ASSUME Pages, UNCHANGED <<target, plan, results, scan>>,
           flow \in Answered, flow' \in Answered,
           flow' \in {"build_pack_ready", "build_session_active"} =>
               flow \in {"build_pack_ready", "build_session_active"},
           flow' \in Chosen => flow \in Chosen \/ Ranking # <<>>
    PROVE  Pages'
<1>1. /\ bundle # None /\ bundle.target = target
      /\ flow' \in Chosen => selected \in Range(bundle.ranking)
    BY DEF Pages, PageHasItsResults, LeadIsThere, Ranking
<1>2. flow # "scanning" /\ flow' # "scanning"
    BY DEF Answered
<1>3. ScanPhase'
    BY <1>2 DEF Pages, ScanPhase
<1>4. /\ bundle' = bundle /\ selected' = selected /\ pack' = pack
      /\ target' = target /\ plan' = plan
    BY DEF results
<1>5. LeadIsThere'
    BY <1>4 DEF Pages, LeadIsThere, Ranking
<1>6. PlanFollows'
    BY <1>4 DEF Pages, PlanFollows
<1>7. PageHasItsResults'
    BY <1>1, <1>4 DEF Pages, PageHasItsResults
<1>. QED
    BY <1>3, <1>5, <1>6, <1>7 DEF Pages

LEMMA JourneyPages ==
    ASSUME TypeOK, Pages,
           \/ OpenChooser \/ ReturnToAnswer \/ PrepareLeadingProduct \/ ReturnToPrepare
           \/ CreateBuildPack \/ StartAssistedBuild
    PROVE  Pages'
<1>1. CASE OpenChooser
  <2>1. flow' \in {flow, "opportunity_chooser"}
      BY <1>1, FlowMoves DEF OpenChooser, FlowState
  <2>2. flow \in Answered /\ Ranking # <<>>
      BY <1>1 DEF OpenChooser, OnPage, AnswerPage, Answered, FlowState
  <2>. QED
      BY <1>1, <2>1, <2>2, PageMove DEF OpenChooser, Answered, FlowState
<1>2. CASE ReturnToAnswer
  <2>1. flow' \in {flow, "opportunity_selected", "answer_ready"}
      BY <1>2, FlowMoves DEF ReturnToAnswer, FlowState
  <2>2. flow \in Answered /\ flow \in Chosen
      BY <1>2 DEF ReturnToAnswer, OnPage, Answered, Chosen, FlowState
  <2>. QED
      BY <1>2, <2>1, <2>2, PageMove DEF ReturnToAnswer, Answered, FlowState
<1>3. CASE PrepareLeadingProduct
  <2>1. flow' \in {flow, "prepare_product"}
      BY <1>3, FlowMoves DEF PrepareLeadingProduct, FlowState
  <2>2. flow \in Answered /\ Ranking # <<>>
      BY <1>3 DEF PrepareLeadingProduct, OnPage, AnswerPage, Answered, FlowState
  <2>. QED
      BY <1>3, <2>1, <2>2, PageMove DEF PrepareLeadingProduct, Answered, FlowState
<1>4. CASE ReturnToPrepare
  <2>1. flow' \in {flow, "prepare_product"}
      BY <1>4, FlowMoves DEF ReturnToPrepare, FlowState
  <2>2. flow \in Answered /\ flow \in Chosen
      BY <1>4 DEF ReturnToPrepare, OnPage, Answered, Chosen, FlowState
  <2>. QED
      BY <1>4, <2>1, <2>2, PageMove DEF ReturnToPrepare, Answered, FlowState
<1>5. CASE CreateBuildPack
  <2>1. flow' \in {flow, "build_pack_gate"}
      BY <1>5, FlowMoves DEF CreateBuildPack, FlowState, place
  <2>2. flow \in Answered /\ flow \in Chosen
      BY <1>5 DEF CreateBuildPack, OnPage, Answered, Chosen, FlowState
  <2>. QED
      BY <1>5, <2>1, <2>2, PageMove DEF CreateBuildPack, Answered, FlowState
<1>6. CASE StartAssistedBuild
  <2>1. flow' \in {flow, "build_session_active"}
      BY <1>6, FlowMoves DEF StartAssistedBuild, FlowState
  <2>2. flow = "build_pack_ready" /\ flow \in Answered /\ flow \in Chosen
      BY <1>6 DEF StartAssistedBuild, OnPage, Answered, Chosen, FlowState
  <2>. QED
      BY <1>6, <2>1, <2>2, PageMove DEF StartAssistedBuild, Answered, FlowState
<1>. QED
    BY <1>1, <1>2, <1>3, <1>4, <1>5, <1>6

LEMMA ChoicePages ==
    ASSUME TypeOK, Pages, NEW o \in Opportunities, SelectOpportunity(o)
    PROVE  Pages'
<1>1. flow' \in {"opportunity_chooser", "opportunity_selected"}
    BY FlowMoves DEF SelectOpportunity, OnPage, FlowState
<1>2. bundle # None /\ bundle.target = target
    BY DEF SelectOpportunity, OnPage, Pages, PageHasItsResults, Answered, FlowState
<1>3. selected' \in Range(bundle'.ranking) /\ Ranking' = bundle'.ranking
    BY <1>2 DEF SelectOpportunity, Ranking
<1>4. ScanPhase'
    BY <1>1 DEF SelectOpportunity, OnPage, Pages, ScanPhase
<1>5. LeadIsThere' /\ PlanFollows'
    BY <1>1, <1>3 DEF LeadIsThere, PlanFollows
<1>6. PageHasItsResults'
    BY <1>1, <1>2, <1>3 DEF SelectOpportunity, PageHasItsResults
<1>. QED
    BY <1>4, <1>5, <1>6 DEF Pages

LEMMA TargetPages ==
    ASSUME TypeOK, Pages, NEW t \in Targets \cup {None}, TargetChanged(t)
    PROVE  Pages'
<1>1. flow' \in {"no_target", "target_selected"}
    BY DEF TargetChanged, NewWorkflow
<1>2. flow' \notin Answered /\ flow' # "scanning"
    BY <1>1 DEF Answered
<1>3. ScanPhase'
    BY <1>2 DEF TargetChanged, ScanPhase
<1>4. LeadIsThere' /\ PlanFollows' /\ PageHasItsResults'
    BY <1>1, <1>2 DEF LeadIsThere, PlanFollows, PageHasItsResults, Chosen
<1>. QED
    BY <1>3, <1>4 DEF Pages

(* The scan: a late answer finds the page of the folder it was asked for. *)
LEMMA ScanPages ==
    ASSUME TypeOK, Pages, ScanEvents \/ StartScan \/ CancelScan
    PROVE  Pages'
<1>0. scan \in ScanType /\ ScanPhase
    BY DEF TypeOK, Pages
<1>1. CASE CancelScan
  <2>1. /\ scan'.step = scan.step /\ scan'.target = scan.target
        /\ scan'.result = scan.result
      BY <1>0, <1>1 DEF CancelScan, ScanType
  <2>2. ScanPhase'
      BY <1>0, <1>1, <2>1 DEF CancelScan, ScanPhase, place
  <2>. QED
      BY <1>1, <2>2, PagesStay DEF CancelScan, place
<1>2. CASE WorkerCancels \/ WorkerFails \/ WorkerAnswers
  <2>1. PICK r \in {Cancelled, Failed} \cup [target : {scan.target}, ranking : Answers,
                                             plan : Plans] : Emit(r)
      BY <1>0, <1>2 DEF WorkerCancels, WorkerFails, WorkerAnswers, ScanType
  <2>2. flow = "scanning" /\ scan.target \in Targets
      BY <1>0, <2>1 DEF Emit, ScanPhase
  <2>3. \/ r \in {Cancelled, Failed}
        \/ r \in BundleType /\ r.target = scan.target
      BY <2>1, <2>2 DEF BundleType
  <2>4. scan'.step = "emitted" /\ scan'.result = r /\ scan'.target = scan.target
      BY <2>1, <2>3, ScanMoves DEF Emit
  <2>5. flow' = flow /\ target' = target
      BY <2>1 DEF Emit, place
  <2>6. ScanPhase'
      BY <1>0, <2>2, <2>3, <2>4, <2>5 DEF ScanPhase
  <2>. QED
      BY <2>1, <2>6, PagesStay DEF Emit, place
<1>3. CASE ThreadFinished
  <2>1. scan'.step = "none" /\ flow' = flow /\ target' = target
      BY <1>3 DEF ThreadFinished, NoScan, place
  <2>2. ScanPhase'
      BY <1>0, <1>3, <2>1 DEF ThreadFinished, ScanPhase
  <2>. QED
      BY <1>3, <2>2, PagesStay DEF ThreadFinished, place
<1>4. CASE StartScan
  <2>1. flow' = "scanning"
      BY <1>4, FlowMoves DEF StartScan, OnPage, FlowState
  <2>2. scan'.step = "running" /\ scan'.target = target
      BY <1>4 DEF StartScan, NoScan
  <2>3. ScanPhase'
      BY <1>4, <2>1, <2>2 DEF StartScan, ScanPhase, TypeOK
  <2>4. LeadIsThere' /\ PlanFollows' /\ PageHasItsResults'
      BY <2>1 DEF LeadIsThere, PlanFollows, PageHasItsResults, Answered, Chosen
  <2>. QED
      BY <2>3, <2>4 DEF Pages
<1>5. CASE ScanFailed
  <2>1. flow = "scanning"
      BY <1>0, <1>5 DEF ScanFailed, ScanPhase
  <2>2. flow' = "target_selected"
      BY <1>5, <2>1, FlowMoves DEF ScanFailed, FlowState
  <2>3. scan'.step = "handled"
      BY <1>5, ScanMoves DEF ScanFailed, Handled
  <2>4. ScanPhase' /\ LeadIsThere' /\ PlanFollows' /\ PageHasItsResults'
      BY <2>2, <2>3 DEF ScanPhase, LeadIsThere, PlanFollows, PageHasItsResults, Answered,
                        Chosen
  <2>. QED
      BY <2>4 DEF Pages
<1>6. CASE ScanComplete
  <2>1. flow = "scanning" /\ scan.target = target
        /\ scan.result \in BundleType /\ scan.result.target = scan.target
      BY <1>0, <1>6 DEF ScanComplete, ScanPhase
  <2>2. flow' = "answer_ready"
      BY <1>6, <2>1, FlowMoves DEF ScanComplete, FlowState
  <2>3. scan'.step = "handled"
      BY <1>6, ScanMoves DEF ScanComplete, Handled
  <2>4. bundle' \in BundleType /\ bundle' # None /\ bundle'.target = target'
      BY <1>6, <2>1, DesktopConstants DEF ScanComplete
  <2>5. bundle'.ranking # <<>> => selected' \in Range(bundle'.ranking)
      BY <1>6, <2>1, LeadFound DEF ScanComplete, BundleType
  <2>6. ScanPhase' /\ PlanFollows'
      BY <2>2, <2>3 DEF ScanPhase, PlanFollows
  <2>7. LeadIsThere'
      BY <2>4, <2>5 DEF LeadIsThere, Ranking
  <2>8. PageHasItsResults'
      BY <2>2, <2>4 DEF PageHasItsResults, Chosen
  <2>. QED
      BY <2>6, <2>7, <2>8 DEF Pages
<1>. QED
    BY <1>1, <1>2, <1>3, <1>4, <1>5, <1>6 DEF ScanEvents

LEMMA PackPages ==
    ASSUME IInv, FinishPack \/ CloseBuild
    PROVE  Pages'
<1>0. TypeOK /\ Pages
    BY DEF IInv
<1>1. CASE CloseBuild
  <2>1. modal \in Seq(Dialogs) /\ Stacked(modal) /\ modal # <<>> /\ Last(modal) = "build"
      BY <1>1 DEF IInv, Under, TypeOK, CloseBuild, OnTop
  <2>2. Bottom(modal) = "build"
      BY <2>1, CloseStack DEF OverPages
  <2>3. flow = "build_session_active"
      BY <2>2 DEF IInv, Under
  <2>4. flow' \in {flow, "build_pack_ready"}
      BY <1>0, <1>1, FlowMoves DEF CloseBuild, FlowState
  <2>. QED
      BY <1>0, <1>1, <2>3, <2>4, PageMove DEF CloseBuild, Answered, Chosen, FlowState
<1>2. CASE FinishPack
  <2>1. /\ flow \in {"prepare_product", "build_pack_ready"} /\ plan = "premium"
        /\ bundle \in BundleType /\ bundle.target = target
        /\ selected \in Range(bundle.ranking)
      BY <1>2, PackShown DEF FinishPack
  <2>2. CASE Transition("build_pack_ready")
             /\ pack' = [target |-> bundle.target, opportunity |-> selected]
    <3>1. flow' \in {"prepare_product", "build_pack_ready"}
        BY <1>0, <2>1, <2>2, FlowMoves DEF FlowState
    <3>2. /\ bundle' = bundle /\ selected' = selected /\ plan' = plan /\ target' = target
          /\ scan' = scan /\ bundle # None
        BY <1>2, <2>1, DesktopConstants DEF FinishPack
    <3>3. ScanPhase' /\ PlanFollows'
        BY <1>0, <2>1, <3>1, <3>2 DEF Pages, ScanPhase, PlanFollows
    <3>4. LeadIsThere' /\ PageHasItsResults'
        BY <2>1, <2>2, <3>2 DEF LeadIsThere, Ranking, PageHasItsResults
    <3>. QED
        BY <3>3, <3>4 DEF Pages
  <2>3. CASE UNCHANGED <<place, pack>>
    <3>1. ScanPhase'
        BY <1>0, <1>2, <2>3 DEF FinishPack, place, Pages, ScanPhase
    <3>. QED
        BY <1>0, <1>2, <2>3, <3>1, PagesStay DEF FinishPack, place, results
  <2>. QED
      BY <1>2, <2>2, <2>3 DEF FinishPack
<1>. QED
    BY <1>1, <1>2

(* A new plan re-ranks the scan's results but keeps what was chosen.      *)
LEMMA PlanPages ==
    ASSUME TypeOK, Pages, NEW p \in Plans, EntitlementChanged(p)
    PROVE  Pages'
<1>1. ScanPhase'
    BY DEF EntitlementChanged, place, Pages, ScanPhase
<1>2. /\ flow' = flow /\ target' = target /\ pack' = pack /\ plan' = p
    BY DEF EntitlementChanged, place
<1>3. CASE bundle = None
  <2>1. bundle' = bundle /\ selected' = selected /\ flow \notin Answered
      BY <1>3 DEF EntitlementChanged, Pages, PageHasItsResults
  <2>2. LeadIsThere' /\ PlanFollows' /\ PageHasItsResults'
      BY <1>2, <2>1 DEF LeadIsThere, PlanFollows, PageHasItsResults, Answered, Chosen,
                        FlowState
  <2>. QED
      BY <1>1, <2>2 DEF Pages
<1>4. CASE bundle # None
  <2>1. bundle \in BundleType /\ bundle.ranking \in Answers
      BY <1>4 DEF TypeOK, BundleType
  <2>2. /\ bundle' # None /\ bundle'.target = bundle.target
        /\ bundle'.ranking = bundle.ranking /\ bundle'.plan = p
        /\ selected' = Lead(bundle.ranking, selected)
    <3>1. /\ bundle' = [bundle EXCEPT !.plan = p]
          /\ selected' = Lead(bundle.ranking, selected)
        BY <1>4 DEF EntitlementChanged, Ranking
    <3>. QED
        BY <2>1, <3>1, BundleMoves
  <2>3. /\ selected \in Range(bundle.ranking) => selected' = selected
        /\ bundle.ranking # <<>> => selected' \in Range(bundle.ranking)
      BY <2>1, <2>2, LeadFound
  <2>4. LeadIsThere' /\ PlanFollows'
      BY <1>2, <2>2, <2>3 DEF LeadIsThere, PlanFollows, Ranking
  <2>5. PageHasItsResults'
      BY <1>2, <2>2, <2>3 DEF Pages, PageHasItsResults, Answered, Chosen, FlowState
  <2>. QED
      BY <1>1, <2>4, <2>5 DEF Pages
<1>. QED
    BY <1>3, <1>4

LEMMA QuietPages ==
    ASSUME Pages, UNCHANGED <<flow, target, plan, results, scan>>
    PROVE  Pages'
<1>1. ScanPhase'
    BY DEF Pages, ScanPhase
<1>. QED
    BY <1>1, PagesStay

LEMMA StepPages ==
    ASSUME IInv, [Next]_vars
    PROVE  Pages'
<1>0. TypeOK /\ Pages
    BY DEF IInv
<1>1. CASE \/ OpenSurface \/ CloseSurface \/ CloseWindow \/ AnswerClose \/ DismissBox
           \/ RejectPack \/ RunBuilder \/ BuilderEnds \/ ManagePlan \/ ClosePlan
    BY <1>0, <1>1, QuietPages DEF OpenSurface, CloseSurface, CloseWindow, AnswerClose,
       DismissBox, RejectPack, RunBuilder, BuilderEnds, ManagePlan, ClosePlan, place
<1>2. CASE \/ UpdateEvents \/ CheckForUpdates \/ ShowOffered \/ DownloadUpdate
           \/ UpdateLater \/ InstallUpdate
    BY <1>0, <1>2, QuietPages DEF UpdateEvents, AutoUpdateCheck, UpdateCheckEnds,
       DownloadEnds, CheckForUpdates, ShowOffered, DownloadUpdate, UpdateLater,
       InstallUpdate, place
<1>3. CASE UNCHANGED vars
    BY <1>0, <1>3, QuietPages DEF vars, results
<1>. QED
    BY <1>0, <1>1, <1>2, <1>3, JourneyPages, ChoicePages, TargetPages, ScanPages, PackPages,
       PlanPages DEF Next, User

-----------------------------------------------------------------------------
(* The dialogs.                                                           *)
LEMMA PageUnder ==
    ASSUME TypeOK, Under,
           \/ OpenSurface \/ CloseSurface \/ StartScan \/ CancelScan \/ CloseWindow
           \/ OpenChooser \/ ReturnToAnswer \/ PrepareLeadingProduct \/ ReturnToPrepare
           \/ \E t \in Targets \cup {None} : TargetChanged(t)
           \/ \E o \in Opportunities : SelectOpportunity(o)
           \/ ManagePlan \/ CheckForUpdates \/ ShowOffered
    PROVE  Under'
<1>1. Free /\ UNCHANGED builder
    BY DEF OpenSurface, CloseSurface, StartScan, CancelScan, CloseWindow, OpenChooser,
           ReturnToAnswer, PrepareLeadingProduct, ReturnToPrepare, TargetChanged,
           SelectOpportunity, ManagePlan, CheckForUpdates, ShowOffered, OnPage, OnSurface
<1>2. UNCHANGED modal \/ \E d \in {"plan", "box", "update", "question"} : Open(d)
    BY DEF OpenSurface, CloseSurface, StartScan, CancelScan, CloseWindow, OpenChooser,
           ReturnToAnswer, PrepareLeadingProduct, ReturnToPrepare, TargetChanged,
           SelectOpportunity, ManagePlan, CheckForUpdates, ShowOffered, ShowUpdateDialog, Box
<1>. QED
    BY <1>1, <1>2, FreeStep

(* A click on the top dialog is one on the bottom dialog unless that is   *)
(* covered.                                                               *)
LEMMA TopIsBottom ==
    ASSUME TypeOK, Under, NEW d \in {"plan", "pack", "build"}, OnTop(d)
    PROVE  Bottom(modal) = d /\ Front(modal) = <<>> /\ Running
<1>1. modal \in Seq(Dialogs) /\ Stacked(modal) /\ modal # <<>> /\ Last(modal) = d /\ Running
    BY DEF TypeOK, Under, OnTop
<1>2. d \notin OverPages
    BY DEF OverPages
<1>. QED
    BY <1>1, <1>2, CloseStack

LEMMA PackUnder ==
    ASSUME TypeOK, Under,
           \/ CreateBuildPack \/ RejectPack \/ FinishPack \/ StartAssistedBuild
           \/ RunBuilder \/ BuilderEnds \/ CloseBuild
    PROVE  Under'
<1>0. Stacked(<<>>) /\ <<>> \in Seq(Dialogs) /\ Bottom(<<>>) = "none"
    BY DEF Stacked, Bottom
<1>1. ASSUME NEW d \in {"pack", "build", "box"}, Free, Open(d)
      PROVE  Stacked(modal') /\ Bottom(modal') = d
  <2>1. d \in Dialogs /\ modal = <<>>
      BY <1>1 DEF Dialogs, Free
  <2>. QED
      BY <1>0, <1>1, <2>1, OpenStack DEF Open
<1>2. CASE CreateBuildPack
  <2>1. Free /\ ~ builder' /\ flow \in {"prepare_product", "build_pack_ready"}
      BY <1>2, FreeUnder DEF CreateBuildPack, OnPage
  <2>2. CASE UNCHANGED modal
      BY <1>2, <2>1, <2>2, FreeStep DEF CreateBuildPack
  <2>3. CASE plan = "premium" /\ (Open("pack") \/ Box) /\ UNCHANGED place
      BY <1>1, <1>2, <2>1, <2>3 DEF CreateBuildPack, Box, Under, place
  <2>. QED
      BY <1>2, <2>2, <2>3 DEF CreateBuildPack
<1>3. CASE RejectPack
  <2>1. modal # <<>> /\ Close /\ Last(modal) = "pack"
      BY <1>3 DEF RejectPack, OnTop
  <2>. QED
      BY <1>3, <2>1, UnderStays DEF RejectPack, place
<1>4. CASE FinishPack
  <2>1. Bottom(modal) = "pack" /\ Front(modal) = <<>> /\ Running
      BY <1>4, TopIsBottom DEF FinishPack
  <2>2. ~ builder'
      BY <1>4, <2>1 DEF FinishPack, Under
  <2>3. modal' \in {<<>>, Append(<<>>, "box")}
      BY <1>4, <2>1 DEF FinishPack, Close
  <2>4. /\ Stacked(Append(<<>>, "box"))
        /\ Bottom(Append(<<>>, "box")) = "box"
      BY <1>0, OpenStack DEF Dialogs
  <2>5. Stacked(modal') /\ Bottom(modal') \in {"none", "box"}
      BY <1>0, <2>3, <2>4
  <2>. QED
      BY <2>2, <2>5 DEF Under
<1>5. CASE StartAssistedBuild
  <2>1. Stacked(modal') /\ Bottom(modal') = "build"
      BY <1>1, <1>5 DEF StartAssistedBuild, OnPage
  <2>2. flow' = "build_session_active"
      BY <1>5, FlowMoves DEF StartAssistedBuild, OnPage, FlowState
  <2>. QED
      BY <2>1, <2>2 DEF Under
<1>6. CASE RunBuilder
  <2>1. Bottom(modal) = "build"
      BY <1>6, TopIsBottom DEF RunBuilder
  <2>. QED
      BY <1>6, <2>1 DEF RunBuilder, Under, place
<1>7. CASE BuilderEnds
    BY <1>7, UnderStays DEF BuilderEnds, place
<1>8. CASE CloseBuild
  <2>1. modal' = <<>> /\ ~ builder'
      BY <1>8, TopIsBottom DEF CloseBuild, Close
  <2>. QED
      BY <1>0, <2>1 DEF Under
<1>. QED
    BY <1>2, <1>3, <1>4, <1>5, <1>6, <1>7, <1>8

LEMMA DialogUnder ==
    ASSUME TypeOK, Under,
           DismissBox \/ ClosePlan \/ AnswerClose \/ \E p \in Plans : EntitlementChanged(p)
    PROVE  Under'
<1>1. CASE DismissBox \/ ClosePlan \/ AnswerClose
  <2>1. modal # <<>> /\ Close /\ Last(modal) # "build" /\ Running
      BY <1>1 DEF DismissBox, ClosePlan, AnswerClose, OnTop
  <2>. QED
      BY <1>1, <2>1, UnderStays DEF DismissBox, ClosePlan, AnswerClose, place
<1>2. CASE \E p \in Plans : EntitlementChanged(p)
  <2>1. OnTop("plan") /\ UNCHANGED <<modal, builder, window>>
      BY <1>2 DEF EntitlementChanged
  <2>2. Bottom(modal) = "plan" /\ Running
      BY <2>1, TopIsBottom
  <2>. QED
      BY <2>1, <2>2 DEF Under, Running
<1>. QED
    BY <1>1, <1>2

LEMMA ScanUnder ==
    ASSUME TypeOK, ScanPhase, Under, ScanEvents
    PROVE  Under'
<1>1. CASE WorkerCancels \/ WorkerFails \/ WorkerAnswers
  <2>1. UNCHANGED <<flow, plan, builder, window, modal>>
      BY <1>1 DEF WorkerCancels, WorkerFails, WorkerAnswers, Emit, place
  <2>. QED
      BY <2>1, UnderStays
<1>2. CASE ThreadFinished
  <2>1. UNCHANGED modal \/ \E d \in OverPages : Open(d)
      BY <1>2 DEF ThreadFinished, Box, OverPages
  <2>2. Running' => Running
      BY <1>2 DEF ThreadFinished, Running
  <2>. QED
      BY <1>2, <2>1, <2>2, UnderStays DEF ThreadFinished, place
<1>3. CASE ScanComplete \/ ScanFailed
  <2>1. flow = "scanning"
      BY <1>3 DEF ScanComplete, ScanFailed, ScanPhase
  <2>2. Bottom(modal) \notin {"pack", "build"} /\ (Running => ~ builder)
      BY <2>1 DEF Under
  <2>3. UNCHANGED modal \/ Open("box")
      BY <1>3 DEF ScanComplete, ScanFailed, Box
  <2>4. modal \in Seq(Dialogs) /\ Stacked(modal) /\ "box" \in Dialogs /\ "box" \in OverPages
      BY DEF TypeOK, Under, Dialogs, OverPages
  <2>5. Stacked(modal') /\ Bottom(modal') \in {Bottom(modal), "box"}
      BY <2>3, <2>4, OpenStack DEF Open
  <2>6. builder' = builder /\ (Running' <=> Running)
      BY <1>3 DEF ScanComplete, ScanFailed, Running
  <2>. QED
      BY <2>2, <2>5, <2>6 DEF Under
<1>. QED
    BY <1>1, <1>2, <1>3 DEF ScanEvents

LEMMA UpdateUnder ==
    ASSUME TypeOK, Under, UpdateEvents \/ DownloadUpdate \/ UpdateLater \/ InstallUpdate
    PROVE  Under'
<1>0. UNCHANGED <<flow, plan, builder>>
    BY DEF UpdateEvents, AutoUpdateCheck, UpdateCheckEnds, DownloadEnds, DownloadUpdate,
           UpdateLater, InstallUpdate, place
<1>1. CASE UpdateEvents \/ DownloadUpdate
  <2>1. UNCHANGED modal \/ \E d \in OverPages : Open(d)
      BY <1>1 DEF UpdateEvents, AutoUpdateCheck, UpdateCheckEnds, DownloadEnds,
         DownloadUpdate, ShowUpdateDialog, Box, OverPages
  <2>2. UNCHANGED window
      BY <1>1 DEF UpdateEvents, AutoUpdateCheck, UpdateCheckEnds, DownloadEnds, DownloadUpdate
  <2>. QED
      BY <1>0, <2>1, <2>2, UnderStays
<1>2. CASE UpdateLater
  <2>1. modal # <<>> /\ Close /\ Last(modal) # "build" /\ UNCHANGED window
      BY <1>2 DEF UpdateLater, OnTop
  <2>. QED
      BY <1>0, <2>1, UnderStays
<1>3. CASE InstallUpdate
  <2>1. CASE Box /\ UNCHANGED window
      BY <1>0, <2>1, UnderStays DEF Box, OverPages
  <2>2. CASE window' = "quit" /\ modal' = <<>>
    <3>1. ~ Running' /\ Stacked(modal') /\ Bottom(modal') = "none"
        BY <2>2 DEF Running, Stacked, Bottom
    <3>. QED
        BY <3>1 DEF Under
  <2>. QED
      BY <1>3, <2>1, <2>2 DEF InstallUpdate
<1>. QED
    BY <1>1, <1>2, <1>3

LEMMA StepUnder ==
    ASSUME IInv, [Next]_vars
    PROVE  Under'
<1>0. TypeOK /\ Under /\ ScanPhase
    BY DEF IInv, Pages
<1>1. CASE UNCHANGED vars
    BY <1>0, <1>1, UnderStays DEF vars
<1>2. CASE Next
    BY <1>0, <1>2, PageUnder, PackUnder, DialogUnder, ScanUnder, UpdateUnder DEF Next, User
<1>. QED
    BY <1>1, <1>2

(* The build dialog covers the plan dialog, and the scan's copy of the    *)
(* plan, which it asks, grants no more than the window's.                 *)
LEMMA StepPlanned ==
    ASSUME IInv, [Next]_vars
    PROVE  BuildsOnlyUnderPlan'
<1>0. TypeOK /\ Under /\ PlanFollows /\ BuildsOnlyUnderPlan
    BY DEF IInv, Pages
<1>1. CASE RunBuilder
  <2>1. Bottom(modal) = "build" /\ bundle.plan = "premium"
      BY <1>0, <1>1, TopIsBottom DEF RunBuilder
  <2>2. plan = "premium"
      BY <1>0, <2>1 DEF Under, PlanFollows
  <2>. QED
      BY <1>1, <2>2 DEF RunBuilder, BuildsOnlyUnderPlan
<1>2. CASE \E p \in Plans : EntitlementChanged(p)
  <2>1. OnTop("plan") /\ builder' = builder
      BY <1>2 DEF EntitlementChanged
  <2>2. Bottom(modal) = "plan" /\ Running
      BY <1>0, <2>1, TopIsBottom
  <2>. QED
      BY <1>0, <2>1, <2>2 DEF Under, BuildsOnlyUnderPlan
<1>3. CASE UNCHANGED plan /\ (builder' => builder)
    BY <1>0, <1>3 DEF BuildsOnlyUnderPlan
<1>4. CASE \/ OpenSurface \/ CloseSurface \/ StartScan \/ CancelScan \/ CloseWindow
           \/ AnswerClose \/ DismissBox \/ \E t \in Targets \cup {None} : TargetChanged(t)
    BY <1>3, <1>4 DEF OpenSurface, CloseSurface, StartScan, CancelScan, CloseWindow,
       AnswerClose, DismissBox, TargetChanged
<1>5. CASE \/ OpenChooser \/ ReturnToAnswer \/ PrepareLeadingProduct \/ ReturnToPrepare
           \/ \E o \in Opportunities : SelectOpportunity(o)
           \/ CreateBuildPack \/ RejectPack \/ FinishPack \/ StartAssistedBuild
           \/ BuilderEnds \/ CloseBuild
    BY <1>3, <1>5 DEF OpenChooser, ReturnToAnswer, PrepareLeadingProduct, ReturnToPrepare,
       SelectOpportunity, CreateBuildPack, RejectPack, FinishPack, StartAssistedBuild,
       BuilderEnds, CloseBuild
<1>6. CASE \/ ManagePlan \/ ClosePlan \/ CheckForUpdates \/ ShowOffered \/ DownloadUpdate
           \/ UpdateLater \/ InstallUpdate \/ UpdateEvents
    BY <1>3, <1>6 DEF ManagePlan, ClosePlan, CheckForUpdates, ShowOffered, DownloadUpdate,
       UpdateLater, InstallUpdate, UpdateEvents, AutoUpdateCheck, UpdateCheckEnds,
       DownloadEnds
<1>7. CASE ScanEvents
    BY <1>3, <1>7 DEF ScanEvents, WorkerCancels, WorkerFails, WorkerAnswers, Emit,
       ScanComplete, ScanFailed, ThreadFinished
<1>8. CASE UNCHANGED vars
    BY <1>3, <1>8 DEF vars
<1>. QED
    BY <1>1, <1>2, <1>4, <1>5, <1>6, <1>7, <1>8 DEF Next, User

-----------------------------------------------------------------------------
LEMMA InitHolds == Init => IInv
<1>. SUFFICES ASSUME Init PROVE IInv
    OBVIOUS
<1>1. modal \in Seq(Dialogs) /\ Stacked(modal) /\ Bottom(modal) = "none"
    BY DEF Init, Stacked, Bottom
<1>2. scan \in ScanType /\ update \in UpdateType /\ scan.step = "none"
    BY DEF Init, NoScan, NoUpdate, ScanType, UpdateType, Plans
<1>3. flow \in {"no_target", "target_selected"} /\ target \in Targets \cup {None}
    BY DEF Init
<1>4. TypeOK
    BY <1>1, <1>2, <1>3 DEF Init, TypeOK, FlowState
<1>5. Pages
    BY <1>2, <1>3 DEF Pages, ScanPhase, LeadIsThere, PlanFollows, PageHasItsResults,
                      Answered, Chosen
<1>6. Under /\ BuildsOnlyUnderPlan
    BY <1>1 DEF Init, Under, BuildsOnlyUnderPlan
<1>. QED
    BY <1>4, <1>5, <1>6 DEF IInv

LEMMA Invariant == Spec => []IInv
<1>1. IInv /\ [Next]_vars => IInv'
    BY StepTyped, StepPages, StepUnder, StepPlanned DEF IInv
<1>. QED
    BY InitHolds, <1>1, PTL DEF Spec

\* Every reachable state of the window is well typed, whatever its slots, its worker
\* threads and their signals interleave to.
THEOREM TypeCorrect == Spec => []TypeOK
BY Invariant, PTL DEF IInv

\* No page outlives what it shows (qt_app.py: _target_changed, _scan_complete,
\* _entitlement_changed, the Build Pack slots), for any folders and rankings.
THEOREM PagesHaveTheirResults == Spec => []PageHasItsResults
BY Invariant, PTL DEF IInv, Pages

\* No supervised run under a plan the window has given up (qt_app.py: the build dialog
\* asks the bundle's entitlement), for any folders and rankings.
THEOREM BuildsArePaidFor == Spec => []BuildsOnlyUnderPlan
BY Invariant, PTL DEF IInv
=============================================================================
