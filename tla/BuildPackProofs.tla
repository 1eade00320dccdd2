--------------------------- MODULE BuildPackProofs ---------------------------
(* What holds of BuildPack for every estate, every set of requested       *)
(* assets and documents, and any number of windows, command lines and     *)
(* edits.                                                                 *)
EXTENDS BuildPack, FiniteSetTheorems, TLAPS

(* Whatever a pack lists unblocked has no secret, and every candidate for *)
(* its destination was scanned with the listed content.                   *)
Clean(scan, s, sha) ==
    /\ sha \notin Secret
    /\ \A t \in Sources : Dest[t] = Dest[s] => scan[t] = sha

CleanPack(pack) ==
    \A s \in Sources \cap DOMAIN pack.assets :
        pack.assets[s].class # "blocked" => Clean(pack.scan, s, pack.assets[s].sha)

CleanApproval(a) ==
    \A s \in DOMAIN a.assets : s \in Sources /\ Clean(a.pack.scan, s, a.assets[s])

Whole(r) == r \in [pc : {r.pc}, scan : {r.scan}, pack : {r.pack}, approval : {r.approval},
                  suffix : {r.suffix}]

Approving == {"write approval", "check", "copy", "render", "rename"}
Exporting == {"copy", "render", "rename"}

(* What a process holds at each step, with what it has staged: an export  *)
(* past its check stages what a user approved for the pack it exports.    *)
Holds(r, staged, grants) ==
    /\ Whole(r)
    /\ r.pc \in {"write pack", "review"} => CleanPack(r.pack)
    /\ r.pc \in Approving => r.approval \in grants
    /\ r.pc \in Exporting => r.approval.pack = r.pack
    /\ r.pc = "render" => staged = Ordered(r.approval)
    /\ r.pc = "rename" => staged = WithDocuments(Ordered(r.approval))

(* A directory under a pack's name lists what was approved for it: so do  *)
(* its checksums until a user edits them.                                 *)
Lists(name, sums, grants) ==
    /\ Documents \subseteq DOMAIN sums
    /\ \E a \in grants : a.pack = name /\ sums = WithDocuments(Ordered(a))

ProcsHold ==
    /\ proc \in [Procs -> {proc[p] : p \in Procs}]
    /\ staging \in [Procs -> {staging[p] : p \in Procs}]
    /\ \A p \in Procs : Holds(proc[p], staging[p], granted)

SavedHolds ==
    /\ saved = [pack |-> saved.pack, approval |-> saved.approval]
    /\ saved.approval \in {NoApproval, Torn} \cup granted

GrantsHold == \A a \in granted : CleanApproval(a)

Exported(d, grants) ==
    /\ d = [name |-> d.name, suffix |-> d.suffix, files |-> d.files, sums |-> d.sums,
            resummed |-> d.resummed]
    /\ d.resummed \in BOOLEAN
    /\ ~ d.resummed => Lists(d.name, d.sums, grants)

PublishedHold == \A d \in published : Exported(d, granted)

Names(d, taken) == d.name = taken.name /\ d.suffix = taken.suffix

TakingHolds ==
    /\ taking = [pc |-> taking.pc, name |-> taking.name, suffix |-> taking.suffix,
                 files |-> taking.files, sums |-> taking.sums,
                 resummed |-> taking.resummed]
    /\ taking.pc = "copy" => \E d \in published : Names(d, taking)
    /\ taking.pc = "validate" /\ ~ taking.resummed =>
          Lists(taking.name, taking.sums, granted)

IInv ==
    /\ ProcsHold /\ SavedHolds /\ GrantsHold /\ PublishedHold /\ TakingHolds
    /\ SessionIsApproved
    /\ edits \in Nat

-----------------------------------------------------------------------------
(* What classify_assets does not block is clean, whatever the disk was.   *)
LEMMA ClassifiedClean ==
    ASSUME NEW scan
    PROVE  CleanPack(PackOf(scan))
<1>. DEFINE pack == PackOf(scan)
<1>1. SUFFICES ASSUME NEW s \in Sources, s \in DOMAIN Classify(scan),
                      Classify(scan)[s].class # "blocked"
               PROVE  Clean(scan, s, Classify(scan)[s].sha)
    BY DEF CleanPack, PackOf
<1>2. /\ Classify(scan)[s].sha = Hash(scan, s)
      /\ Verdict(scan, s) # "blocked"
      /\ \A t \in Sources : Dest[t] = Dest[s] => Hash(scan, t) = Hash(scan, Leader(s))
    BY <1>1 DEF Classify
<1>3. scan[s] # Absent /\ scan[s] \notin Secret
    BY <1>2 DEF Verdict
<1>4. Hash(scan, s) = scan[s]
    BY <1>3 DEF Hash
<1>5. ASSUME NEW t \in Sources, Dest[t] = Dest[s] PROVE scan[t] = scan[s]
  <2>1. Hash(scan, t) = scan[s]
      BY <1>2, <1>4, <1>5
  <2>. QED
      BY <1>3, <2>1 DEF Hash
<1>. QED
    BY <1>2, <1>3, <1>4, <1>5 DEF Clean

(* An approval of what may be ticked is clean.                            *)
LEMMA ApprovedClean ==
    ASSUME NEW pack, CleanPack(pack), NEW chosen \in SUBSET Sources,
           NEW acknowledged \in BOOLEAN, Approvable(pack, chosen, acknowledged)
    PROVE  CleanApproval(Approval(pack, chosen))
BY DEF CleanPack, Approvable, CleanApproval, Approval

(* Copying approved sources that are intact gives what was approved.      *)
LEMMA CopiedOrdered ==
    ASSUME NEW p \in Procs, Intact(p)
    PROVE  Copied(p) = Ordered(proc[p].approval)
BY DEF Intact, Copied, Ordered, Approved

(* More approvals take nothing from what holds.                           *)
LEMMA MoreGrants ==
    ASSUME NEW g, NEW h, g \subseteq h
    PROVE  /\ \A r, st : Holds(r, st, g) => Holds(r, st, h)
           /\ \A d : Exported(d, g) => Exported(d, h)
           /\ \A n, sums : Lists(n, sums, g) => Lists(n, sums, h)
<1>1. \A n, sums : Lists(n, sums, g) => Lists(n, sums, h)
    BY DEF Lists
<1>2. \A d : Exported(d, g) => Exported(d, h)
    BY <1>1 DEF Exported
<1>3. \A r, st : Holds(r, st, g) => Holds(r, st, h)
    BY DEF Holds
<1>. QED
    BY <1>1, <1>2, <1>3

(* An idle or scanned process holds nothing.                              *)
LEMMA RestedHolds ==
    ASSUME NEW p \in Procs, NEW st, NEW g, NEW c
    PROVE  /\ Holds(Idle, st, g) /\ Holds(Rested(p), st, g)
           /\ Holds([Idle EXCEPT !.pc = "scanned", !.scan = c], st, g)
<1>1. ASSUME NEW r, Whole(r), r.pc \in {"idle", "scanned"} PROVE Holds(r, st, g)
    BY <1>1 DEF Holds, Approving, Exporting
<1>2. /\ Idle \in [pc : {"idle"}, scan : {Idle.scan}, pack : {Idle.pack},
                  approval : {Idle.approval}, suffix : {Idle.suffix}]
      /\ Idle.pc = "idle"
    BY DEF Idle
<1>3. ASSUME NEW scan
      PROVE  Holds([Idle EXCEPT !.pc = "scanned", !.scan = scan], st, g)
  <2>. DEFINE new == [Idle EXCEPT !.pc = "scanned", !.scan = scan]
  <2>1. Whole(new) /\ new.pc = "scanned"
      BY <1>2 DEF Whole
  <2>. HIDE DEF new
  <2>2. Holds(new, st, g)
      BY <1>1, <2>1
  <2>. QED
      BY <2>2 DEF new
<1>4. Holds(Idle, st, g)
    BY <1>1, <1>2 DEF Whole
<1>5. Holds(Rested(p), st, g)
    BY <1>3, <1>4 DEF Rested
<1>. QED
    BY <1>3, <1>4, <1>5

(* One process moves on.                                                  *)
LEMMA MoveHolds ==
    ASSUME ProcsHold, NEW p \in Procs, NEW r, Move(p, r),
           NEW st, staging' = [staging EXCEPT ![p] = st],
           granted \subseteq granted', Holds(r, st, granted')
    PROVE  ProcsHold'
<1>1. /\ proc'[p] = r /\ staging'[p] = st
      /\ \A q \in Procs \ {p} : proc'[q] = proc[q] /\ staging'[q] = staging[q]
      /\ proc' \in [Procs -> {proc'[q] : q \in Procs}]
      /\ staging' \in [Procs -> {staging'[q] : q \in Procs}]
    BY DEF ProcsHold, Move
<1>2. ASSUME NEW q \in Procs PROVE Holds(proc'[q], staging'[q], granted')
    BY <1>1, MoreGrants DEF ProcsHold
<1>. QED
    BY <1>1, <1>2 DEF ProcsHold

(* ... and its staging directory stays as it is.                          *)
LEMMA MoveOnly ==
    ASSUME ProcsHold, NEW p \in Procs, NEW r, Move(p, r), UNCHANGED staging,
           granted \subseteq granted', Holds(r, staging[p], granted')
    PROVE  ProcsHold'
<1>1. staging' = [staging EXCEPT ![p] = staging[p]]
    BY DEF ProcsHold
<1>. QED
    BY <1>1, MoveHolds

(* ... to the end of its export.                                          *)
LEMMA EndHolds ==
    ASSUME ProcsHold, NEW p \in Procs, End(p), UNCHANGED granted
    PROVE  ProcsHold'
<1>1. Holds(Rested(p), NoStaging, granted')
    BY RestedHolds
<1>. QED
    BY <1>1, MoveHolds DEF End

(* ... to its next step, with what it holds.                              *)
LEMMA GotoWhole ==
    ASSUME NEW r, Whole(r), NEW pc
    PROVE  /\ Whole([r EXCEPT !.pc = pc])
           /\ [r EXCEPT !.pc = pc].pc = pc
           /\ [r EXCEPT !.pc = pc].pack = r.pack
           /\ [r EXCEPT !.pc = pc].approval = r.approval
BY DEF Whole

-----------------------------------------------------------------------------
(* The processes.                                                         *)
LEMMA StepHolds ==
    ASSUME IInv, NEW p \in Procs,
           \/ Step(p) \/ Scan(p) \/ Prepare(p) \/ Review(p) \/ Load(p) \/ Crash(p)
    PROVE  ProcsHold' /\ GrantsHold' /\ SavedHolds' /\ granted \subseteq granted'
<1>. DEFINE r == proc[p]
<1>0. /\ ProcsHold /\ GrantsHold /\ SavedHolds /\ Whole(r) /\ Holds(r, staging[p], granted)
    BY DEF IInv, ProcsHold, Holds
<1>. HIDE DEF r
<1>1. CASE Scan(p)
  <2>1. ProcsHold'
      BY <1>0, <1>1, RestedHolds, MoveOnly DEF Scan
  <2>. QED
      BY <1>0, <1>1, <2>1 DEF Scan, GrantsHold, SavedHolds
<1>2. CASE Crash(p)
  <2>1. ProcsHold'
      BY <1>0, <1>2, RestedHolds, MoveHolds DEF Crash
  <2>. QED
      BY <1>0, <1>2, <2>1 DEF Crash, GrantsHold, SavedHolds
<1>3. CASE Prepare(p)
  <2>. DEFINE new == IF p \in Windows
                     THEN [r EXCEPT !.pc = "review", !.pack = PackOf(r.scan)]
                     ELSE [Idle EXCEPT !.pc = "write pack", !.pack = PackOf(r.scan)]
  <2>1. Whole(new) /\ new.pc \in {"review", "write pack"} /\ new.pack = PackOf(r.scan)
      BY <1>0 DEF Whole, Idle
  <2>2. Move(p, new) /\ UNCHANGED <<saved, staging, granted>>
      BY <1>3 DEF Prepare, r
  <2>. HIDE DEF new
  <2>3. Holds(new, staging[p], granted')
      BY <2>1, ClassifiedClean DEF Holds, Approving, Exporting
  <2>4. ProcsHold'
      BY <1>0, <2>2, <2>3, MoveOnly
  <2>. QED
      BY <1>0, <2>2, <2>4 DEF GrantsHold, SavedHolds
<1>4. CASE Review(p)
  <2>1. CASE Move(p, Rested(p)) /\ UNCHANGED granted
    <3>1. ProcsHold'
        BY <1>0, <1>4, <2>1, RestedHolds, MoveOnly DEF Review
    <3>. QED
        BY <1>0, <1>4, <2>1, <3>1 DEF Review, GrantsHold, SavedHolds
  <2>2. ASSUME NEW chosen \in SUBSET Sources, NEW acknowledged \in BOOLEAN,
               Approvable(r.pack, chosen, acknowledged),
               granted' = granted \cup {Approval(r.pack, chosen)},
               Move(p, [r EXCEPT !.pc = IF p \in Windows THEN "check" ELSE "write approval",
                                 !.approval = Approval(r.pack, chosen)]),
               UNCHANGED <<saved, staging>>
        PROVE  ProcsHold' /\ GrantsHold' /\ SavedHolds'
    <3>. DEFINE a == Approval(r.pack, chosen)
                new == [r EXCEPT !.pc = IF p \in Windows THEN "check" ELSE "write approval",
                                 !.approval = a]
    <3>1. CleanPack(r.pack)
        BY <1>0, <1>4 DEF Holds, Review, At, r
    <3>2. CleanApproval(a)
        BY <2>2, <3>1, ApprovedClean
    <3>. HIDE DEF a
    <3>3. Whole(new) /\ new.pc \in {"check", "write approval"} /\ new.approval = a
        BY <1>0 DEF Whole
    <3>4. Move(p, new) /\ granted' = granted \cup {a}
        BY <2>2 DEF a
    <3>. HIDE DEF new
    <3>5. Holds(new, staging[p], granted')
        BY <3>3, <3>4 DEF Holds, Exporting
    <3>6. ProcsHold'
        BY <1>0, <2>2, <3>4, <3>5, MoveOnly
    <3>. QED
        BY <1>0, <2>2, <3>2, <3>4, <3>6 DEF GrantsHold, SavedHolds
  <2>. QED
      BY <1>4, <2>1, <2>2, BuildPackConstants DEF Review, r
<1>5. CASE Load(p)
  <2>. DEFINE new == [Idle EXCEPT !.pc = "check", !.pack = saved.pack,
                                  !.approval = saved.approval]
  <2>1. Whole(new) /\ new.pc = "check" /\ new.approval = saved.approval
      BY DEF Whole, Idle
  <2>2. saved.approval \in granted
      BY <1>0, <1>5 DEF Load, SavedHolds
  <2>3. Move(p, new) /\ UNCHANGED <<saved, staging, granted>>
      BY <1>5 DEF Load
  <2>. HIDE DEF new
  <2>4. Holds(new, staging[p], granted')
      BY <2>1, <2>2, <2>3 DEF Holds, Exporting
  <2>5. ProcsHold'
      BY <1>0, <2>3, <2>4, MoveOnly
  <2>. QED
      BY <1>0, <2>3, <2>5 DEF GrantsHold, SavedHolds
<1>6. CASE WriteSaved(p)
  <2>1. /\ saved' = [pack |-> saved'.pack, approval |-> saved'.approval]
        /\ saved'.approval \in {saved.approval, r.approval, Torn}
        /\ saved'.approval = r.approval => r.pc = "write approval" \/ saved'.approval = saved.approval
      BY <1>0, <1>6 DEF WriteSaved, SavedHolds, At, r
  <2>2. SavedHolds'
      BY <1>0, <1>6, <2>1 DEF SavedHolds, WriteSaved, Holds, Approving
  <2>3. UNCHANGED <<staging, granted>>
      BY <1>6 DEF WriteSaved
  <2>4. CASE Goto(p, "review") /\ At(p, "write pack")
    <3>. DEFINE new == [r EXCEPT !.pc = "review"]
    <3>1. Whole(new) /\ new.pc = "review" /\ new.pack = r.pack
        BY <1>0, GotoWhole
    <3>2. Move(p, new) /\ r.pc = "write pack"
        BY <2>4 DEF Goto, At, r
    <3>. HIDE DEF new
    <3>3. Holds(new, staging[p], granted')
        BY <1>0, <3>1, <3>2 DEF Holds, Approving, Exporting
    <3>4. ProcsHold'
        BY <1>0, <2>3, <3>2, <3>3, MoveOnly
    <3>. QED
        BY <1>0, <2>2, <2>3, <3>4 DEF GrantsHold
  <2>5. CASE Move(p, Idle)
      BY <1>0, <2>2, <2>3, <2>5, RestedHolds, MoveOnly DEF GrantsHold
  <2>. QED
      BY <1>6, <2>4, <2>5 DEF WriteSaved
<1>7. CASE Check(p) \/ Copy(p) \/ Render(p)
  <2>1. UNCHANGED <<saved, granted>>
      BY <1>7 DEF Check, Copy, Render
  <2>2. CASE End(p)
      BY <1>0, <2>1, <2>2, EndHolds DEF GrantsHold, SavedHolds
  <2>3. ASSUME NEW pc \in Exporting, NEW st, Goto(p, pc),
               staging' = [staging EXCEPT ![p] = st],
               r.approval \in granted, r.approval.pack = r.pack,
               pc = "render" => st = Ordered(r.approval),
               pc = "rename" => st = WithDocuments(Ordered(r.approval))
        PROVE  ProcsHold'
    <3>. DEFINE new == [r EXCEPT !.pc = pc]
    <3>1. Whole(new) /\ new.pc = pc /\ new.pack = r.pack /\ new.approval = r.approval
        BY <1>0, GotoWhole
    <3>2. Move(p, new)
        BY <2>3 DEF Goto, r
    <3>. HIDE DEF new
    <3>3. Holds(new, st, granted')
        BY <2>1, <2>3, <3>1 DEF Holds, Exporting
    <3>. QED
        BY <1>0, <2>1, <2>3, <3>2, <3>3, MoveHolds
  <2>4. CASE Check(p) /\ ~ End(p)
    <3>1. r.approval \in granted /\ r.approval.pack = r.pack
        BY <1>0, <2>4 DEF Check, At, Current, Holds, Approving, r
    <3>. QED
        BY <1>0, <2>1, <2>3, <2>4, <3>1 DEF Check, Exporting, GrantsHold, SavedHolds
  <2>5. CASE Copy(p) /\ ~ End(p)
    <3>1. r.approval \in granted /\ r.approval.pack = r.pack
        BY <1>0, <2>5 DEF Copy, At, Holds, Approving, Exporting, r
    <3>2. Copied(p) = Ordered(r.approval)
        BY <2>5, CopiedOrdered DEF Copy, r
    <3>. QED
        BY <1>0, <2>1, <2>3, <2>5, <3>1, <3>2 DEF Copy, Exporting, GrantsHold, SavedHolds
  <2>6. CASE Render(p) /\ ~ End(p)
    <3>1. /\ r.approval \in granted /\ r.approval.pack = r.pack
          /\ staging[p] = Ordered(r.approval)
        BY <1>0, <2>6 DEF Render, At, Holds, Approving, Exporting, r
    <3>. QED
        BY <1>0, <2>1, <2>3, <2>6, <3>1 DEF Render, Exporting, GrantsHold, SavedHolds
  <2>. QED
      BY <1>7, <2>1, <2>2, <2>4, <2>5, <2>6
<1>8. CASE Rename(p)
  <2>1. UNCHANGED <<saved, granted>>
      BY <1>8 DEF Rename
  <2>2. CASE End(p)
      BY <1>0, <2>1, <2>2, EndHolds DEF GrantsHold, SavedHolds
  <2>3. CASE /\ At(p, "rename") /\ UNCHANGED staging
             /\ Move(p, [r EXCEPT !.suffix = @ + 1])
    <3>. DEFINE new == [r EXCEPT !.suffix = @ + 1]
    <3>1. Whole(new) /\ new.pc = r.pc /\ new.pack = r.pack /\ new.approval = r.approval
        BY <1>0 DEF Whole
    <3>. HIDE DEF new
    <3>2. Holds(new, staging[p], granted')
        BY <1>0, <2>1, <3>1 DEF Holds
    <3>. QED
        BY <1>0, <2>1, <2>3, <3>2, MoveOnly DEF new, GrantsHold, SavedHolds
  <2>. QED
      BY <1>8, <2>2, <2>3 DEF Rename, r
<1>. QED
    BY <1>1, <1>2, <1>3, <1>4, <1>5, <1>6, <1>7, <1>8 DEF Step

-----------------------------------------------------------------------------
(* Directories and sessions.                                              *)
LEMMA DocumentsApart ==
    ASSUME NEW a, CleanApproval(a)
    PROVE  /\ DOMAIN Ordered(a) \cap Documents = {}
           /\ Documents \subseteq DOMAIN WithDocuments(Ordered(a))
           /\ \A f \in DOMAIN Ordered(a) : /\ f \in DOMAIN WithDocuments(Ordered(a))
                                           /\ WithDocuments(Ordered(a))[f] = Ordered(a)[f]
           /\ Plain(WithDocuments(Ordered(a))) = Ordered(a)
<1>1. DOMAIN Ordered(a) \subseteq Dests
    BY DEF CleanApproval, Ordered, Dests
<1>2. DOMAIN Ordered(a) \cap Documents = {}
    BY <1>1, BuildPackConstants
<1>3. Ordered(a) = [f \in DOMAIN Ordered(a) |-> Ordered(a)[f]]
    BY DEF Ordered
<1>. DEFINE o == Ordered(a)
<1>. HIDE DEF o
<1>4. /\ DOMAIN WithDocuments(o) = DOMAIN o \cup Documents
      /\ \A f \in DOMAIN o : WithDocuments(o)[f] = o[f]
    BY DEF WithDocuments
<1>5. (DOMAIN o \cup Documents) \ Documents = DOMAIN o
    BY <1>2 DEF o
<1>6. Plain(WithDocuments(o)) = [f \in DOMAIN o |-> WithDocuments(o)[f]]
    BY <1>4, <1>5 DEF Plain, Restrict
<1>7. Plain(WithDocuments(o)) = o
    BY <1>3, <1>4, <1>6 DEF o
<1>. QED
    BY <1>2, <1>4, <1>7 DEF o

LEMMA OthersKeep ==
    ASSUME IInv, granted \subseteq granted', UNCHANGED <<published, taking, sessions>>
    PROVE  PublishedHold' /\ TakingHolds' /\ SessionIsApproved'
BY MoreGrants DEF IInv, PublishedHold, TakingHolds, SessionIsApproved

LEMMA RenamedHolds ==
    ASSUME IInv, NEW p \in Procs, Rename(p)
    PROVE  PublishedHold' /\ TakingHolds' /\ SessionIsApproved'
<1>1. granted' = granted /\ taking' = taking /\ sessions' = sessions
    BY DEF Rename, session
<1>2. CASE UNCHANGED published
    BY <1>1, <1>2, OthersKeep
<1>3. CASE published' = published \cup
                {[name |-> proc[p].pack, suffix |-> proc[p].suffix,
                  files |-> staging[p], sums |-> staging[p], resummed |-> FALSE]}
  <2>1. /\ proc[p].approval \in granted /\ proc[p].approval.pack = proc[p].pack
        /\ staging[p] = WithDocuments(Ordered(proc[p].approval))
      BY DEF Rename, At, IInv, ProcsHold, Holds, Approving, Exporting
  <2>2. Lists(proc[p].pack, staging[p], granted)
      BY <2>1 DEF Lists, WithDocuments
  <2>. DEFINE d == [name |-> proc[p].pack, suffix |-> proc[p].suffix,
                    files |-> staging[p], sums |-> staging[p], resummed |-> FALSE]
  <2>a. Exported(d, granted)
      BY <2>2 DEF Exported
  <2>b. published' = published \cup {d}
      BY <1>3
  <2>. HIDE DEF d
  <2>3. PublishedHold'
      BY <1>1, <2>a, <2>b DEF IInv, PublishedHold
  <2>4. TakingHolds'
      BY <1>1, <1>3 DEF IInv, TakingHolds
  <2>. QED
      BY <1>1, <2>3, <2>4 DEF IInv, SessionIsApproved
<1>. QED
    BY <1>2, <1>3 DEF Rename

LEMMA Relisted ==
    ASSUME NEW d, d = [name |-> d.name, suffix |-> d.suffix, files |-> d.files,
                       sums |-> d.sums, resummed |-> d.resummed],
           NEW sums, NEW resummed
    PROVE  [d EXCEPT !.sums = sums, !.resummed = resummed] =
               [name |-> d.name, suffix |-> d.suffix, files |-> d.files, sums |-> sums,
                resummed |-> resummed]
<1>. DEFINE e == [d EXCEPT !.sums = sums]
<1>1. e = [name |-> d.name, suffix |-> d.suffix, files |-> d.files, sums |-> sums,
           resummed |-> d.resummed]
    OBVIOUS
<1>2. [d EXCEPT !.sums = sums, !.resummed = resummed] = [e EXCEPT !.resummed = resummed]
    OBVIOUS
<1>. HIDE DEF e
<1>3. [e EXCEPT !.resummed = resummed] =
          [name |-> d.name, suffix |-> d.suffix, files |-> d.files, sums |-> sums,
           resummed |-> resummed]
    BY <1>1
<1>. QED
    BY <1>2, <1>3

(* An edit changes one directory's files, or its checksums and marks it.  *)
LEMMA EditedOne ==
    ASSUME IInv, EditPublished
    PROVE  \E d \in published, f \in Dests, c \in Contents \cup {Absent}, e \in published' :
              /\ published' = (published \ {d}) \cup {e}
              /\ e = [name |-> d.name, suffix |-> d.suffix, files |-> e.files, sums |-> e.sums,
                      resummed |-> e.resummed]
              /\ \/ e.files = Edited(d.files, f, c) /\ e.sums = d.sums /\ e.resummed = d.resummed
                 \/ e.files = d.files /\ e.sums = Edited(d.sums, f, c) /\ e.resummed = TRUE
<1>1. PICK d \in published, f \in Dests, c \in Contents \cup {Absent} :
          \/ published' = (published \ {d}) \cup {[d EXCEPT !.files = Edited(d.files, f, c)]}
          \/ published' = (published \ {d}) \cup
                {[d EXCEPT !.sums = Edited(d.sums, f, c), !.resummed = TRUE]}
    BY DEF EditPublished
<1>2. d = [name |-> d.name, suffix |-> d.suffix, files |-> d.files, sums |-> d.sums,
           resummed |-> d.resummed]
    BY DEF IInv, PublishedHold, Exported
<1>3. [d EXCEPT !.files = Edited(d.files, f, c)] =
          [name |-> d.name, suffix |-> d.suffix, files |-> Edited(d.files, f, c),
           sums |-> d.sums, resummed |-> d.resummed]
    BY <1>2
<1>4. [d EXCEPT !.sums = Edited(d.sums, f, c), !.resummed = TRUE] =
          [name |-> d.name, suffix |-> d.suffix, files |-> d.files,
           sums |-> Edited(d.sums, f, c), resummed |-> TRUE]
    BY <1>2, Relisted
<1>5. CASE published' = (published \ {d}) \cup {[d EXCEPT !.files = Edited(d.files, f, c)]}
  <2>. DEFINE files == Edited(d.files, f, c)
              e == [name |-> d.name, suffix |-> d.suffix, files |-> files,
                    sums |-> d.sums, resummed |-> d.resummed]
  <2>1. published' = (published \ {d}) \cup {e} /\ files = Edited(d.files, f, c)
      BY <1>3, <1>5
  <2>. HIDE DEF files
  <2>2. /\ e = [name |-> d.name, suffix |-> d.suffix, files |-> e.files, sums |-> e.sums,
                resummed |-> e.resummed]
        /\ e.files = Edited(d.files, f, c) /\ e.sums = d.sums /\ e.resummed = d.resummed
      BY <2>1
  <2>. HIDE DEF e
  <2>. QED
      BY <2>1, <2>2
<1>6. CASE published' = (published \ {d}) \cup
               {[d EXCEPT !.sums = Edited(d.sums, f, c), !.resummed = TRUE]}
  <2>. DEFINE sums == Edited(d.sums, f, c)
              e == [name |-> d.name, suffix |-> d.suffix, files |-> d.files,
                    sums |-> sums, resummed |-> TRUE]
  <2>1. published' = (published \ {d}) \cup {e} /\ sums = Edited(d.sums, f, c)
      BY <1>4, <1>6
  <2>. HIDE DEF sums
  <2>2. /\ e = [name |-> d.name, suffix |-> d.suffix, files |-> e.files, sums |-> e.sums,
                resummed |-> e.resummed]
        /\ e.files = d.files /\ e.sums = Edited(d.sums, f, c) /\ e.resummed = TRUE
      BY <2>1
  <2>. HIDE DEF e
  <2>. QED
      BY <2>1, <2>2
<1>. QED
    BY <1>1, <1>5, <1>6

LEMMA EditedHolds ==
    ASSUME IInv, EditPublished
    PROVE  PublishedHold' /\ TakingHolds' /\ SessionIsApproved'
<1>1. granted' = granted /\ taking' = taking /\ sessions' = sessions
    BY DEF EditPublished, session
<1>2. PICK d \in published, e \in published' :
          /\ published' = (published \ {d}) \cup {e}
          /\ e = [name |-> d.name, suffix |-> d.suffix, files |-> e.files, sums |-> e.sums,
                  resummed |-> e.resummed]
          /\ \/ e.sums = d.sums /\ e.resummed = d.resummed
             \/ e.resummed = TRUE
    BY EditedOne
<1>a. Exported(d, granted)
    BY DEF IInv, PublishedHold
<1>b. e.name = d.name /\ e.suffix = d.suffix
    BY <1>2
<1>c. Exported(e, granted)
    BY <1>2, <1>a, <1>b DEF Exported
<1>3. PublishedHold'
    BY <1>1, <1>2, <1>c DEF IInv, PublishedHold
<1>4. TakingHolds'
    BY <1>1, <1>2, <1>b DEF IInv, TakingHolds, Names
<1>. QED
    BY <1>1, <1>3, <1>4 DEF IInv, SessionIsApproved

(* What is taken from a valid private copy has all that its checksums     *)
(* list, and those list what was approved if nobody edited them.          *)
LEMMA FilledApproved ==
    ASSUME IInv, taking.pc = "validate", Valid(taking.files, taking.sums)
    PROVE  /\ Valid(Filled.assets, Plain(Filled.sums))
           /\ ~ Filled.resummed =>
                 \E a \in granted : a.pack = Filled.pack /\ Plain(Filled.sums) = Ordered(a)
<1>1. Valid(Plain(taking.files), Plain(taking.sums))
    BY DEF Valid, Plain, Restrict
<1>2. ASSUME ~ taking.resummed
      PROVE  \E a \in granted : a.pack = taking.name /\ Plain(taking.sums) = Ordered(a)
  <2>1. PICK a \in granted : /\ a.pack = taking.name
                             /\ taking.sums = WithDocuments(Ordered(a))
      BY <1>2 DEF IInv, TakingHolds, Lists
  <2>2. CleanApproval(a)
      BY DEF IInv, GrantsHold
  <2>. QED
      BY <2>1, <2>2, DocumentsApart
<1>. QED
    BY <1>1, <1>2 DEF Filled

LEMMA TakeHolds ==
    ASSUME IInv, Take \/ TakeStep
    PROVE  PublishedHold' /\ TakingHolds' /\ SessionIsApproved'
<1>1. granted' = granted /\ published' = published
    BY DEF Take, TakeStep, TakeCopy, TakeValid
<1>2. PublishedHold'
    BY <1>1 DEF IInv, PublishedHold
<1>3. CASE Take
  <2>1. PICK d \in published :
            taking' = [NoTaking EXCEPT !.pc = "copy", !.name = d.name, !.suffix = d.suffix]
      BY <1>3 DEF Take
  <2>2. taking' = [pc |-> "copy", name |-> d.name, suffix |-> d.suffix,
                   files |-> EmptyDir, sums |-> EmptyDir, resummed |-> FALSE]
      BY <2>1 DEF NoTaking
  <2>3. TakingHolds'
      BY <1>1, <2>2 DEF TakingHolds, Names
  <2>. QED
      BY <1>1, <1>2, <1>3, <2>3 DEF Take, IInv, SessionIsApproved
<1>4. CASE TakeCopy
  <2>1. taking' = [pc |-> "validate", name |-> taking.name, suffix |-> taking.suffix,
                   files |-> Taken.files, sums |-> Taken.sums, resummed |-> Taken.resummed]
      BY <1>4 DEF TakeCopy, IInv, TakingHolds
  <2>2. Taken \in published /\ Taken.name = taking.name
      BY <1>4 DEF TakeCopy, IInv, TakingHolds, Names, Taken
  <2>3. ~ Taken.resummed => Lists(taking.name, Taken.sums, granted)
      BY <2>2 DEF IInv, PublishedHold, Exported
  <2>4. TakingHolds'
      BY <1>1, <2>1, <2>3 DEF TakingHolds
  <2>. QED
      BY <1>1, <1>2, <1>4, <2>4 DEF TakeCopy, IInv, SessionIsApproved
<1>5. CASE TakeValid
  <2>1. TakingHolds'
      BY <1>5 DEF TakeValid, NoTaking, TakingHolds
  <2>2. SessionIsApproved'
    <3>1. CASE UNCHANGED sessions
        BY <1>1, <3>1 DEF IInv, SessionIsApproved
    <3>2. CASE /\ taking.pc = "validate" /\ Valid(taking.files, taking.sums)
               /\ sessions' = sessions \cup {Filled}
        BY <1>1, <3>2, FilledApproved DEF IInv, SessionIsApproved
    <3>. QED
        BY <1>5, <3>1, <3>2 DEF TakeValid
  <2>. QED
      BY <1>2, <2>1, <2>2
<1>. QED
    BY <1>3, <1>4, <1>5 DEF TakeStep

-----------------------------------------------------------------------------
LEMMA InitHolds == Init => IInv
<1>. SUFFICES ASSUME Init PROVE IInv
    OBVIOUS
<1>1. ProcsHold
    BY RestedHolds DEF Init, ProcsHold
<1>2. SavedHolds /\ GrantsHold /\ PublishedHold /\ SessionIsApproved /\ edits \in Nat
    BY DEF Init, SavedHolds, GrantsHold, PublishedHold, SessionIsApproved
<1>3. TakingHolds
    BY DEF Init, TakingHolds, NoTaking
<1>. QED
    BY <1>1, <1>2, <1>3 DEF IInv

LEMMA NextHolds ==
    ASSUME IInv, [Next]_vars
    PROVE  IInv'
<1>0. edits' \in {edits, edits + 1} /\ edits \in Nat
    BY DEF Next, Step, Scan, Prepare, Review, Load, Crash, WriteSaved, Check, Copy, Render,
       Rename, Take, TakeStep, TakeCopy, TakeValid, EditSource, EditPublished, user, vars, IInv
<1>1. ASSUME NEW p \in Procs,
             \/ Step(p) \/ Scan(p) \/ Prepare(p) \/ Review(p) \/ Load(p) \/ Crash(p)
      PROVE  IInv'
  <2>1. ProcsHold' /\ GrantsHold' /\ SavedHolds' /\ granted \subseteq granted'
      BY <1>1, StepHolds
  <2>2. CASE Rename(p)
      BY <1>0, <2>1, <2>2, RenamedHolds DEF IInv
  <2>3. CASE UNCHANGED <<published, taking, sessions>>
      BY <1>0, <2>1, <2>3, OthersKeep DEF IInv
  <2>. QED
      BY <1>1, <2>2, <2>3 DEF Step, Scan, Prepare, Review, Load, Crash, WriteSaved, Check, Copy,
         Render, session
<1>2. ASSUME UNCHANGED <<proc, staging, saved, granted>>
      PROVE  ProcsHold' /\ GrantsHold' /\ SavedHolds'
    BY <1>2 DEF IInv, ProcsHold, GrantsHold, SavedHolds
<1>3. CASE Take \/ TakeStep
  <2>1. UNCHANGED <<proc, staging, saved, granted>>
      BY <1>3 DEF Take, TakeStep, TakeCopy, TakeValid
  <2>. QED
      BY <1>0, <1>2, <1>3, <2>1, TakeHolds DEF IInv
<1>4. CASE EditPublished
  <2>1. UNCHANGED <<proc, staging, saved, granted>>
      BY <1>4 DEF EditPublished
  <2>. QED
      BY <1>0, <1>2, <1>4, <2>1, EditedHolds DEF IInv
<1>5. CASE EditSource \/ UNCHANGED vars
    BY <1>0, <1>2, <1>5, OthersKeep DEF EditSource, vars, session, IInv
<1>. QED
    BY <1>1, <1>3, <1>4, <1>5 DEF Next

LEMMA Invariant == Spec => []IInv
BY InitHolds, NextHolds, PTL DEF Spec

\* Until its user edits the list, a published directory lists exactly what was approved for
\* its pack (service.py, exporter.py), for any sources, processes and edits between any two
\* of their reads.
THEOREM PublishedAsApproved == Spec => []PublishedIsApproved
<1>1. IInv => PublishedIsApproved
    BY DocumentsApart DEF IInv, GrantsHold, PublishedHold, Exported, Lists, PublishedIsApproved
<1>. QED
    BY <1>1, Invariant, PTL

\* Nothing secret-bearing or claimed by two contents is listed by an export (policy.py), for
\* any estate and any destinations.
THEOREM BlockedStays == Spec => []NothingBlockedLeaves
<1>1. ASSUME IInv, NEW d \in published, ~ d.resummed, NEW s \in Sources,
             Dest[s] \in DOMAIN d.sums
      PROVE  d.sums[Dest[s]] \notin Secret /\ d.name.scan[s] = d.sums[Dest[s]]
  <2>1. PICK a \in granted : a.pack = d.name /\ d.sums = WithDocuments(Ordered(a))
      BY <1>1 DEF IInv, PublishedHold, Exported, Lists
  <2>2. CleanApproval(a)
      BY <1>1 DEF IInv, GrantsHold
  <2>3. Dest[s] \in DOMAIN Ordered(a)
    <3>1. Dest[s] \notin Documents
        BY BuildPackConstants DEF Dests
    <3>. QED
        BY <1>1, <2>1, <3>1 DEF WithDocuments
  <2>4. d.sums[Dest[s]] = Ordered(a)[Dest[s]]
      BY <2>1, <2>2, <2>3, DocumentsApart
  <2>5. PICK t \in DOMAIN a.assets : Dest[t] = Dest[s] /\ Ordered(a)[Dest[s]] = a.assets[t]
      BY <2>3 DEF Ordered
  <2>. QED
      BY <2>1, <2>2, <2>4, <2>5 DEF CleanApproval, Clean
<1>2. IInv => NothingBlockedLeaves
    BY <1>1 DEF NothingBlockedLeaves
<1>. QED
    BY <1>2, Invariant, PTL

\* A session's workspace holds all that its checksums list, and they list what was approved
\* for its pack unless the user edited them in the export (service.py of the supervisor,
\* create_session), whatever else is edited while it is taken, by any number of edits.
THEOREM SessionsAsApproved == Spec => []SessionIsApproved
BY Invariant, PTL DEF IInv

(* Every directory keeps its name, and its files and checksums if the     *)
(* user's edits do not change them.                                       *)
LEMMA DirectoriesKept ==
    ASSUME IInv, [Next]_vars
    PROVE  \A d \in published : \E e \in published' :
              /\ e.name = d.name /\ e.suffix = d.suffix
              /\ edits' = edits => e.files = d.files /\ e.sums = d.sums
<1>1. CASE published \subseteq published'
    BY <1>1
<1>2. CASE EditPublished
  <2>1. PICK d \in published, e \in published' :
            /\ published' = (published \ {d}) \cup {e}
            /\ e = [name |-> d.name, suffix |-> d.suffix, files |-> e.files, sums |-> e.sums,
                    resummed |-> e.resummed]
      BY <1>2, EditedOne
  <2>2. e.name = d.name /\ e.suffix = d.suffix
      BY <2>1
  <2>3. edits' # edits
      BY <1>2 DEF EditPublished, IInv
  <2>. QED
      BY <2>1, <2>2, <2>3
<1>3. ASSUME NEW p \in Procs, Rename(p) PROVE published \subseteq published'
    BY <1>3 DEF Rename
<1>. QED
    BY <1>1, <1>2, <1>3 DEF Next, Step, Scan, Prepare, Review, Load, Crash, WriteSaved,
       Check, Copy, Render, Take, TakeStep, TakeCopy, TakeValid, EditSource, vars

\* No export replaces another, and only its owner's edits change a directory's files and
\* checksums (exporter.py, _final_directory), for any number of exports at a time.
THEOREM ExportsStay == Spec => NothingReplaced
<1>. DEFINE Kept == \A d \in published : \E e \in published' :
                       /\ e.name = d.name /\ e.suffix = d.suffix
                       /\ edits' = edits => e.files = d.files /\ e.sums = d.sums
<1>1. IInv /\ [Next]_vars => [Kept]_vars
    BY DirectoriesKept
<1>. QED
    BY <1>1, Invariant, PTL DEF Spec, NothingReplaced

-----------------------------------------------------------------------------
(* Types.  What keeps the suffix of a rename within bounds is that every  *)
(* smaller one is some published directory's, and those are bounded.      *)
Ready(b) ==
    /\ IsPack(b)
    /\ \A s \in DOMAIN b.assets : b.assets[s].class # "blocked" => b.assets[s].sha \in Contents

Typed(r) ==
    /\ r.pc \in PCs /\ r.scan \in [Sources -> Hashes]
    /\ r.pack = NoPack \/ IsPack(r.pack)
    /\ r.approval = NoApproval \/ IsApproval(r.approval)
    /\ r.suffix \in 1 .. MaxPublished + 1
    /\ r.pc \in {"write pack", "review"} \cup Approving => Ready(r.pack)
    /\ r.pc # "rename" => r.suffix = 1

StagedTyped(st) == st = NoStaging \/ IsDir(st)

Has(ds, name, suffix) == \E d \in ds : d.name = name /\ d.suffix = suffix

(* The suffixes an export has tried are taken.                            *)
Tried(r, ds) == \A i \in 1 .. r.suffix - 1 : Has(ds, r.pack, i)

DiskTyped == disk \in [Sources -> Hashes] /\ licence \in Licences /\ edits \in 0 .. MaxEdits

SavedTyped ==
    /\ saved.pack \in {NoPack, Torn} \/ Ready(saved.pack)
    /\ saved.approval \in {NoApproval, Torn} \/ IsApproval(saved.approval)

ProcsTyped ==
    \A p \in Procs : Typed(proc[p]) /\ StagedTyped(staging[p]) /\ Tried(proc[p], published)

GrantsTyped == \A a \in granted : IsApproval(a)

DirTyped(d) ==
    IsPack(d.name) /\ IsDir(d.files) /\ IsDir(d.sums) /\ d.resummed \in BOOLEAN

PublishedTyped ==
    /\ IsFiniteSet(published) /\ Cardinality(published) <= MaxPublished
    /\ \A d \in published : DirTyped(d)

TakingTyped ==
    /\ taking.pc \in {"none", "copy", "validate"} /\ IsDir(taking.files) /\ IsDir(taking.sums)
    /\ taking.pc # "none" => /\ IsPack(taking.name)
                             /\ Has(published, taking.name, taking.suffix)

SessionsTyped == \A w \in sessions : IsPack(w.pack) /\ IsDir(w.assets) /\ IsDir(w.sums)

TInv ==
    /\ DiskTyped /\ SavedTyped /\ ProcsTyped /\ GrantsTyped
    /\ PublishedTyped /\ TakingTyped /\ SessionsTyped

(* classify_assets and compose_build_pack.                                *)
LEMMA PackReady ==
    ASSUME NEW scan \in [Sources -> Hashes], licence \in Licences
    PROVE  Ready(PackOf(scan))
<1>. DEFINE c == Classify(scan)
<1>1. \A s \in Sources : Hash(scan, s) \in Hashes /\ Verdict(scan, s) \in Classes
    BY DEF Hash, Hashes, Verdict, Classes
<1>2. DOMAIN c \subseteq Sources
    BY DEF Classify
<1>3. ASSUME NEW s \in DOMAIN c
      PROVE  /\ c[s] \in [sha : Hashes, class : Classes]
             /\ c[s].class # "blocked" => c[s].sha \in Contents
  <2>1. /\ c[s].sha = Hash(scan, s)
        /\ c[s].class \in {"blocked", Verdict(scan, s)}
        /\ c[s] \in [sha : {c[s].sha}, class : {c[s].class}]
      BY <1>3 DEF Classify
  <2>2. c[s].sha \in Hashes /\ c[s].class \in Classes
      BY <1>1, <1>2, <2>1 DEF Classes
  <2>3. ASSUME c[s].class # "blocked" PROVE c[s].sha \in Contents
    <3>1. Verdict(scan, s) # "blocked"
        BY <2>1, <2>3
    <3>2. scan[s] # Absent /\ scan[s] \notin Secret
        BY <3>1 DEF Verdict
    <3>. QED
        BY <1>2, <2>1, <3>2 DEF Hash, Hashes
  <2>. HIDE DEF c
  <2>. QED
      BY <2>1, <2>2, <2>3
<1>4. PackOf(scan).scan = scan /\ PackOf(scan).licence = licence /\ PackOf(scan).assets = c
    BY DEF PackOf
<1>. HIDE DEF c
<1>. QED
    BY <1>2, <1>3, <1>4 DEF Ready, IsPack

(* approve.                                                               *)
LEMMA ApprovalTyped ==
    ASSUME NEW pack, Ready(pack), NEW chosen \in SUBSET Sources,
           NEW acknowledged \in BOOLEAN, Approvable(pack, chosen, acknowledged)
    PROVE  IsApproval(Approval(pack, chosen))
BY DEF Ready, Approvable, Approval, IsApproval

(* What is staged of an approval: the assets, then the documents too.     *)
LEMMA OrderedDir ==
    ASSUME NEW a, IsApproval(a)
    PROVE  IsDir(Ordered(a)) /\ IsDir(WithDocuments(Ordered(a)))
<1>1. /\ DOMAIN a.assets \subseteq Sources
      /\ \A s \in DOMAIN a.assets : a.assets[s] \in Contents
    BY DEF IsApproval, IsPack
<1>2. DOMAIN Ordered(a) = {Dest[s] : s \in DOMAIN a.assets}
    BY DEF Ordered
<1>3. ASSUME NEW f \in DOMAIN Ordered(a) PROVE Ordered(a)[f] \in Contents
  <2>1. PICK s \in DOMAIN a.assets : f = Dest[s]
      BY <1>2
  <2>. DEFINE t == CHOOSE t \in DOMAIN a.assets : Dest[t] = f
  <2>2. t \in DOMAIN a.assets
      BY <2>1
  <2>3. Ordered(a)[f] = a.assets[t]
      BY <1>2 DEF Ordered
  <2>. QED
      BY <1>1, <2>2, <2>3
<1>4. DOMAIN Ordered(a) \subseteq Dests
    BY <1>1, <1>2 DEF Dests
<1>. DEFINE o == Ordered(a)
<1>. HIDE DEF o
<1>5. /\ DOMAIN WithDocuments(o) = DOMAIN o \cup Documents
      /\ \A f \in DOMAIN o \cup Documents :
            WithDocuments(o)[f] \in {o[f] : g \in {f} \cap DOMAIN o} \cup {Rendered}
    BY DEF WithDocuments
<1>. QED
    BY <1>3, <1>4, <1>5 DEF IsDir, o

LEMMA EmptyDirTyped == IsDir(EmptyDir)
BY DEF IsDir, EmptyDir

(* Nothing has been tried at first.                                       *)
LEMMA FirstTried ==
    ASSUME NEW r, r.suffix = 1, NEW ds
    PROVE  Tried(r, ds)
BY DEF Tried

(* A process at rest.                                                     *)
LEMMA RestedTyped ==
    ASSUME NEW p \in Procs, Typed(proc[p]), NEW ds
    PROVE  /\ Typed(Idle) /\ Tried(Idle, ds)
           /\ Typed(Rested(p)) /\ Tried(Rested(p), ds)
           /\ \A c \in [Sources -> Hashes] :
                 LET r == [Idle EXCEPT !.pc = "scanned", !.scan = c]
                 IN  Typed(r) /\ Tried(r, ds)
<1>0. Unread \in [Sources -> Hashes] /\ 1 \in 1 .. MaxPublished + 1
    BY BuildPackConstants DEF Unread, Hashes
<1>1. ASSUME NEW r, r.pc \in {"idle", "scanned"}, r.scan \in [Sources -> Hashes],
             r.pack = NoPack, r.approval = NoApproval, r.suffix = 1
      PROVE  Typed(r) /\ Tried(r, ds)
    BY <1>0, <1>1, FirstTried DEF Typed, PCs, Approving
<1>2. Typed(Idle) /\ Tried(Idle, ds)
    BY <1>0, <1>1 DEF Idle
<1>3. ASSUME NEW c \in [Sources -> Hashes], NEW r,
             r = [Idle EXCEPT !.pc = "scanned", !.scan = c]
      PROVE  Typed(r) /\ Tried(r, ds)
  <2>1. /\ r.pc = "scanned" /\ r.scan = c /\ r.pack = NoPack
        /\ r.approval = NoApproval /\ r.suffix = 1
      BY <1>3 DEF Idle
  <2>. QED
      BY <1>1, <2>1
<1>4. Typed(Rested(p)) /\ Tried(Rested(p), ds)
    BY <1>2, <1>3 DEF Rested, Typed
<1>. QED
    BY <1>2, <1>3, <1>4

(* Each suffix tried is another directory's.                              *)
LEMMA SuffixBound ==
    ASSUME NEW ds, IsFiniteSet(ds), Cardinality(ds) <= MaxPublished, NEW name, NEW k \in Nat,
           \A i \in 1 .. k : Has(ds, name, i)
    PROVE  k <= MaxPublished
<1>. DEFINE f == [i \in 1 .. k |-> CHOOSE d \in ds : d.name = name /\ d.suffix = i]
<1>1. \A i \in 1 .. k : f[i] \in ds /\ f[i].suffix = i
    BY DEF Has
<1>2. f \in [1 .. k -> ds]
    BY <1>1
<1>3. \A i, j \in 1 .. k : f[i] = f[j] => i = j
    BY <1>1
<1>. HIDE DEF f
<1>4. f \in Injection(1 .. k, ds)
    BY <1>2, <1>3 DEF Injection, IsInjective
<1>5. Cardinality(1 .. k) <= Cardinality(ds)
    BY <1>4, FS_Injection
<1>6. Cardinality(1 .. k) = k
    BY FS_Interval
<1>7. Cardinality(ds) \in Nat /\ MaxPublished \in Nat
    BY FS_CardinalityType, BuildPackConstants
<1>. QED
    BY <1>5, <1>6, <1>7

(* Another directory, or one with other files.                            *)
LEMMA OneMore ==
    ASSUME NEW ds, IsFiniteSet(ds), NEW n \in Nat, Cardinality(ds) < n, NEW d
    PROVE  IsFiniteSet(ds \cup {d}) /\ Cardinality(ds \cup {d}) <= n
<1>1. /\ IsFiniteSet(ds \cup {d})
      /\ Cardinality(ds \cup {d}) = IF d \in ds THEN Cardinality(ds) ELSE Cardinality(ds) + 1
    BY FS_AddElement
<1>2. Cardinality(ds) \in Nat
    BY FS_CardinalityType
<1>. QED
    BY <1>1, <1>2

LEMMA OneOther ==
    ASSUME NEW ds, IsFiniteSet(ds), NEW n \in Nat, Cardinality(ds) <= n, NEW d \in ds, NEW e
    PROVE  IsFiniteSet((ds \ {d}) \cup {e}) /\ Cardinality((ds \ {d}) \cup {e}) <= n
<1>1. IsFiniteSet(ds \ {d}) /\ Cardinality(ds \ {d}) = Cardinality(ds) - 1
    BY FS_RemoveElement
<1>2. Cardinality(ds) \in Nat
    BY FS_CardinalityType
<1>3. Cardinality(ds \ {d}) < n
    BY <1>1, <1>2
<1>. DEFINE rest == ds \ {d}
<1>4. IsFiniteSet(rest) /\ Cardinality(rest) < n
    BY <1>1, <1>3
<1>. HIDE DEF rest
<1>5. IsFiniteSet(rest \cup {e}) /\ Cardinality(rest \cup {e}) <= n
    BY <1>4, OneMore
<1>. QED
    BY <1>5 DEF rest

(* The names that are taken stay taken.                                   *)
LEMMA NamesStay ==
    ASSUME IInv, [Next]_vars
    PROVE  \A n, i : Has(published, n, i) => Has(published', n, i)
BY DirectoriesKept DEF Has

(* One process moves on.                                                  *)
LEMMA MoveTyped ==
    ASSUME IInv, ProcsTyped, NEW p \in Procs, NEW r, Move(p, r), Typed(r),
           NEW st, staging' = [staging EXCEPT ![p] = st], StagedTyped(st),
           Tried(r, published'),
           \A n, i : Has(published, n, i) => Has(published', n, i)
    PROVE  ProcsTyped'
<1>1. /\ proc'[p] = r /\ staging'[p] = st
      /\ \A q \in Procs \ {p} : proc'[q] = proc[q] /\ staging'[q] = staging[q]
    BY DEF IInv, ProcsHold, Move
<1>2. ASSUME NEW q \in Procs
      PROVE  Typed(proc'[q]) /\ StagedTyped(staging'[q]) /\ Tried(proc'[q], published')
  <2>1. CASE q = p
      BY <1>1, <2>1
  <2>2. CASE q # p
    <3>1. Typed(proc[q]) /\ StagedTyped(staging[q]) /\ Tried(proc[q], published)
        BY DEF ProcsTyped
    <3>2. Tried(proc[q], published')
        BY <3>1 DEF Tried
    <3>. QED
        BY <1>1, <2>2, <3>1, <3>2
  <2>. QED
      BY <2>1, <2>2
<1>. QED
    BY <1>2 DEF ProcsTyped

LEMMA MoveOnlyTyped ==
    ASSUME IInv, ProcsTyped, NEW p \in Procs, NEW r, Move(p, r), Typed(r), UNCHANGED staging,
           Tried(r, published'),
           \A n, i : Has(published, n, i) => Has(published', n, i)
    PROVE  ProcsTyped'
<1>1. staging' = [staging EXCEPT ![p] = staging[p]] /\ StagedTyped(staging[p])
    BY DEF IInv, ProcsHold, ProcsTyped
<1>. QED
    BY <1>1, MoveTyped

(* ... to its next step, with what it holds.                              *)
LEMMA GotoTyped ==
    ASSUME NEW r, Whole(r), Typed(r), NEW ds, NEW pc \in PCs, r.pc # "rename",
           pc \in {"write pack", "review"} \cup Approving => Ready(r.pack)
    PROVE  Typed([r EXCEPT !.pc = pc]) /\ Tried([r EXCEPT !.pc = pc], ds)
<1>. DEFINE new == [r EXCEPT !.pc = pc]
<1>1. /\ new.pc = pc /\ new.scan = r.scan /\ new.pack = r.pack
      /\ new.approval = r.approval /\ new.suffix = r.suffix
    BY DEF Whole
<1>. HIDE DEF new
<1>2. r.suffix = 1
    BY DEF Typed
<1>3. Typed(new) /\ Tried(new, ds)
    BY <1>1, <1>2, FirstTried DEF Typed
<1>. QED
    BY <1>3 DEF new

-----------------------------------------------------------------------------
(* The processes, one action at a time; what a process does to the files  *)
(* of a command line, to the approvals and to the directories as well.    *)
LEMMA StepTyped ==
    ASSUME IInv, TInv, [Next]_vars, NEW p \in Procs,
           \/ Step(p) \/ Scan(p) \/ Prepare(p) \/ Review(p) \/ Load(p) \/ Crash(p)
    PROVE  ProcsTyped' /\ GrantsTyped' /\ SavedTyped'
<1>. DEFINE r == proc[p]
<1>0. /\ ProcsTyped /\ GrantsTyped /\ SavedTyped /\ Typed(r) /\ StagedTyped(staging[p])
      /\ Tried(r, published) /\ Whole(r) /\ Holds(r, staging[p], granted)
      /\ \A n, i : Has(published, n, i) => Has(published', n, i)
    BY NamesStay DEF TInv, ProcsTyped, IInv, ProcsHold, Holds
<1>a. r.pc \in Approving => IsApproval(r.approval)
    BY <1>0 DEF Holds, GrantsTyped
<1>r. /\ Typed(Idle) /\ Tried(Idle, published')
      /\ Typed(Rested(p)) /\ Tried(Rested(p), published')
    BY <1>0, RestedTyped
<1>e. StagedTyped(NoStaging)
    BY DEF StagedTyped
<1>d. disk \in [Sources -> Hashes] /\ licence \in Licences
    BY DEF TInv, DiskTyped
<1>. HIDE DEF r
<1>1. CASE Scan(p)
  <2>. DEFINE new == [Idle EXCEPT !.pc = "scanned", !.scan = disk]
  <2>1. Typed(new) /\ Tried(new, published')
      BY <1>0, <1>d, RestedTyped DEF r
  <2>2. Move(p, new) /\ UNCHANGED <<saved, staging, granted>>
      BY <1>1 DEF Scan
  <2>. HIDE DEF new
  <2>3. ProcsTyped'
      BY <1>0, <2>1, <2>2, MoveOnlyTyped
  <2>. QED
      BY <1>0, <2>2, <2>3 DEF GrantsTyped, SavedTyped
<1>2. CASE Crash(p)
  <2>1. Move(p, Idle) /\ staging' = [staging EXCEPT ![p] = NoStaging]
        /\ UNCHANGED <<saved, granted>>
      BY <1>2 DEF Crash
  <2>2. ProcsTyped'
      BY <1>0, <1>r, <1>e, <2>1, MoveTyped
  <2>. QED
      BY <1>0, <2>1, <2>2 DEF GrantsTyped, SavedTyped
<1>3. CASE Prepare(p)
  <2>. DEFINE new == IF p \in Windows
                     THEN [r EXCEPT !.pc = "review", !.pack = PackOf(r.scan)]
                     ELSE [Idle EXCEPT !.pc = "write pack", !.pack = PackOf(r.scan)]
  <2>1. Move(p, new) /\ UNCHANGED <<saved, staging, granted>> /\ r.pc = "scanned"
      BY <1>3 DEF Prepare, At, r
  <2>2. r.suffix = 1 /\ r.scan \in [Sources -> Hashes]
      BY <1>0, <2>1 DEF Typed
  <2>3. /\ new.pc \in {"review", "write pack"} /\ new.scan \in {r.scan, Unread}
        /\ new.pack = PackOf(r.scan) /\ new.approval \in {r.approval, NoApproval}
        /\ new.suffix = 1
      BY <1>0, <2>2 DEF Whole, Idle
  <2>. HIDE DEF new
  <2>4. Ready(PackOf(r.scan)) /\ Unread \in [Sources -> Hashes]
        /\ 1 \in 1 .. MaxPublished + 1
      BY <1>d, <2>2, PackReady, BuildPackConstants DEF Unread, Hashes
  <2>5. Typed(new)
      BY <1>0, <2>3, <2>4 DEF Typed, PCs, Ready
  <2>6. ProcsTyped'
      BY <1>0, <2>1, <2>3, <2>5, FirstTried, MoveOnlyTyped
  <2>. QED
      BY <1>0, <2>1, <2>6 DEF GrantsTyped, SavedTyped
<1>4. CASE Review(p)
  <2>1. CASE Move(p, Rested(p)) /\ UNCHANGED granted
    <3>1. UNCHANGED <<saved, staging, granted>>
        BY <1>4, <2>1 DEF Review
    <3>2. ProcsTyped'
        BY <1>0, <1>r, <2>1, <3>1, MoveOnlyTyped
    <3>. QED
        BY <1>0, <3>1, <3>2 DEF GrantsTyped, SavedTyped
  <2>2. ASSUME NEW chosen \in SUBSET Sources, NEW acknowledged \in BOOLEAN,
               Approvable(r.pack, chosen, acknowledged),
               granted' = granted \cup {Approval(r.pack, chosen)},
               Move(p, [r EXCEPT !.pc = IF p \in Windows THEN "check" ELSE "write approval",
                                 !.approval = Approval(r.pack, chosen)]),
               UNCHANGED <<saved, staging>>
        PROVE  ProcsTyped' /\ GrantsTyped' /\ SavedTyped'
    <3>. DEFINE a == Approval(r.pack, chosen)
                new == [r EXCEPT !.pc = IF p \in Windows THEN "check" ELSE "write approval",
                                 !.approval = a]
    <3>1. Ready(r.pack) /\ r.suffix = 1
        BY <1>0, <1>4 DEF Typed, Review, At, r
    <3>2. IsApproval(a)
        BY <2>2, <3>1, ApprovalTyped
    <3>. HIDE DEF a
    <3>3. /\ new.pc \in {"check", "write approval"} /\ new.scan = r.scan
          /\ new.pack = r.pack /\ new.approval = a /\ new.suffix = 1
        BY <1>0, <3>1 DEF Whole
    <3>4. Move(p, new) /\ granted' = granted \cup {a}
        BY <2>2 DEF a
    <3>. HIDE DEF new
    <3>5. Typed(new)
        BY <1>0, <3>1, <3>2, <3>3 DEF Typed, PCs
    <3>6. ProcsTyped'
        BY <1>0, <2>2, <3>3, <3>4, <3>5, FirstTried, MoveOnlyTyped
    <3>. QED
        BY <1>0, <2>2, <3>2, <3>4, <3>6 DEF GrantsTyped, SavedTyped
  <2>. QED
      BY <1>4, <2>1, <2>2, BuildPackConstants DEF Review, r
<1>5. CASE Load(p)
  <2>. DEFINE new == [Idle EXCEPT !.pc = "check", !.pack = saved.pack,
                                  !.approval = saved.approval]
  <2>1. Ready(saved.pack) /\ IsApproval(saved.approval)
      BY <1>0, <1>5 DEF Load, SavedTyped
  <2>2. /\ new.pc = "check" /\ new.scan = Unread /\ new.pack = saved.pack
        /\ new.approval = saved.approval /\ new.suffix = 1
      BY DEF Idle
  <2>3. Move(p, new) /\ UNCHANGED <<saved, staging, granted>>
      BY <1>5 DEF Load
  <2>. HIDE DEF new
  <2>4. Unread \in [Sources -> Hashes] /\ 1 \in 1 .. MaxPublished + 1
      BY BuildPackConstants DEF Unread, Hashes
  <2>5. Typed(new)
      BY <2>1, <2>2, <2>4 DEF Typed, PCs, Ready
  <2>6. ProcsTyped'
      BY <1>0, <2>2, <2>3, <2>5, FirstTried, MoveOnlyTyped
  <2>. QED
      BY <1>0, <2>3, <2>6 DEF GrantsTyped, SavedTyped
<1>6. CASE WriteSaved(p)
  <2>0. UNCHANGED <<staging, granted>> /\ r.pc \in {"write pack", "write approval"}
      BY <1>6 DEF WriteSaved, At, r
  <2>1. SavedTyped'
    <3>1. CASE r.pc = "write pack"
      <4>1. saved' \in {[saved EXCEPT !.pack = r.pack], [saved EXCEPT !.pack = Torn]}
          BY <1>6, <3>1 DEF WriteSaved, At, r
      <4>2. /\ saved'.pack \in {r.pack, Torn} /\ saved'.approval = saved.approval
            /\ Ready(r.pack)
          BY <1>0, <3>1, <4>1 DEF IInv, SavedHolds, Typed
      <4>. QED
          BY <1>0, <4>2 DEF SavedTyped
    <3>2. CASE r.pc = "write approval"
      <4>1. saved' \in {[saved EXCEPT !.approval = r.approval],
                        [saved EXCEPT !.approval = Torn]}
          BY <1>6, <3>2 DEF WriteSaved, At, r
      <4>2. /\ saved'.approval \in {r.approval, Torn} /\ saved'.pack = saved.pack
            /\ IsApproval(r.approval)
          BY <1>a, <3>2, <4>1 DEF IInv, SavedHolds, Approving
      <4>. QED
          BY <1>0, <4>2 DEF SavedTyped
    <3>. QED
        BY <2>0, <3>1, <3>2
  <2>2. CASE Goto(p, "review") /\ r.pc = "write pack"
    <3>. DEFINE new == [r EXCEPT !.pc = "review"]
    <3>1. Typed(new) /\ Tried(new, published')
        BY <1>0, <2>2, GotoTyped DEF Typed, PCs, Approving
    <3>2. Move(p, new)
        BY <2>2 DEF Goto, r
    <3>. HIDE DEF new
    <3>3. ProcsTyped'
        BY <1>0, <2>0, <3>1, <3>2, MoveOnlyTyped
    <3>. QED
        BY <1>0, <2>0, <2>1, <3>3 DEF GrantsTyped
  <2>3. CASE Move(p, Idle)
    <3>1. ProcsTyped'
        BY <1>0, <1>r, <2>0, <2>3, MoveOnlyTyped
    <3>. QED
        BY <1>0, <2>0, <2>1, <3>1 DEF GrantsTyped
  <2>. QED
      BY <1>6, <2>2, <2>3 DEF WriteSaved, At, r
<1>f. CASE End(p) /\ UNCHANGED <<saved, granted>>
  <2>1. ProcsTyped'
      BY <1>0, <1>r, <1>e, <1>f, MoveTyped DEF End
  <2>. QED
      BY <1>0, <1>f, <2>1 DEF GrantsTyped, SavedTyped
<1>7. CASE Check(p) \/ Copy(p) \/ Render(p)
  <2>1. UNCHANGED <<saved, granted>> /\ r.pc \in {"check", "copy", "render"}
      BY <1>7 DEF Check, Copy, Render, At, r
  <2>2. ASSUME NEW pc \in Exporting, NEW st, Goto(p, pc),
               staging' = [staging EXCEPT ![p] = st], IsDir(st)
        PROVE  ProcsTyped' /\ GrantsTyped' /\ SavedTyped'
    <3>. DEFINE new == [r EXCEPT !.pc = pc]
    <3>1. pc \in PCs /\ r.pc # "rename" /\ Ready(r.pack)
        BY <1>0, <2>1 DEF Exporting, PCs, Typed, Approving
    <3>2. Typed(new) /\ Tried(new, published')
        BY <1>0, <3>1, GotoTyped
    <3>3. Move(p, new)
        BY <2>2 DEF Goto, r
    <3>. HIDE DEF new
    <3>4. ProcsTyped'
        BY <1>0, <2>2, <3>2, <3>3, MoveTyped DEF StagedTyped
    <3>. QED
        BY <1>0, <2>1, <3>4 DEF GrantsTyped, SavedTyped
  <2>3. IsApproval(r.approval)
      BY <1>a, <2>1 DEF Approving
  <2>4. CASE Check(p) /\ ~ End(p)
      BY <2>2, <2>4, EmptyDirTyped DEF Check, Exporting
  <2>5. CASE Copy(p) /\ ~ End(p)
    <3>1. Copied(p) = Ordered(r.approval)
        BY <2>5, CopiedOrdered DEF Copy, r
    <3>. QED
        BY <2>2, <2>3, <2>5, <3>1, OrderedDir DEF Copy, Exporting
  <2>6. CASE Render(p) /\ ~ End(p)
    <3>1. staging[p] = Ordered(r.approval)
        BY <1>0, <2>6 DEF Render, At, Holds, r
    <3>. QED
        BY <2>2, <2>3, <2>6, <3>1, OrderedDir DEF Render, Exporting
  <2>. QED
      BY <1>7, <1>f, <2>1, <2>4, <2>5, <2>6
<1>8. CASE Rename(p)
  <2>1. UNCHANGED <<saved, granted>> /\ r.pc = "rename"
      BY <1>8 DEF Rename, At, r
  <2>2. CASE /\ Named(r.pack, r.suffix) # {} /\ UNCHANGED <<staging, published>>
             /\ Move(p, [r EXCEPT !.suffix = @ + 1])
    <3>. DEFINE new == [r EXCEPT !.suffix = @ + 1]
    <3>1. /\ new.pc = r.pc /\ new.scan = r.scan /\ new.pack = r.pack
          /\ new.approval = r.approval /\ new.suffix = r.suffix + 1
        BY <1>0 DEF Whole
    <3>. HIDE DEF new
    <3>2. Has(published, r.pack, r.suffix) /\ r.suffix \in 1 .. MaxPublished + 1
        BY <1>0, <2>2 DEF Named, Has, Typed
    <3>3. MaxPublished \in Nat
        BY BuildPackConstants
    <3>4. \A i \in 1 .. r.suffix : Has(published, r.pack, i)
        BY <1>0, <3>2, <3>3 DEF Tried
    <3>5. r.suffix <= MaxPublished
        BY <3>2, <3>3, <3>4, SuffixBound DEF TInv, PublishedTyped
    <3>6. new.suffix \in 1 .. MaxPublished + 1
        BY <3>1, <3>2, <3>3, <3>5
    <3>7. Typed(new)
        BY <1>0, <2>1, <3>1, <3>6 DEF Typed
    <3>8. new.suffix - 1 = r.suffix
        BY <3>1, <3>2, <3>3
    <3>9. Tried(new, published')
        BY <1>0, <3>1, <3>4, <3>8 DEF Tried
    <3>10. ProcsTyped'
        BY <1>0, <2>2, <3>7, <3>9, MoveOnlyTyped DEF new
    <3>. QED
        BY <1>0, <2>1, <3>10 DEF GrantsTyped, SavedTyped
  <2>. QED
      BY <1>8, <1>f, <2>1, <2>2 DEF Rename, r
<1>. QED
    BY <1>1, <1>2, <1>3, <1>4, <1>5, <1>6, <1>7, <1>8 DEF Step

-----------------------------------------------------------------------------
(* Directories and sessions.                                              *)
LEMMA OthersTyped ==
    ASSUME TInv, UNCHANGED <<published, taking, sessions>>
    PROVE  PublishedTyped' /\ TakingTyped' /\ SessionsTyped'
BY DEF TInv, PublishedTyped, TakingTyped, SessionsTyped

LEMMA RenamedTyped ==
    ASSUME IInv, TInv, [Next]_vars, NEW p \in Procs, Rename(p)
    PROVE  PublishedTyped' /\ TakingTyped' /\ SessionsTyped'
<1>1. taking' = taking /\ sessions' = sessions
    BY DEF Rename, session
<1>2. CASE UNCHANGED published
    BY <1>1, <1>2, OthersTyped
<1>. DEFINE d == [name |-> proc[p].pack, suffix |-> proc[p].suffix,
                  files |-> staging[p], sums |-> staging[p], resummed |-> FALSE]
<1>3. CASE published' = published \cup {d} /\ Cardinality(published) < MaxPublished
  <2>1. /\ IsPack(proc[p].pack) /\ proc[p].approval \in granted
        /\ staging[p] = WithDocuments(Ordered(proc[p].approval))
      BY DEF Rename, At, TInv, ProcsTyped, Typed, Ready, IInv, ProcsHold, Holds, Approving,
         Exporting
  <2>2. IsDir(staging[p])
      BY <2>1, OrderedDir DEF TInv, GrantsTyped
  <2>3. DirTyped(d)
      BY <2>1, <2>2 DEF DirTyped
  <2>4. IsFiniteSet(published) /\ MaxPublished \in Nat
      BY BuildPackConstants DEF TInv, PublishedTyped
  <2>. HIDE DEF d
  <2>5. IsFiniteSet(published') /\ Cardinality(published') <= MaxPublished
      BY <1>3, <2>4, OneMore
  <2>6. PublishedTyped'
      BY <1>3, <2>3, <2>5 DEF TInv, PublishedTyped
  <2>7. TakingTyped' /\ SessionsTyped'
      BY <1>1, NamesStay DEF TInv, TakingTyped, SessionsTyped
  <2>. QED
      BY <2>6, <2>7
<1>. QED
    BY <1>2, <1>3 DEF Rename

LEMMA EditedDir ==
    ASSUME NEW files, IsDir(files), NEW f \in Dests, NEW c \in Contents \cup {Absent}
    PROVE  IsDir(Edited(files, f, c))
<1>1. CASE c = Absent
    BY <1>1 DEF Edited, Restrict, IsDir
<1>2. CASE c # Absent
  <2>. DEFINE more == [g \in DOMAIN files \cup {f} |-> IF g = f THEN c ELSE files[g]]
  <2>1. Edited(files, f, c) = more /\ c \in Contents
      BY <1>2 DEF Edited
  <2>2. DOMAIN more = DOMAIN files \cup {f}
      OBVIOUS
  <2>3. \A g \in DOMAIN files \cup {f} : more[g] = IF g = f THEN c ELSE files[g]
      OBVIOUS
  <2>. HIDE DEF more
  <2>4. IsDir(more)
      BY <2>1, <2>2, <2>3 DEF IsDir
  <2>. QED
      BY <2>1, <2>4
<1>. QED
    BY <1>1, <1>2

LEMMA EditedTyped ==
    ASSUME IInv, TInv, [Next]_vars, EditPublished
    PROVE  PublishedTyped' /\ TakingTyped' /\ SessionsTyped'
<1>1. taking' = taking /\ sessions' = sessions
    BY DEF EditPublished, session
<1>2. PICK d \in published, f \in Dests, c \in Contents \cup {Absent}, e \in published' :
          /\ published' = (published \ {d}) \cup {e}
          /\ e = [name |-> d.name, suffix |-> d.suffix, files |-> e.files, sums |-> e.sums,
                  resummed |-> e.resummed]
          /\ \/ e.files = Edited(d.files, f, c) /\ e.sums = d.sums /\ e.resummed = d.resummed
             \/ e.files = d.files /\ e.sums = Edited(d.sums, f, c) /\ e.resummed = TRUE
    BY EditedOne
<1>3. DirTyped(d)
    BY DEF TInv, PublishedTyped
<1>4. e.name = d.name
    BY <1>2
<1>5. DirTyped(e)
    BY <1>2, <1>3, <1>4, EditedDir DEF DirTyped
<1>8. /\ IsFiniteSet(published) /\ MaxPublished \in Nat
      /\ Cardinality(published) <= MaxPublished
    BY BuildPackConstants DEF TInv, PublishedTyped
<1>9. IsFiniteSet(published') /\ Cardinality(published') <= MaxPublished
    BY <1>2, <1>8, OneOther
<1>10. PublishedTyped'
    BY <1>2, <1>5, <1>9 DEF TInv, PublishedTyped
<1>. QED
    BY <1>1, <1>10, NamesStay DEF TInv, TakingTyped, SessionsTyped

LEMMA TakeTyped ==
    ASSUME IInv, TInv, Take \/ TakeStep
    PROVE  PublishedTyped' /\ TakingTyped' /\ SessionsTyped'
<1>0. published' = published /\ TakingTyped /\ PublishedTyped /\ SessionsTyped
    BY DEF Take, TakeStep, TakeCopy, TakeValid, TInv
<1>1. PublishedTyped'
    BY <1>0 DEF PublishedTyped
<1>2. CASE Take
  <2>1. PICK d \in published :
            taking' = [pc |-> "copy", name |-> d.name, suffix |-> d.suffix,
                       files |-> EmptyDir, sums |-> EmptyDir, resummed |-> FALSE]
      BY <1>2 DEF Take, NoTaking
  <2>2. DirTyped(d) /\ Has(published, d.name, d.suffix)
      BY <1>0 DEF PublishedTyped, Has
  <2>3. TakingTyped'
      BY <1>0, <2>1, <2>2, EmptyDirTyped DEF TakingTyped, DirTyped
  <2>. QED
      BY <1>0, <1>1, <1>2, <2>3 DEF Take, SessionsTyped
<1>3. CASE TakeCopy
  <2>1. taking' = [pc |-> "validate", name |-> taking.name, suffix |-> taking.suffix,
                   files |-> Taken.files, sums |-> Taken.sums,
                   resummed |-> Taken.resummed]
      BY <1>3 DEF TakeCopy, IInv, TakingHolds
  <2>2. Taken \in published
      BY <1>0, <1>3 DEF TakeCopy, TakingTyped, Has, Taken
  <2>3. IsDir(Taken.files) /\ IsDir(Taken.sums)
      BY <1>0, <2>2 DEF PublishedTyped, DirTyped
  <2>4. TakingTyped'
      BY <1>0, <1>3, <2>1, <2>3 DEF TakeCopy, TakingTyped
  <2>. QED
      BY <1>0, <1>1, <1>3, <2>4 DEF TakeCopy, SessionsTyped
<1>4. CASE TakeValid
  <2>1. TakingTyped'
      BY <1>4, EmptyDirTyped DEF TakeValid, NoTaking, TakingTyped
  <2>2. IsPack(Filled.pack) /\ IsDir(Filled.assets) /\ IsDir(Filled.sums)
    <3>1. IsPack(taking.name) /\ IsDir(taking.files) /\ IsDir(taking.sums)
        BY <1>0, <1>4 DEF TakeValid, TakingTyped
    <3>. QED
        BY <3>1 DEF Filled, Plain, Restrict, IsDir
  <2>3. sessions' \in {sessions, sessions \cup {Filled}}
      BY <1>4 DEF TakeValid
  <2>4. SessionsTyped'
      BY <1>0, <2>2, <2>3 DEF SessionsTyped
  <2>. QED
      BY <1>1, <2>1, <2>4
<1>. QED
    BY <1>2, <1>3, <1>4 DEF TakeStep

-----------------------------------------------------------------------------
LEMMA InitTyped == Init => TInv
<1>. SUFFICES ASSUME Init PROVE TInv
    OBVIOUS
<1>1. DiskTyped
    BY BuildPackConstants DEF Init, DiskTyped, Hashes
<1>2. SavedTyped /\ GrantsTyped /\ SessionsTyped
    BY DEF Init, SavedTyped, GrantsTyped, SessionsTyped
<1>3. ProcsTyped
  <2>1. Unread \in [Sources -> Hashes] /\ 1 \in 1 .. MaxPublished + 1
      BY BuildPackConstants DEF Unread, Hashes
  <2>2. Typed(Idle) /\ Idle.suffix = 1
      BY <2>1 DEF Idle, Typed, PCs, Approving
  <2>3. Tried(Idle, published)
      BY <2>2, FirstTried
  <2>. QED
      BY <2>2, <2>3 DEF Init, ProcsTyped, StagedTyped
<1>4. PublishedTyped
    BY FS_EmptySet, BuildPackConstants DEF Init, PublishedTyped
<1>5. TakingTyped
    BY EmptyDirTyped DEF Init, TakingTyped, NoTaking
<1>. QED
    BY <1>1, <1>2, <1>3, <1>4, <1>5 DEF TInv

LEMMA NextTyped ==
    ASSUME IInv, TInv, [Next]_vars
    PROVE  TInv'
<1>0. DiskTyped'
  <2>1. disk' \in [Sources -> Hashes]
    <3>1. ASSUME NEW s \in Sources, NEW c \in Hashes, disk' = [disk EXCEPT ![s] = c]
          PROVE  disk' \in [Sources -> Hashes]
        BY <3>1 DEF TInv, DiskTyped
    <3>2. CASE EditSource
        BY <3>1, <3>2 DEF EditSource, Hashes
    <3>3. CASE ~ EditSource
        BY <3>3 DEF Next, Step, Scan, Prepare, Review, Load, Crash, WriteSaved, Check, Copy,
           Render, Rename, Take, TakeStep, TakeCopy, TakeValid, EditPublished, user, vars, TInv,
           DiskTyped
    <3>. QED
        BY <3>2, <3>3
  <2>2. licence' = licence /\ (edits' = edits \/ (edits < MaxEdits /\ edits' = edits + 1))
      BY DEF Next, Step, Scan, Prepare, Review, Load, Crash, WriteSaved, Check, Copy, Render,
         Rename, Take, TakeStep, TakeCopy, TakeValid, EditSource, EditPublished, user, vars
  <2>. QED
      BY <2>1, <2>2, BuildPackConstants DEF TInv, DiskTyped
<1>1. ASSUME NEW p \in Procs,
             \/ Step(p) \/ Scan(p) \/ Prepare(p) \/ Review(p) \/ Load(p) \/ Crash(p)
      PROVE  TInv'
  <2>1. ProcsTyped' /\ GrantsTyped' /\ SavedTyped'
      BY <1>1, StepTyped
  <2>2. CASE Rename(p)
      BY <1>0, <2>1, <2>2, RenamedTyped DEF TInv
  <2>3. CASE UNCHANGED <<published, taking, sessions>>
      BY <1>0, <2>1, <2>3, OthersTyped DEF TInv
  <2>. QED
      BY <1>1, <2>2, <2>3 DEF Step, Scan, Prepare, Review, Load, Crash, WriteSaved, Check, Copy,
         Render, session
<1>2. ASSUME UNCHANGED <<proc, staging, saved, granted>>
      PROVE  ProcsTyped' /\ GrantsTyped' /\ SavedTyped'
    BY <1>2, NamesStay DEF TInv, ProcsTyped, GrantsTyped, SavedTyped, Tried
<1>3. CASE Take \/ TakeStep
  <2>1. UNCHANGED <<proc, staging, saved, granted>>
      BY <1>3 DEF Take, TakeStep, TakeCopy, TakeValid
  <2>. QED
      BY <1>0, <1>2, <1>3, <2>1, TakeTyped DEF TInv
<1>4. CASE EditPublished
  <2>1. UNCHANGED <<proc, staging, saved, granted>>
      BY <1>4 DEF EditPublished
  <2>. QED
      BY <1>0, <1>2, <1>4, <2>1, EditedTyped DEF TInv
<1>5. CASE EditSource \/ UNCHANGED vars
  <2>1. UNCHANGED <<proc, staging, saved, granted, published, taking, sessions>>
      BY <1>5 DEF EditSource, vars, session
  <2>. QED
      BY <1>0, <1>2, <2>1, OthersTyped DEF TInv
<1>. QED
    BY <1>1, <1>3, <1>4, <1>5 DEF Next

\* Types: an approved hash is of contents that were read, whatever is staged, published or
\* taken for a session is at approved destinations or a document (policy.py, exporter.py,
\* service.py), and no export tries more suffixes than there are directories
\* (_final_directory).
THEOREM TypeCorrect == Spec => []TypeOK
<1>1. Init => IInv /\ TInv
    BY InitHolds, InitTyped
<1>2. IInv /\ TInv /\ [Next]_vars => (IInv /\ TInv)'
    BY NextHolds, NextTyped
<1>3. IInv /\ TInv => TypeOK
  <2>. SUFFICES ASSUME IInv, TInv PROVE TypeOK
      OBVIOUS
  <2>1. SavedTyped => /\ saved.pack \in {NoPack, Torn} \/ IsPack(saved.pack)
                      /\ saved.approval \in {NoApproval, Torn} \/ IsApproval(saved.approval)
      BY DEF SavedTyped, Ready
  <2>2. \A p \in Procs :
          /\ proc[p].pc \in PCs /\ proc[p].scan \in [Sources -> Hashes]
          /\ proc[p].pack = NoPack \/ IsPack(proc[p].pack)
          /\ proc[p].approval = NoApproval \/ IsApproval(proc[p].approval)
          /\ proc[p].suffix \in 1 .. MaxPublished + 1
          /\ staging[p] = NoStaging \/ IsDir(staging[p])
      BY DEF TInv, ProcsTyped, Typed, StagedTyped
  <2>. QED
      BY <2>1, <2>2 DEF TInv, DiskTyped, GrantsTyped, PublishedTyped, DirTyped, TakingTyped,
         SessionsTyped, TypeOK
<1>. QED
    BY <1>1, <1>2, <1>3, PTL DEF Spec
=============================================================================
