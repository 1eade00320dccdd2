----------------------------- MODULE BuildPack -----------------------------
(***************************************************************************)
(* Build Packs (src/relic_auditor/build_packs): from a scan to a published *)
(* directory, and from there into a supervised session's workspace.        *)
(* Windows hold their scan and do everything in one dialog; command lines  *)
(* hand the pack and the approval from `prepare` to `export` in two files. *)
(* Meanwhile a user edits the scanned sources and published directories.   *)
(*                                                                         *)
(* A step is one pass over a set of files, each read or written once, or   *)
(* one file read or written outside such.  Edits of different files        *)
(* commute, so what a pass finds while the user edits, it finds at one     *)
(* moment of the same edits in another order.                              *)
(*                                                                         *)
(* Abstract: a content stands for its SHA-256, a pack for its id, so two   *)
(* packs with one content are one; the plan text is in Documents.          *)
(* Entitlements are Desktop's and License's.  All sources are text.        *)
(* Bounds: MaxEdits and MaxApprovals of the user, MaxPublished directories, *)
(* MaxSessions sessions.                                                   *)
(***************************************************************************)
EXTENDS Integers, Sequences, FiniteSets, Functions

CONSTANTS Requested,    \* the opportunity's reusable assets, in order
          Dest,         \* the destination of each, up to case and Unicode form
          Contents,     \* what can be in a source,
          Secret,       \* and which of it bears a secret
          Estates,      \* sources and licence files as a user may have them at first
          Selections,   \* what a user may tick: sets of sources
          Documents,    \* what render_build_pack_files writes
          Windows, Commands,
          Absent,       \* no regular file, or no hash
          NoPack, NoApproval, NoStaging, Torn,
          MaxEdits, MaxApprovals, MaxPublished, MaxSessions

Sources == Range(Requested)
Dests == {Dest[s] : s \in Sources}
Procs == Windows \cup Commands
Licences == {"compatible", "unknown", "incompatible"}
Rendered == "rendered"

ASSUME BuildPackConstants ==
    /\ IsInjective(Requested)
    /\ Dests \cap Documents = {}
    /\ Secret \subseteq Contents /\ Absent \notin Contents /\ Rendered \notin Contents
    /\ Estates \subseteq [disk : [Sources -> Contents \cup {Absent}], licence : Licences]
    /\ Selections \subseteq SUBSET Sources
    /\ Windows \cap Commands = {}
    /\ {MaxEdits, MaxApprovals, MaxPublished, MaxSessions} \subseteq Nat

VARIABLES disk,      \* the sources now
          licence,   \* what the licence files beside them allow
          saved,     \* the two files of a command line
          proc,      \* per process: its step and what it holds
          staging,   \* per process: its staging directory
          published, \* exported directories: their names, their files, SHA256SUMS.txt, and
                     \* (for the properties) whether a user has edited that
          granted,   \* approvals given, as the user gave them
          taking,    \* the session being created: its step, directory and private copy
          sessions,  \* sessions created
          edits

vars == <<disk, licence, saved, proc, staging, published, granted, taking, sessions, edits>>
user == <<disk, licence, edits>>
session == <<taking, sessions>>

EmptyDir == [f \in {} |-> Absent]
Unread == [s \in Sources |-> Absent]
Idle == [pc |-> "idle", scan |-> Unread, pack |-> NoPack, approval |-> NoApproval,
         suffix |-> 1]
NoTaking == [pc |-> "none", name |-> NoPack, suffix |-> 1,
             files |-> EmptyDir, sums |-> EmptyDir, resummed |-> FALSE]

Init ==
    /\ \E e \in Estates : disk = e.disk /\ licence = e.licence
    /\ saved = [pack |-> NoPack, approval |-> NoApproval]
    /\ proc = [p \in Procs |-> Idle]
    /\ staging = [p \in Procs |-> NoStaging]
    /\ published = {} /\ granted = {}
    /\ taking = NoTaking /\ sessions = {}
    /\ edits = 0

At(p, pc) == proc[p].pc = pc
Move(p, r) == proc' = [proc EXCEPT ![p] = r]
Goto(p, pc) == Move(p, [proc[p] EXCEPT !.pc = pc])

-----------------------------------------------------------------------------
\* Mutant: a source is not searched for secrets.
VerdictTrusting(scan, s) ==
    CASE scan[s] = Absent \/ disk[s] = Absent -> "blocked"
      [] OTHER -> IF licence = "incompatible" THEN "blocked"
                  ELSE IF licence = "unknown" THEN "review_required" ELSE "eligible"

(***************************************************************************)
(* classify_assets: the verdict on one candidate, from its scan record, the *)
(* file as it is now and the licence files as they are now.                *)
(***************************************************************************)
Verdict(scan, s) ==
    CASE scan[s] = Absent \/ disk[s] = Absent -> "blocked"
      [] scan[s] \in Secret                   -> "blocked"
      [] OTHER -> IF licence = "incompatible" THEN "blocked"
                  ELSE IF licence = "unknown" THEN "review_required" ELSE "eligible"

\* the hash an entry carries: a secret-bearing one is withheld
Hash(scan, s) == IF scan[s] \in Secret /\ disk[s] # Absent THEN Absent ELSE scan[s]

Leader(s) ==
    LET i == CHOOSE i \in DOMAIN Requested :
                /\ Dest[Requested[i]] = Dest[s]
                /\ \A j \in 1 .. i - 1 : Dest[Requested[j]] # Dest[s]
    IN  Requested[i]

\* Mutant: every candidate is listed on its own.
ClassifyApart(scan) ==
    [s \in Sources |-> [sha |-> Hash(scan, s), class |-> Verdict(scan, s)]]

(***************************************************************************)
(* Candidates with one destination and one hash merge into the first of    *)
(* them; with different hashes they block each other.                      *)
(***************************************************************************)
Classify(scan) ==
    LET merged(s)   == s # Leader(s) /\ Hash(scan, s) = Hash(scan, Leader(s))
        collides(s) == \E t \in Sources : /\ Dest[t] = Dest[s]
                                          /\ Hash(scan, t) # Hash(scan, Leader(s))
    IN  [s \in {s \in Sources : ~ merged(s)} |->
            [sha |-> Hash(scan, s),
             class |-> IF collides(s) THEN "blocked" ELSE Verdict(scan, s)]]

\* compose_build_pack: the id is the digest of the whole content
PackOf(scan) == [scan |-> scan, licence |-> licence, assets |-> Classify(scan)]

\* Mutant: a blocked asset may be ticked.
ApprovableAll(pack, chosen, acknowledged) ==
    /\ chosen \subseteq DOMAIN pack.assets
    /\ \A s \in chosen : pack.assets[s].class = "review_required" => acknowledged

\* approve: what may be ticked, given whether the review box is
Approvable(pack, chosen, acknowledged) ==
    /\ chosen \subseteq DOMAIN pack.assets
    /\ \A s \in chosen :
          /\ pack.assets[s].class # "blocked"
          /\ pack.assets[s].class = "review_required" => acknowledged

Approval(pack, chosen) ==
    [pack |-> pack, assets |-> [s \in chosen |-> pack.assets[s].sha]]

\* Mutant: a pack of the same assets is taken for the approved one.
CurrentAssets(pack, approval) ==
    \A s \in DOMAIN approval.assets :
        /\ s \in DOMAIN pack.assets
        /\ pack.assets[s].class # "blocked"
        /\ pack.assets[s].sha = approval.assets[s]

\* validate_approval: for this very pack, and for assets as it lists them
Current(pack, approval) ==
    /\ approval.pack = pack
    /\ \A s \in DOMAIN approval.assets :
          /\ s \in DOMAIN pack.assets
          /\ pack.assets[s].class # "blocked"
          /\ pack.assets[s].sha = approval.assets[s]

\* The assets among a directory's files, or among what its checksums list.
Plain(files) == Restrict(files, DOMAIN files \ Documents)

\* validate_export: every listed file is there with the listed content
Valid(files, sums) ==
    \A f \in DOMAIN sums : f \in DOMAIN files /\ files[f] = sums[f]

\* A process at rest: a window keeps its scan, a command line has exited.
Rested(p) == IF p \in Windows
             THEN [Idle EXCEPT !.pc = "scanned", !.scan = proc[p].scan] ELSE Idle
\* How an export ends, by success or by an exception: its staging directory is gone.
End(p) ==
    /\ Move(p, Rested(p))
    /\ staging' = [staging EXCEPT ![p] = NoStaging]

-----------------------------------------------------------------------------
(***************************************************************************)
(* Scan and prepare.  A window may prepare from a scan of long ago.        *)
(***************************************************************************)
Scan(p) ==
    /\ At(p, "idle")
    /\ Move(p, [Idle EXCEPT !.pc = "scanned", !.scan = disk])
    /\ UNCHANGED <<user, saved, staging, published, granted, session>>

Prepare(p) ==
    /\ At(p, "scanned")
    /\ Move(p, IF p \in Windows
               THEN [proc[p] EXCEPT !.pc = "review", !.pack = PackOf(proc[p].scan)]
               ELSE [Idle EXCEPT !.pc = "write pack", !.pack = PackOf(proc[p].scan)])
    /\ UNCHANGED <<user, saved, staging, published, granted, session>>

\* write_prepared_pack and write_approval: truncated and written, or left torn
WriteSaved(p) ==
    /\ \/ /\ At(p, "write pack")
          /\ \/ saved' = [saved EXCEPT !.pack = proc[p].pack] /\ Goto(p, "review")
             \/ saved' = [saved EXCEPT !.pack = Torn] /\ Move(p, Idle)
       \/ /\ At(p, "write approval")
          /\ \E a \in {proc[p].approval, Torn} : saved' = [saved EXCEPT !.approval = a]
          /\ Move(p, Idle)
    /\ UNCHANGED <<user, staging, published, granted, session>>

(***************************************************************************)
(* The user ticks assets and whether review-required ones were reviewed;   *)
(* or leaves the dialog, or asks `prepare` for no approval.                *)
(***************************************************************************)
Review(p) ==
    /\ At(p, "review")
    /\ \/ \E chosen \in Selections, acknowledged \in BOOLEAN :
             IF Approvable(proc[p].pack, chosen, acknowledged)
             THEN LET a == Approval(proc[p].pack, chosen)
                  IN  /\ Cardinality(granted \cup {a}) <= MaxApprovals
                      /\ granted' = granted \cup {a}
                      /\ Move(p, [proc[p] EXCEPT
                            !.pc = IF p \in Windows THEN "check" ELSE "write approval",
                            !.approval = a])
             ELSE Move(p, Rested(p)) /\ UNCHANGED granted
       \/ Move(p, Rested(p)) /\ UNCHANGED granted
    /\ UNCHANGED <<user, saved, staging, published, session>>

-----------------------------------------------------------------------------
\* `export` loads both files; a torn one has no valid digest
Load(p) ==
    /\ At(p, "idle") /\ p \in Commands
    /\ saved.pack \notin {NoPack, Torn} /\ saved.approval \notin {NoApproval, Torn}
    /\ Move(p, [Idle EXCEPT !.pc = "check", !.pack = saved.pack,
                            !.approval = saved.approval])
    /\ UNCHANGED <<user, saved, staging, published, granted, session>>

Approved(p) == proc[p].approval.assets
\* every approved source is there with the approved hash
Intact(p) == \A s \in DOMAIN Approved(p) : disk[s] = Approved(p)[s]

\* validate_approval, the output folder, verify_source_unchanged, a staging directory;
\* or a refusal by any of them
Check(p) ==
    /\ At(p, "check")
    /\ \/ /\ Current(proc[p].pack, proc[p].approval) /\ Intact(p)
          /\ staging' = [staging EXCEPT ![p] = EmptyDir]
          /\ Goto(p, "copy")
       \/ End(p)
    /\ UNCHANGED <<user, saved, published, granted, session>>

\* the approved sources as they are now, each at its destination
Copied(p) ==
    [f \in {Dest[s] : s \in DOMAIN Approved(p)} |->
        disk[CHOOSE s \in DOMAIN Approved(p) : Dest[s] = f]]

\* Mutant: what was copied is not hashed.
CopyUnhashed(p) ==
    /\ At(p, "copy")
    /\ \/ /\ \A s \in DOMAIN Approved(p) : disk[s] # Absent
          /\ staging' = [staging EXCEPT ![p] = Copied(p)]
          /\ Goto(p, "render")
       \/ End(p)
    /\ UNCHANGED <<user, saved, published, granted, session>>

\* _copy_verified: the hash is of the bytes that were copied
Copy(p) ==
    /\ At(p, "copy")
    /\ \/ /\ Intact(p)
          /\ staging' = [staging EXCEPT ![p] = Copied(p)]
          /\ Goto(p, "render")
       \/ End(p)
    /\ UNCHANGED <<user, saved, published, granted, session>>

\* what render_build_pack_files adds to the copied assets
WithDocuments(assets) ==
    [f \in DOMAIN assets \cup Documents |->
        IF f \in DOMAIN assets THEN assets[f] ELSE Rendered]

\* The documents, the limits (a refusal) and the checksums; verify_source_unchanged again, and
\* validate_export of the staging directory, which nobody else knows.
Render(p) ==
    /\ At(p, "render")
    /\ \/ /\ Intact(p)
          /\ staging' = [staging EXCEPT ![p] = WithDocuments(staging[p])]
          /\ Goto(p, "rename")
       \/ End(p)
    /\ UNCHANGED <<user, saved, published, granted, session>>

Named(pack, suffix) == {d \in published : d.name = pack /\ d.suffix = suffix}

\* Mutant: the rename replaces.
RenameOver(p) ==
    /\ At(p, "rename") /\ Cardinality(published) < MaxPublished
    /\ published' = (published \ Named(proc[p].pack, 1)) \cup
          {[name |-> proc[p].pack, suffix |-> 1,
            files |-> staging[p], sums |-> staging[p], resummed |-> FALSE]}
    /\ End(p)
    /\ UNCHANGED <<user, saved, granted, session>>

(***************************************************************************)
(* _final_directory: rename to the pack's name, or the next that is free.  *)
(* Any other error of the file system ends the export.                     *)
(***************************************************************************)
Rename(p) ==
    /\ At(p, "rename")
    /\ \/ /\ Named(proc[p].pack, proc[p].suffix) # {}
          /\ Move(p, [proc[p] EXCEPT !.suffix = @ + 1])
          /\ UNCHANGED <<staging, published>>
       \/ /\ Named(proc[p].pack, proc[p].suffix) = {}
          /\ Cardinality(published) < MaxPublished
          /\ published' = published \cup
                {[name |-> proc[p].pack, suffix |-> proc[p].suffix,
                  files |-> staging[p], sums |-> staging[p], resummed |-> FALSE]}
          /\ End(p)
       \/ End(p) /\ UNCHANGED published
    /\ UNCHANGED <<user, saved, granted, session>>

\* The process dies; what it had staged is left under a name nobody uses again.
Crash(p) ==
    /\ ~ At(p, "idle")
    /\ Move(p, Idle)
    /\ staging' = [staging EXCEPT ![p] = NoStaging]
    /\ UNCHANGED <<user, saved, published, granted, session>>

-----------------------------------------------------------------------------
(***************************************************************************)
(* SupervisorService.create_session: validate the directory, copy it file  *)
(* by file, its checksums too, validate both, each by its own checksums,   *)
(* then fill the workspace from the private copy.                          *)
(***************************************************************************)
Taken == CHOOSE d \in published : d.name = taking.name /\ d.suffix = taking.suffix

Take ==
    /\ taking.pc = "none" /\ Cardinality(sessions) < MaxSessions
    /\ \E d \in published :
          /\ Valid(d.files, d.sums)
          /\ taking' = [NoTaking EXCEPT !.pc = "copy", !.name = d.name, !.suffix = d.suffix]
    /\ UNCHANGED <<user, saved, proc, staging, published, granted, sessions>>

TakeCopy ==
    /\ taking.pc = "copy"
    /\ taking' = [taking EXCEPT !.pc = "validate", !.files = Taken.files,
                                !.sums = Taken.sums, !.resummed = Taken.resummed]
    /\ UNCHANGED <<user, saved, proc, staging, published, granted, sessions>>

\* The assets go to the workspace, listed or not; the copy keeps its checksums.
Filled ==
    [pack |-> taking.name, sums |-> taking.sums, resummed |-> taking.resummed,
     assets |-> Plain(taking.files)]

\* Mutant: the private copy is not validated.
TakeTrusting ==
    /\ taking.pc = "validate"
    /\ \/ Valid(Taken.files, Taken.sums) /\ sessions' = sessions \cup {Filled}
       \/ UNCHANGED sessions
    /\ taking' = NoTaking
    /\ UNCHANGED <<user, saved, proc, staging, published, granted>>

\* Both are validated, and the workspace is filled from the copy; or it is refused.
TakeValid ==
    /\ taking.pc = "validate"
    /\ \/ /\ Valid(Taken.files, Taken.sums) /\ Valid(taking.files, taking.sums)
          /\ sessions' = sessions \cup {Filled}
       \/ UNCHANGED sessions
    /\ taking' = NoTaking
    /\ UNCHANGED <<user, saved, proc, staging, published, granted>>

-----------------------------------------------------------------------------
(***************************************************************************)
(* The user, at any time: a source; in a published directory an asset, or  *)
(* the line of one in SHA256SUMS.txt, which nothing else vouches for.      *)
(***************************************************************************)
EditSource ==
    /\ edits < MaxEdits
    /\ edits' = edits + 1
    /\ \E s \in Sources, c \in Contents \cup {Absent} :
          disk[s] # c /\ disk' = [disk EXCEPT ![s] = c]
    /\ UNCHANGED <<licence, saved, proc, staging, published, granted, session>>

\* f dropped, or added or changed to c
Edited(files, f, c) ==
    IF c = Absent THEN Restrict(files, DOMAIN files \ {f})
    ELSE [g \in DOMAIN files \cup {f} |-> IF g = f THEN c ELSE files[g]]

EditPublished ==
    /\ edits < MaxEdits
    /\ edits' = edits + 1
    /\ \E d \in published, f \in Dests, c \in Contents \cup {Absent} :
          \/ /\ Edited(d.files, f, c) # d.files
             /\ published' = (published \ {d}) \cup
                                {[d EXCEPT !.files = Edited(d.files, f, c)]}
          \/ /\ Edited(d.sums, f, c) # d.sums
             /\ published' = (published \ {d}) \cup
                                {[d EXCEPT !.sums = Edited(d.sums, f, c), !.resummed = TRUE]}
    /\ UNCHANGED <<disk, licence, saved, proc, staging, granted, session>>

Step(p) ==
    \/ WriteSaved(p) \/ Check(p) \/ Copy(p) \/ Render(p) \/ Rename(p)

TakeStep == TakeCopy \/ TakeValid

Next ==
    \/ \E p \in Procs :
          Step(p) \/ Scan(p) \/ Prepare(p) \/ Review(p) \/ Load(p) \/ Crash(p)
    \/ Take \/ TakeStep
    \/ EditSource \/ EditPublished

Spec == Init /\ [][Next]_vars

-----------------------------------------------------------------------------
PCs == {"idle", "scanned", "write pack", "review", "write approval",
        "check", "copy", "render", "rename"}
Classes == {"eligible", "review_required", "blocked"}
Hashes == Contents \cup {Absent}

IsPack(b) ==
    /\ b.scan \in [Sources -> Hashes] /\ b.licence \in Licences
    /\ DOMAIN b.assets \subseteq Sources
    /\ \A s \in DOMAIN b.assets : b.assets[s] \in [sha : Hashes, class : Classes]
IsApproval(a) ==
    /\ IsPack(a.pack)
    /\ DOMAIN a.assets \subseteq DOMAIN a.pack.assets
    /\ \A s \in DOMAIN a.assets : a.assets[s] \in Contents
IsDir(files) ==
    /\ DOMAIN files \subseteq Dests \cup Documents
    /\ \A f \in DOMAIN files : files[f] \in Contents \cup {Rendered}

TypeOK ==
    /\ disk \in [Sources -> Hashes] /\ licence \in Licences /\ edits \in 0 .. MaxEdits
    /\ saved.pack \in {NoPack, Torn} \/ IsPack(saved.pack)
    /\ saved.approval \in {NoApproval, Torn} \/ IsApproval(saved.approval)
    /\ \A p \in Procs :
          /\ proc[p].pc \in PCs /\ proc[p].scan \in [Sources -> Hashes]
          /\ proc[p].pack = NoPack \/ IsPack(proc[p].pack)
          /\ proc[p].approval = NoApproval \/ IsApproval(proc[p].approval)
          /\ proc[p].suffix \in 1 .. MaxPublished + 1
          /\ staging[p] = NoStaging \/ IsDir(staging[p])
    /\ \A a \in granted : IsApproval(a)
    /\ \A d \in published : /\ IsPack(d.name) /\ IsDir(d.files) /\ IsDir(d.sums)
                            /\ d.resummed \in BOOLEAN
    /\ taking.pc \in {"none", "copy", "validate"} /\ IsDir(taking.files) /\ IsDir(taking.sums)
    /\ \A w \in sessions : IsPack(w.pack) /\ IsDir(w.assets) /\ IsDir(w.sums)

\* What an approval says a directory's assets are.
Ordered(a) ==
    [f \in {Dest[s] : s \in DOMAIN a.assets} |->
        a.assets[CHOOSE s \in DOMAIN a.assets : Dest[s] = f]]

\* Until its user edits the list, a published directory lists all documents and exactly
\* the assets, with exactly the contents, that a user approved for the very pack it is
\* named after, although sources are edited between any two reads and the two files of
\* `prepare` may be of different runs (validate_approval, _copy_verified,
\* verify_source_unchanged).
PublishedIsApproved ==
    \A d \in published : ~ d.resummed =>
        /\ Documents \subseteq DOMAIN d.sums
        /\ \E a \in granted : a.pack = d.name /\ Plain(d.sums) = Ordered(a)

\* No export ever lists anything secret-bearing, nor an asset whose destination another
\* candidate with other contents claims (classify_assets, approve).
NothingBlockedLeaves ==
    \A d \in published : ~ d.resummed => \A s \in Sources :
        LET f == Dest[s]
        IN  f \in DOMAIN d.sums =>
                /\ d.sums[f] \notin Secret
                /\ d.name.scan[s] = d.sums[f]

\* No export takes the place of another: a directory keeps its name, and only its owner's
\* edits change its files and its checksums, whatever is exported at the same time
\* (_final_directory).
NothingReplaced ==
    [][ \A d \in published : \E e \in published' :
          /\ e.name = d.name /\ e.suffix = d.suffix
          /\ edits' = edits => e.files = d.files /\ e.sums = d.sums ]_vars

\* A session's workspace holds every asset that the checksums it was created under list,
\* as they list it, and unless the user edited those in the exported directory they list
\* what was approved for the pack: whatever is edited, and edited back, while the
\* directory is validated and copied (create_session, "Close the validation/copy race on
\* both sides").
SessionIsApproved ==
    \A w \in sessions :
        /\ Valid(w.assets, Plain(w.sums))
        /\ ~ w.resummed => \E a \in granted : a.pack = w.pack /\ Plain(w.sums) = Ordered(a)

\* The dialog (supervisor_dialog.py:168) says of a session that "it will use only this
\* checksum-verified Build Pack and its explicitly approved assets": the workspace holds
\* what was approved and nothing else.  Violated: MCBuildPackAssets.cfg.
OnlyApprovedAssets ==
    \A w \in sessions : \E a \in granted : a.pack = w.pack /\ w.assets = Ordered(a)
=============================================================================
