------------------------------- MODULE Analysis -------------------------------
(***************************************************************************)
(* One audit of an estate, by the command line (src/relic_auditor/cli.py)  *)
(* or by a window (dashboard/core.py): the same engines, Estate, Truth and *)
(* Discovery, in two orders.  The command line writes each result as it    *)
(* has it; a window keeps them until they are exported.                    *)
(*                                                                         *)
(* The two fronts meet one disk with different options.  Whatever the      *)
(* limits of the graph leave out is chosen here: they keep the first nodes *)
(* in the order of hashes.  Abstract: progress, the acquisition analysis   *)
(* and the advice, which nothing else reads, are stages without a result.  *)
(***************************************************************************)
EXTENDS FiniteSetsExt, Sequences, Estate, Truth, Discovery

CONSTANTS Disks,        \* the estates there may be
          Requests,     \* the options an audit may be started with
          MaxParse,     \* technical_max_file_mb
          MaxNodes,     \* max_graph_nodes
          MaxFlows,     \* max_data_flow_edges
          Depth         \* workflow_depth

\* advice interprets the acquisition analysis, which then is run too; what a
\* template needs verified has a name
ASSUME AnalysisConstants ==
    /\ {MaxParse, MaxNodes, MaxFlows, Depth} \subseteq Nat
    /\ Requests \subseteq SUBSET {"hidden", "truth", "discovery", "acquisition", "advice"}
    /\ \A r \in Requests : "advice" \in r => "acquisition" \in r
    /\ \A i \in DOMAIN Templates : NoName \notin Templates[i].proof

\* what any scanned disk is like; a tree of directories has a deepest one
ASSUME DisksAssumption ==
    \A d \in Disks :
        /\ d.order \in [d.paths -> Nat] /\ d.size \in [d.paths -> Nat]
        /\ d.manifests \subseteq d.paths
        /\ d.dir \in [d.paths -> DOMAIN d.depth]
        /\ d.depth \in [DOMAIN d.depth -> Nat]
        /\ \E r \in DOMAIN d.depth : \A s \in DOMAIN d.depth : d.depth[s] <= d.depth[r]
        /\ d.language \in [d.paths -> {"none", "supported", "other"}]
        /\ d.verdict \in [d.paths -> {"success", "partial", "invalid_syntax", "parser_failure"}]

(***************************************************************************)
(* Identities are hashes of a prefix for their kind, the path and the      *)
(* place in it (adapters.py:150, analyzer.py:105-171): one identity has    *)
(* one file and is none of a path's or a family's.  The caller of a        *)
(* reference is a symbol of its file, else the file; the owner of a        *)
(* surface is looked for in its file (analyzer.py:210-217, 253-257).       *)
(***************************************************************************)
ASSUME IdentitiesAssumption ==
    \A d \in Disks :
        /\ \A x, y \in d.symbols \cup d.surfaces : x.id = y.id => x.file = y.file
        /\ \A x \in d.symbols \cup d.surfaces :
              x.id \notin d.paths \cup {Canonical[r] : r \in DOMAIN Canonical}
        /\ \A s \in d.symbols, x \in d.surfaces : s.id # x.id
        /\ \A r \in d.refs : r.caller = r.file \/ \E s \in d.symbols : s.id = r.caller /\ s.file = r.file
        /\ \A x \in d.surfaces, s \in d.symbols : s.id = x.owner => s.file = x.file
        /\ DOMAIN d.depth \cup {Top} \subseteq DOMAIN Canonical

VARIABLES disk,     \* the scanned estate, which the program never changes
          front,    \* "cli" or "window"
          asked,    \* the stages asked for
          stage,    \* the next stage, by its place in the front's order
          audit,    \* the AuditResult
          truth,    \* the TechnicalTruthResult
          found,    \* the ProductDiscoveryResult
          reports,  \* the kinds of reports this audit has written
          exit      \* "running", "ok", "error", "crash"

vars == <<disk, front, asked, stage, audit, truth, found, reports, exit>>

Stages == {"scan", "acquisition", "advice", "truth", "discovery"}

Order == [cli |-> <<"scan", "acquisition", "advice", "truth", "discovery">>,
          window |-> <<"scan", "truth", "acquisition", "discovery", "advice">>]

\* an engine that has not run has no result: None in the code, no field here
NotRun == <<>>

-----------------------------------------------------------------------------
(* What one engine hands to the next *)

EstateOf(d, a) ==
    [files |-> a.files, root |-> a.root, role |-> d.role, large |-> [f \in a.files |-> d.size[f] > MaxParse],
     read |-> [f \in a.files |-> f \in a.read], hashed |-> [f \in a.files |-> f \in a.hashed],
     language |-> d.language, verdict |-> d.verdict, claims |-> d.claims, fixture |-> d.fixture,
     symbols |-> {s \in d.symbols : s.file \in a.files}, refs |-> d.refs, imports |-> d.imports,
     surfaces |-> {x \in d.surfaces : x.file \in a.files}, mounts |-> d.mounts,
     topics |-> d.topics, readme |-> d.readme, nonempty |-> [f \in a.files |-> d.size[f] > 0],
     rank |-> d.order]

KeptOf(S, most) == IF Cardinality(S) <= most THEN {S} ELSE kSubset(most, S)

-----------------------------------------------------------------------------
Init ==
    /\ disk \in Disks
    /\ front \in {"cli", "window"}
    /\ asked \in Requests
    /\ stage = 1
    /\ audit = NotRun /\ truth = NotRun /\ found = NotRun
    /\ reports = {}
    /\ exit = "running"

At(name) == exit = "running" /\ stage <= Len(Order[front]) /\ Order[front][stage] = name

\* the command line writes the reports of a stage before the next begins
Written(name) ==
    /\ stage' = stage + 1
    /\ reports' = IF front = "cli" THEN reports \cup {name} ELSE reports
    /\ UNCHANGED <<disk, front, asked, exit>>

Scan ==
    /\ At("scan")
    /\ ~Aborts(disk, "hidden" \in asked)
    /\ audit' = Audit(disk, "hidden" \in asked)
    /\ Written("scan")
    /\ UNCHANGED <<truth, found>>

\* the command line expects no damaged data; a window shows any failure of its worker
Damaged ==
    /\ At("scan")
    /\ Aborts(disk, "hidden" \in asked)
    /\ exit' = IF front = "cli" THEN "crash" ELSE "error"
    /\ UNCHANGED <<disk, front, asked, stage, audit, truth, found, reports>>

\* Mutant: a window ranks without truth unless it was asked for.
RunTruthIfAsked == "truth" \in asked

\* run_truth: a window never ranks without truth, the command line when told to
RunTruth == "truth" \in asked \/ (front = "window" /\ "discovery" \in asked)

Reconstruction ==
    /\ At("truth") /\ RunTruth
    /\ LET e == EstateOf(disk, audit)
           g == Graph(e)
       IN  \E nodes \in KeptOf(g.nodes, MaxNodes),
              flows \in KeptOf({d \in g.edges : d.type \in DataFlow}, MaxFlows) :
                 truth' = Reconstruct(e, nodes, flows, Depth)
    /\ Written("truth")
    /\ UNCHANGED <<audit, found>>

Discovering ==
    /\ At("discovery") /\ "discovery" \in asked
    /\ found' = [opportunities |->
                    Discover(EstateOf(disk, audit), truth # NotRun,
                             IF truth = NotRun THEN {} ELSE truth.capabilities)]
    /\ Written("discovery")
    /\ UNCHANGED <<audit, truth>>

\* acquisition analysis and advice, which never fails but may say it is unavailable
Other ==
    /\ \E name \in asked \cap {"acquisition", "advice"} : At(name) /\ Written(name)
    /\ UNCHANGED <<audit, truth, found>>

\* a stage nobody asked for
Pass ==
    /\ \/ At("truth") /\ ~RunTruth
       \/ \E name \in {"acquisition", "advice", "discovery"} \ asked : At(name)
    /\ stage' = stage + 1
    /\ UNCHANGED <<disk, front, asked, audit, truth, found, reports, exit>>

Finish ==
    /\ exit = "running" /\ stage = Len(Order[front]) + 1
    /\ exit' = "ok"
    /\ UNCHANGED <<disk, front, asked, stage, audit, truth, found, reports>>

\* reports cannot be written: what was written stays
WriteFails ==
    /\ front = "cli" /\ exit = "running" /\ stage \in 2 .. Len(Order[front])
    /\ exit' = "error"
    /\ UNCHANGED <<disk, front, asked, stage, audit, truth, found, reports>>

Results == {"scan"} \cup (IF truth = NotRun THEN {} ELSE {"truth"})
           \cup (IF found = NotRun THEN {} ELSE {"discovery"}) \cup (asked \cap {"acquisition", "advice"})

ExportOrder == <<"scan", "truth", "discovery", "acquisition", "advice", "cleanup">>

\* export_dashboard_bundle: every result it holds in this order, unless writing fails on the way
Export ==
    /\ front = "window" /\ exit = "ok"
    /\ \E n \in 1 .. Len(ExportOrder) :
          reports' = reports \cup ({ExportOrder[i] : i \in 1 .. n} \cap (Results \cup {"cleanup"}))
    /\ UNCHANGED <<disk, front, asked, stage, audit, truth, found, exit>>

Next == Scan \/ Damaged \/ Reconstruction \/ Discovering \/ Other \/ Pass \/ Finish \/ WriteFails \/ Export

Spec == Init /\ [][Next]_vars

-----------------------------------------------------------------------------
(* Properties *)

Code == {f \in audit.files : disk.language[f] # "none"}

(***************************************************************************)
(* What each stage leaves behind, never before the stages it reads; and a  *)
(* window never ranks opportunities that nothing has verified              *)
(* (core.py:346, where the command line can).                              *)
(***************************************************************************)
TypeOK ==
    /\ disk \in Disks /\ front \in {"cli", "window"} /\ asked \subseteq Stages \cup {"hidden"}
    /\ stage \in 1 .. 6 /\ exit \in {"running", "ok", "error", "crash"}
    /\ reports \subseteq Stages \cup {"cleanup"}
    /\ audit = NotRun => truth = NotRun /\ found = NotRun
    /\ audit # NotRun => audit.delete \subseteq disk.paths /\ audit.root \in [audit.files -> DOMAIN disk.depth \cup {Top}]
    /\ front = "window" /\ found # NotRun => truth # NotRun
    /\ truth # NotRun => \A c \in truth.capabilities : c.key \in Capability \cup {NoName}

(***************************************************************************)
(* Whoever follows every proposal of the cleanup list still has each       *)
(* content that was hashed: the first copy by name is never proposed, not  *)
(* as a duplicate and not as junk (appraisal.py:69-88, 149-176).           *)
(***************************************************************************)
OneCopyStays ==
    audit # NotRun =>
        \A f \in {g \in audit.hashed : disk.size[g] > 0} :
            \E kept \in audit.hashed \ audit.delete : disk.digest[kept] = disk.digest[f]

(***************************************************************************)
(* Whatever the limits drop, a workflow called verified end to end passes  *)
(* an endpoint and a symbol that is neither a stub nor test code, and it   *)
(* enters another family of projects only by an import in a file it        *)
(* passes: equal names in two families do not join, while within a family  *)
(* a name finds its symbol in any copy (analyzer.py:174-283, 317-381).     *)
(***************************************************************************)
VerifiedIsReal ==
    truth # NotRun =>
        \A w \in Verified(truth.workflows) :
            LET visited(S) == {x \in S : x.id \in w.steps}
            IN  /\ \E x \in visited(disk.surfaces) : x.type = "endpoint"
                /\ \E s \in visited(disk.symbols) : ~s.stub /\ ~disk.fixture[s.file]
                /\ \A s \in visited(disk.symbols) :
                      \/ Canonical[audit.root[s.file]] = w.family
                      \/ \E i \in disk.imports, c \in visited(disk.symbols) :
                            /\ c.file = i.file /\ i.source \in audit.files
                            /\ Canonical[audit.root[i.source]] = Canonical[audit.root[s.file]]

(***************************************************************************)
(* A document is contradicted only where every code file the scan lists in *)
(* its project was understood: one that was too large, unreadable, broken  *)
(* or in another language could hold what is claimed (analyzer.py:543-575, *)
(* 665-716).                                                               *)
(***************************************************************************)
NegativesAreCovered ==
    truth # NotRun =>
        \A k \in {c \in truth.contradictions : c.claim # NoName} :
            \A f \in {g \in Code : Canonical[audit.root[g]] = k.family} :
                /\ f \in audit.read /\ disk.size[f] <= MaxParse
                /\ disk.language[f] = "supported" /\ disk.verdict[f] \in Understood

(***************************************************************************)
(* An opportunity graded verified rests on a workflow that was verified    *)
(* for each capability it needs, and what it offers for reuse is content   *)
(* this scan read and hashed, members of refused archives and unsafe       *)
(* members excepted (pipeline.py:105-129, 150-261).                        *)
(***************************************************************************)
OffersAreGrounded ==
    found # NotRun =>
        \A o \in found.opportunities :
            /\ o.strength = "verified" =>
                  /\ truth # NotRun
                  /\ \A key \in o.proof : \E w \in Verified(truth.workflows) :
                        \E c \in truth.capabilities : c.key = key /\ w.entry \in c.workflows
            /\ \A a \in o.assets :
                  /\ a.hashed
                  /\ disk.archive[a.path] # None =>
                        disk.place[a.path] # "unsafe" /\ ArchiveStatus(disk, disk.archive[a.path]) = "inspected"
=============================================================================
