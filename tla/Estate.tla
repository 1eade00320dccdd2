-------------------------------- MODULE Estate --------------------------------
(***************************************************************************)
(* The estate scan and its appraisal (src/relic_auditor/scanner.py,        *)
(* detectors.py, appraisal.py): what is inventoried, read and hashed, which*)
(* roots are projects, and what is proposed for deletion or archiving.     *)
(*                                                                         *)
(* A disk d is a record.  d.paths are the files met, members of ZIP        *)
(* archives included; per path: d.place where it lies ("tree", "link",     *)
(* "junk", "vendored", "metadata", "hidden", or "unsafe" in an archive),   *)
(* d.archive its archive or None, d.size, d.digest, d.order its rank by    *)
(* name, d.dir its directory, d.role, d.code and d.test what its name      *)
(* says, d.binary whether its "name", its "data" or nothing ("no") is      *)
(* binary, d.worth whether a member's name is worth reading, d.fastapi     *)
(* whether it imports FastAPI, d.shared whether it is code in a directory  *)
(* of shared parts, and d.trouble what reading it does: "no", "error" (an  *)
(* exception the scan expects), "corrupt" (damaged compressed data: one it *)
(* does not).  d.inside are the pairs <<path, directory above it>>,        *)
(* d.depth the length of a directory, d.manifests the manifests and        *)
(* d.kinds what each declares; d.archives are the ZIP files, with d.opens  *)
(* and d.declared, the total size their directory declares.  Abstract:     *)
(* names are reduced to the verdicts of the predicates on them; a digest   *)
(* stands for the contents.                                                *)
(***************************************************************************)
EXTENDS Integers, FiniteSets

CONSTANTS MaxFile,      \* max_file_bytes
          MaxMembers,   \* max_zip_members
          MaxTotal,     \* max_zip_uncompressed_bytes
          None

ASSUME EstateConstants == {MaxFile, MaxMembers, MaxTotal} \subseteq Nat

Top == "."

-----------------------------------------------------------------------------
(* EstateScanner *)

Members(d, a) == {f \in d.paths : d.archive[f] = a}

ArchiveStatus(d, a) ==
    IF ~d.opens[a] THEN "invalid"
    ELSE IF Cardinality(Members(d, a)) > MaxMembers \/ d.declared[a] > MaxTotal THEN "rejected"
    ELSE "inspected"

\* members of inspected archives whose name, ratio, type and flags are safe; never a link
Reachable(d, f) ==
    IF d.archive[f] = None THEN d.place[f] # "link"
    ELSE ArchiveStatus(d, d.archive[f]) = "inspected" /\ d.place[f] # "unsafe"

Skipped(d, f, hidden) ==
    \/ d.place[f] \in {"vendored", "junk"}
    \/ d.place[f] = "metadata" /\ d.archive[f] = None
    \/ d.place[f] = "hidden" /\ ~hidden

Inventoried(d, hidden) == {f \in d.paths : Reachable(d, f) /\ ~Skipped(d, f, hidden)}

\* a member is only read when its name is worth it; a file always, for its digest
Opened(d, f) == d.size[f] <= MaxFile /\ (d.archive[f] # None => d.worth[f] /\ d.binary[f] # "name")

\* an exception of bundle.read that the scan does not expect ends the audit
Aborts(d, hidden) ==
    \E f \in Inventoried(d, hidden) : d.archive[f] # None /\ Opened(d, f) /\ d.trouble[f] = "corrupt"

Hashed(d, hidden) == {f \in Inventoried(d, hidden) : Opened(d, f) /\ d.trouble[f] = "no"}
Read(d, hidden) == {f \in Inventoried(d, hidden) : Opened(d, f) /\ d.trouble[f] = "no" /\ d.binary[f] = "no"}

-----------------------------------------------------------------------------
(* detect_projects *)

Encloses(d, dir, f) == dir = Top \/ <<f, dir>> \in d.inside

ManifestRoots(d, files) == {d.dir[f] : f \in files \cap d.manifests}

\* sources that import FastAPI outside every project found before them open one
Roots(d, files, read) ==
    LET loose == {f \in read : d.fastapi[f] /\ \A r \in ManifestRoots(d, files) : ~Encloses(d, r, f)}
    IN  ManifestRoots(d, files) \cup
        {d.dir[f] : f \in {g \in loose : \A h \in loose :
                             d.order[h] < d.order[g] => ~Encloses(d, d.dir[h], g)}}

\* project_root_for: the deepest root around a file
RootOf(d, roots, f) ==
    LET around == {r \in roots : Encloses(d, r, f)}
    IN  IF around = {} THEN Top ELSE CHOOSE r \in around : \A s \in around : d.depth[s] <= d.depth[r]

Kinds(d, files, read, r) ==
    (UNION {d.kinds[f] : f \in {m \in files \cap d.manifests : d.dir[m] = r}})
    \cup (IF \E f \in read : d.fastapi[f] /\ RootOf(d, Roots(d, files, read), f) = r
          THEN {"Python", "FastAPI"} ELSE {})

-----------------------------------------------------------------------------
(* appraise *)

AtMost(n, m) == IF n <= m THEN n ELSE m

Score(d, files, read, r) ==
    LET own   == {f \in files : Encloses(d, r, f)}
        code  == Cardinality({f \in own : d.code[f] /\ ~d.test[f]})
        tests == Cardinality({f \in own : d.test[f]})
        kinds == Kinds(d, files, read, r)
    IN  20 + (IF code >= 5 THEN 25 ELSE IF code > 0 THEN 10 ELSE 0)
           + (IF tests > 0 /\ code > 0 THEN AtMost(8, 2 + tests) ELSE 0)
           + (IF \E f \in own : d.role[f] = "documentation" THEN 10 ELSE 0)
           + (IF kinds \cap {"Docker", "Docker Compose"} # {} THEN 8 ELSE 0)
           + (IF kinds \cap {"Next.js", "FastAPI"} # {} THEN 7 ELSE 0)

\* byte-identical files of some size; groups of one are no duplicates
Twins(d, hashed, f) == {g \in hashed : d.digest[g] = d.digest[f] /\ d.size[f] > 0}

\* Mutant: every copy of a duplicate is proposed.
DeleteEvery(d, inventoried, hashed, hidden) ==
    {f \in d.paths \ inventoried : Reachable(d, f) /\ d.archive[f] = None /\ d.place[f] \in {"junk", "vendored"}}
    \cup {f \in hashed : Cardinality(Twins(d, hashed, f)) > 1}

\* _delete_candidates: junk, generated directories, and all copies but the first by name
Delete(d, inventoried, hashed, hidden) ==
    {f \in d.paths \ inventoried : Reachable(d, f) /\ d.archive[f] = None /\ d.place[f] \in {"junk", "vendored"}}
    \cup {f \in hashed : \E g \in Twins(d, hashed, f) : d.order[g] < d.order[f]}

Shown == {"API/routing", "data model", "UI/component"}

\* _extract_candidates, of which the code keeps the first 250
Extract(d, files) ==
    {f \in files : d.archive[f] = None /\ d.role[f] \in Shown /\ d.size[f] > 0 /\ d.shared[f]}

\* _archive_candidates: fragments, and archives that could not be inspected
Quarantine(d, files, read) ==
    {r \in Roots(d, files, read) : Score(d, files, read, r) < 35}
    \cup {a \in d.archives : ArchiveStatus(d, a) # "inspected"}

\* audit_estate
Audit(d, hidden) ==
    LET files == Inventoried(d, hidden)
        read  == Read(d, hidden)
        roots == Roots(d, files, read)
    IN  [files |-> files, read |-> read, hashed |-> Hashed(d, hidden), roots |-> roots,
         root |-> [f \in files |-> RootOf(d, roots, f)],
         score |-> [r \in roots |-> Score(d, files, read, r)],
         extract |-> Extract(d, files),
         delete |-> Delete(d, files, Hashed(d, hidden), hidden),
         quarantine |-> Quarantine(d, files, read)]
=============================================================================
