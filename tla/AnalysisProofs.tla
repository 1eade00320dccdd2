------------------------- MODULE AnalysisProofs -------------------------
(***************************************************************************)
(* Proofs about Analysis: the scan, the reconstruction of what works and   *)
(* the offers made of it, for every disk, every limit of the graph and     *)
(* every depth of a walk.  The results are functions of one another, so    *)
(* most lemmas are about the operators of Estate, Truth and Discovery: a   *)
(* walk stays among joined families, the first copy of a content is kept,  *)
(* as many verified capabilities as needed names cover those names.  An    *)
(* induction over a walk or a sorted list takes the least stage or name    *)
(* where the claim would fail (WFMin).                                     *)
(***************************************************************************)
EXTENDS Analysis, FiniteSetTheorems, WellFoundedInduction, TLAPS

-----------------------------------------------------------------------------
(* Numbers and walks *)

\* A set of numbers has a least one (the first copy by name, the first step
\* of a walk that goes wrong).
LEMMA LeastNumber ==
    ASSUME NEW S \in SUBSET Nat, S # {}
    PROVE  \E m \in S : \A k \in S : m <= k
<1>1. PICK m \in S : \A k \in S : <<k, m>> \notin OpToRel(<, Nat)
    BY WFMin, NatLessThanWellFounded, Zenon
<1>2. \A k \in S : ~(k < m)
    BY <1>1, Zenon DEF OpToRel
<1> QED BY <1>2

\* f is, stage by stage, the walk from x of at most m edges
IsWalk(f, edges, x, m) ==
    f = [n \in 0 .. m |-> IF n = 0 THEN {x} ELSE f[n - 1] \cup Next1(edges, f[n - 1])]

\* The stages of a walk are a function: each is the one before and what its
\* edges lead to (the queue of _workflows, analyzer.py:329-340).
LEMMA StagesExist ==
    ASSUME NEW edges, NEW x, NEW depth \in Nat
    PROVE  \E f : IsWalk(f, edges, x, depth)
<1> DEFINE Is(f, m) == IsWalk(f, edges, x, m)
           Bad == {m \in Nat : ~\E f : Is(f, m)}
<1>1. SUFFICES ASSUME depth \in Bad PROVE FALSE
    OBVIOUS
<1>2. PICK m \in Bad : \A k \in Bad : m <= k
    <2>1. Bad \in SUBSET Nat /\ Bad # {}
        BY <1>1
    <2> HIDE DEF Bad
    <2> QED BY <2>1, LeastNumber
<1>3. m \in Nat /\ ~\E f : Is(f, m)
    BY <1>2
<1>4. CASE m = 0
    <2> DEFINE g == [n \in 0 .. 0 |-> {x}]
    <2>1. Is(g, 0)
        BY DEF IsWalk
    <2> QED BY <2>1, <1>3, <1>4
<1>5. CASE m # 0
    <2>1. m - 1 \in Nat /\ m - 1 \notin Bad
        <3> HIDE DEF Bad
        <3>1. m - 1 \in Nat /\ ~(m <= m - 1)
            BY <1>3, <1>5
        <3> QED BY <3>1, <1>2
    <2>2. PICK f : Is(f, m - 1)
        BY <2>1
    <2> DEFINE g == [n \in 0 .. m |-> IF n = m THEN f[m - 1] \cup Next1(edges, f[m - 1]) ELSE f[n]]
    <2>3. ASSUME NEW n \in 0 .. m
          PROVE  g[n] = IF n = 0 THEN {x} ELSE g[n - 1] \cup Next1(edges, g[n - 1])
        <3>1. CASE n = m
            <4>1. g[n] = f[m - 1] \cup Next1(edges, f[m - 1])
                BY <3>1
            <4>2. g[n - 1] = f[m - 1]
                BY <3>1, <1>3, <1>5
            <4> HIDE DEF g
            <4> QED BY <4>1, <4>2, <3>1, <1>5
        <3>2. CASE n # m
            <4>1. n \in 0 .. m - 1 /\ g[n] = f[n]
                BY <3>2, <1>3
            <4>2. n # 0 => g[n - 1] = f[n - 1]
                BY <3>2, <1>3
            <4>3. f[n] = IF n = 0 THEN {x} ELSE f[n - 1] \cup Next1(edges, f[n - 1])
                BY <2>2, <4>1 DEF IsWalk
            <4> HIDE DEF g
            <4> QED BY <4>1, <4>2, <4>3
        <3> QED BY <3>1, <3>2
    <2>4. g = [n \in 0 .. m |-> g[n]]
        OBVIOUS
    <2>5. Is(g, m)
        <3> HIDE DEF g
        <3> QED BY <2>3, <2>4 DEF IsWalk
    <2> QED BY <2>5, <1>3
<1> QED BY <1>4, <1>5

\* Whatever holds of the start, and is handed on along every edge the walk
\* can take, holds of each node it visits.
LEMMA WalkStays ==
    ASSUME NEW edges, NEW x, NEW depth \in Nat, NEW S, x \in S,
           \A d \in edges : d.from \in S \cap Within(edges, x, depth) => d.to \in S
    PROVE  Within(edges, x, depth) \subseteq S
<1> DEFINE reach == CHOOSE f : IsWalk(f, edges, x, depth)
           W == Within(edges, x, depth)
<1>1. W = reach[depth]
    BY DEF Within, IsWalk
<1>2. IsWalk(reach, edges, x, depth)
    BY StagesExist
<1> HIDE DEF reach
<1>3. /\ reach[0] = {x}
      /\ \A n \in 1 .. depth : reach[n] = reach[n - 1] \cup Next1(edges, reach[n - 1])
    <2>1. \A n \in 0 .. depth : reach[n] = IF n = 0 THEN {x} ELSE reach[n - 1] \cup Next1(edges, reach[n - 1])
        BY <1>2 DEF IsWalk
    <2>2. 0 \in 0 .. depth /\ \A n \in 1 .. depth : n \in 0 .. depth /\ n # 0
        OBVIOUS
    <2> QED BY <2>1, <2>2
<1>4. ASSUME NEW n \in 0 .. depth PROVE reach[n] \subseteq W
    <2> DEFINE Bad == {k \in Nat : k <= depth /\ ~(reach[depth - k] \subseteq W)}
    <2>1. SUFFICES ASSUME Bad # {} PROVE FALSE
        <3>1. n = depth - (depth - n) /\ depth - n \in Nat /\ depth - n <= depth
            OBVIOUS
        <3> QED BY <3>1
    <2>2. PICK m \in Bad : \A k \in Bad : m <= k
        <3>1. Bad \in SUBSET Nat
            OBVIOUS
        <3> HIDE DEF Bad
        <3> QED BY <2>1, <3>1, LeastNumber
    <2>3. m # 0
        BY <1>1, <2>2
    <2>4. m - 1 \in Nat /\ m - 1 <= depth /\ m - 1 \notin Bad
        BY <2>2, <2>3
    <2>5. reach[depth - (m - 1)] \subseteq W
        BY <2>4
    <2>6. depth - (m - 1) \in 1 .. depth /\ (depth - (m - 1)) - 1 = depth - m
        BY <2>2, <2>3
    <2>7. reach[depth - m] \subseteq W
        BY <1>3, <2>5, <2>6
    <2> QED BY <2>2, <2>7
<1>5. ASSUME NEW n \in 0 .. depth PROVE reach[n] \subseteq S
    <2> DEFINE Bad == {k \in Nat : k <= depth /\ ~(reach[k] \subseteq S)}
    <2>1. SUFFICES ASSUME Bad # {} PROVE FALSE
        OBVIOUS
    <2>2. PICK m \in Bad : \A k \in Bad : m <= k
        <3>1. Bad \in SUBSET Nat
            OBVIOUS
        <3> HIDE DEF Bad
        <3> QED BY <2>1, <3>1, LeastNumber
    <2>3. m # 0
        BY <1>3, <2>2
    <2>4. m \in 1 .. depth /\ m - 1 \in 0 .. depth /\ m - 1 \notin Bad
        BY <2>2, <2>3
    <2>5. reach[m - 1] \subseteq S /\ reach[m - 1] \subseteq W
        BY <2>4, <1>4
    <2>6. Next1(edges, reach[m - 1]) \subseteq S
        BY <2>5 DEF Next1
    <2>7. reach[m] \subseteq S
        BY <1>3, <2>4, <2>5, <2>6
    <2> QED BY <2>2, <2>7
<1> QED BY <1>1, <1>5

-----------------------------------------------------------------------------
(* The scan *)

\* What audit_estate returns, field by field.
LEMMA AuditFields ==
    ASSUME NEW d, NEW hidden
    PROVE  LET a == Audit(d, hidden) IN
           /\ a.files = Inventoried(d, hidden) /\ a.read = Read(d, hidden)
           /\ a.hashed = Hashed(d, hidden)
           /\ a.root = [f \in Inventoried(d, hidden) |->
                          RootOf(d, Roots(d, Inventoried(d, hidden), Read(d, hidden)), f)]
           /\ a.delete = Delete(d, Inventoried(d, hidden), Hashed(d, hidden), hidden)
           /\ a # NotRun
<1> DEFINE files == Inventoried(d, hidden)
           roots == Roots(d, files, Read(d, hidden))
           score == [r \in roots |-> Score(d, files, Read(d, hidden), r)]
           a == Audit(d, hidden)
<1>1. a = [files |-> files, read |-> Read(d, hidden), hashed |-> Hashed(d, hidden), roots |-> roots,
           root |-> [f \in files |-> RootOf(d, roots, f)], score |-> score,
           extract |-> Extract(d, files),
           delete |-> Delete(d, files, Hashed(d, hidden), hidden),
           quarantine |-> Quarantine(d, files, Read(d, hidden))]
    BY DEF Audit
<1> HIDE DEF score, roots, files
<1>2. a.files = files /\ a.read = Read(d, hidden) /\ a.hashed = Hashed(d, hidden)
      /\ a.root = [f \in files |-> RootOf(d, roots, f)]
      /\ a.delete = Delete(d, files, Hashed(d, hidden), hidden)
    BY <1>1
<1>3. "files" \in DOMAIN a
    BY <1>1
<1>4. DOMAIN NotRun = {}
    BY DEF NotRun
<1> QED BY <1>2, <1>3, <1>4 DEF files, roots

\* What was read was hashed, and both were listed.
LEMMA ReadIsHashed ==
    ASSUME NEW d, NEW hidden
    PROVE  /\ Read(d, hidden) \subseteq Hashed(d, hidden)
           /\ Hashed(d, hidden) \subseteq Inventoried(d, hidden)
           /\ Inventoried(d, hidden) \subseteq d.paths
           /\ \A f \in Inventoried(d, hidden) : Reachable(d, f)
BY DEF Read, Hashed, Inventoried

\* Of the copies of a content the first by name is never proposed
\* (_delete_candidates and the duplicate groups, appraisal.py:69-88, 149-176).
LEMMA FirstCopyStays ==
    ASSUME NEW d \in Disks, NEW hidden, NEW f \in Hashed(d, hidden), d.size[f] > 0
    PROVE  \E kept \in Hashed(d, hidden) \ Delete(d, Inventoried(d, hidden), Hashed(d, hidden), hidden) :
              d.digest[kept] = d.digest[f]
<1> DEFINE hashed == Hashed(d, hidden)
           twins == {g \in hashed : d.digest[g] = d.digest[f]}
           ranks == {d.order[g] : g \in twins}
<1>1. \A g \in hashed : d.order[g] \in Nat /\ g \in Inventoried(d, hidden)
    BY ReadIsHashed, DisksAssumption
<1>2. ranks \in SUBSET Nat /\ ranks # {}
    <2>1. f \in twins
        OBVIOUS
    <2> QED BY <1>1, <2>1
<1>3. PICK m \in ranks : \A k \in ranks : m <= k
    <2> HIDE DEF ranks
    <2> QED BY <1>2, LeastNumber
<1>4. PICK kept \in twins : d.order[kept] = m
    BY <1>3
<1>5. \A g \in twins : ~(d.order[g] < d.order[kept])
    <2>1. ASSUME NEW g \in twins PROVE m <= d.order[g] /\ d.order[g] \in Nat
        <3>1. d.order[g] \in ranks /\ g \in hashed
            OBVIOUS
        <3> HIDE DEF ranks, twins, hashed
        <3> QED BY <1>1, <1>3, <3>1
    <2>2. m \in Nat
        BY <1>2, <1>3
    <2> HIDE DEF ranks, twins, hashed
    <2> QED BY <1>4, <2>1, <2>2
<1>6. \A g \in Twins(d, hashed, kept) : g \in twins
    BY <1>4 DEF Twins
<1>7. kept \notin Delete(d, Inventoried(d, hidden), hashed, hidden)
    BY <1>1, <1>4, <1>5, <1>6 DEF Delete
<1> QED BY <1>4, <1>7

\* The root of a file is a directory of the disk or the top (project_root_for).
LEMMA RootIsDirectory ==
    ASSUME NEW d \in Disks, NEW hidden, NEW f
    PROVE  RootOf(d, Roots(d, Inventoried(d, hidden), Read(d, hidden)), f) \in DOMAIN d.depth \cup {Top}
<1> DEFINE roots == Roots(d, Inventoried(d, hidden), Read(d, hidden))
           around == {r \in roots : Encloses(d, r, f)}
           depths == {d.depth[r] : r \in around}
<1>1. roots \subseteq DOMAIN d.depth
    BY ReadIsHashed, DisksAssumption DEF Roots, ManifestRoots
<1> HIDE DEF roots
<1>2. CASE around = {}
    <2>1. RootOf(d, roots, f) = Top
        BY <1>2 DEF RootOf
    <2> QED BY <2>1 DEF roots
<1>3. CASE around # {}
    <2>1. PICK last \in DOMAIN d.depth : \A s \in DOMAIN d.depth : d.depth[s] <= d.depth[last]
        BY DisksAssumption
    <2>2. \A r \in DOMAIN d.depth : d.depth[r] \in Nat
        BY DisksAssumption
    <2> DEFINE below == {d.depth[last] - d.depth[r] : r \in around}
    <2>3. below \in SUBSET Nat /\ below # {}
        BY <1>1, <1>3, <2>1, <2>2
    <2>4. PICK m \in below : \A k \in below : m <= k
        <3> HIDE DEF below
        <3> QED BY <2>3, LeastNumber
    <2>5. PICK r \in around : m = d.depth[last] - d.depth[r]
        BY <2>4
    <2>6. \A s \in around : d.depth[s] <= d.depth[r]
        <3>1. ASSUME NEW s \in around PROVE d.depth[s] <= d.depth[r]
            <4>1. d.depth[last] - d.depth[s] \in below
                OBVIOUS
            <4>2. d.depth[last] - d.depth[r] <= d.depth[last] - d.depth[s]
                BY <2>4, <2>5, <4>1
            <4>3. d.depth[last] \in Nat /\ d.depth[r] \in Nat /\ d.depth[s] \in Nat
                BY <1>1, <2>2
            <4> HIDE DEF around, below
            <4> QED BY <4>2, <4>3
        <3> QED BY <3>1
    <2>7. RootOf(d, roots, f) = CHOOSE q \in around : \A s \in around : d.depth[s] <= d.depth[q]
        BY <1>3 DEF RootOf
    <2>8. RootOf(d, roots, f) \in around
        <3> HIDE DEF around
        <3> QED BY <2>5, <2>6, <2>7
    <2> QED BY <1>1, <2>8 DEF roots
<1> QED BY <1>2, <1>3

\* What the technical analysis gets of an audit.
LEMMA EstateFields ==
    ASSUME NEW d, NEW hidden
    PROVE  LET a == Audit(d, hidden)
               e == EstateOf(d, a)
           IN  /\ e.files = a.files /\ e.root = a.root /\ e.role = d.role
               /\ e.language = d.language /\ e.verdict = d.verdict /\ e.fixture = d.fixture
               /\ e.refs = d.refs /\ e.imports = d.imports /\ e.topics = d.topics
               /\ e.symbols = {s \in d.symbols : s.file \in a.files}
               /\ e.surfaces = {x \in d.surfaces : x.file \in a.files}
               /\ \A f \in a.files : /\ e.large[f] = (d.size[f] > MaxParse)
                                     /\ e.read[f] = (f \in a.read)
                                     /\ e.hashed[f] = (f \in a.hashed)
<1> DEFINE a == Audit(d, hidden)
<1> HIDE DEF a
<1> QED BY DEF EstateOf

-----------------------------------------------------------------------------
(* The graph and its workflows *)

\* e is what the technical analysis gets of a disk.
Scanned(d, hidden) == EstateOf(d, Audit(d, hidden))

\* On a scanned estate an identity has one file, which is listed, and is no
\* path and no family.
LEMMA IdentitiesOf ==
    ASSUME NEW d \in Disks, NEW hidden, NEW e, e = Scanned(d, hidden)
    PROVE  /\ \A x \in Symbols(e) : x \in d.symbols /\ x.file \in Parsed(e)
           /\ \A x \in Surfaces(e) : x \in d.surfaces
           /\ \A x \in Symbols(e) \cup Surfaces(e) :
                 x.file \in e.files /\ x.id \notin e.files /\ x.id \notin Families(e)
           /\ \A x \in d.symbols \cup d.surfaces, y \in Symbols(e) \cup Surfaces(e) : x.id = y.id => x.file = y.file
           /\ \A x \in d.symbols, y \in Symbols(e) : x.id = y.id => x \in Symbols(e)
           /\ Parsed(e) \subseteq e.files
<1>1. /\ e.files = Inventoried(d, hidden) /\ e.files \subseteq d.paths
      /\ e.root = [f \in e.files |-> RootOf(d, Roots(d, Inventoried(d, hidden), Read(d, hidden)), f)]
      /\ e.symbols = {s \in d.symbols : s.file \in e.files}
      /\ e.surfaces = {x \in d.surfaces : x.file \in e.files}
    <2> DEFINE a == Audit(d, hidden)
    <2>1. /\ a.files = Inventoried(d, hidden)
          /\ a.root = [f \in Inventoried(d, hidden) |-> RootOf(d, Roots(d, Inventoried(d, hidden), Read(d, hidden)), f)]
        BY AuditFields
    <2>2. /\ e.files = a.files /\ e.root = a.root
          /\ e.symbols = {s \in d.symbols : s.file \in a.files}
          /\ e.surfaces = {x \in d.surfaces : x.file \in a.files}
        BY EstateFields DEF Scanned
    <2> QED BY <2>1, <2>2, ReadIsHashed
<1>2. \A x \in Symbols(e) : x \in d.symbols /\ x.file \in Parsed(e)
    BY <1>1 DEF Symbols
<1>3. \A x \in Surfaces(e) : x \in d.surfaces /\ x.file \in e.files
    BY <1>1 DEF Surfaces
<1>4. Parsed(e) \subseteq e.files
    BY DEF Parsed
<1>5. \A x \in d.symbols \cup d.surfaces, y \in d.symbols \cup d.surfaces : x.id = y.id => x.file = y.file
    BY IdentitiesAssumption
<1>6. ASSUME NEW x \in d.symbols, NEW y \in Symbols(e), x.id = y.id PROVE x \in Symbols(e)
    <2>1. x.file = y.file
        BY <1>2, <1>5, <1>6
    <2> QED BY <2>1, <1>1, <1>2, <1>4 DEF Symbols
<1>7. ASSUME NEW f \in e.files PROVE FamilyOf(e, f) \in {Canonical[r] : r \in DOMAIN Canonical}
    <2>1. e.root[f] \in DOMAIN d.depth \cup {Top}
        BY <1>1, RootIsDirectory
    <2>2. DOMAIN d.depth \cup {Top} \subseteq DOMAIN Canonical
        BY IdentitiesAssumption
    <2> QED BY <2>1, <2>2 DEF FamilyOf
<1>8. \A x \in d.symbols \cup d.surfaces : x.id \notin d.paths \cup {Canonical[r] : r \in DOMAIN Canonical}
    BY IdentitiesAssumption
<1>9. \A x \in Symbols(e) \cup Surfaces(e) : x.id \notin Families(e)
    BY <1>2, <1>3, <1>7, <1>8 DEF Families
<1> QED BY <1>1, <1>2, <1>3, <1>4, <1>5, <1>6, <1>8, <1>9

\* A family that belongs to a workflow of x whose nodes are `seen`: its own,
\* or one that a file it passes imports from.
Joined(e, x, seen, family) ==
    \/ family = FamilyOf(e, x.file)
    \/ \E i \in e.imports, c \in Symbols(e) :
          c.id \in seen /\ c.file = i.file /\ i.source \in e.files /\ FamilyOf(e, i.source) = family

\* The identities of symbols and surfaces of such a family.
Lawful(e, x, seen) ==
    {z.id : z \in {y \in Symbols(e) \cup Surfaces(e) : Joined(e, x, seen, FamilyOf(e, y.file))}}

\* A call leads to the same file, to what an import names, or to the family
\* (analyzer.py:218-246).
LEMMA CallsAreLawful ==
    ASSUME NEW d \in Disks, NEW hidden, NEW e, e = Scanned(d, hidden), NEW x, NEW seen,
           NEW c \in CallEdges(e), c.from \in seen \cap Lawful(e, x, seen)
    PROVE  c.to \in Lawful(e, x, seen)
<1>1. PICK r \in e.refs : /\ r.file \in Parsed(e) /\ ParseStatus(e, r.file) \in Understood
                          /\ \E s \in Targets(e, r) : c.from = r.caller /\ c.to = s.id
    BY DEF CallEdges, Edge
<1>2. PICK s \in Targets(e, r) : c.from = r.caller /\ c.to = s.id
    BY <1>1
<1>3. PICK z \in Symbols(e) \cup Surfaces(e) : z.id = c.from /\ Joined(e, x, seen, FamilyOf(e, z.file))
    BY DEF Lawful
<1>4. e.refs = d.refs /\ e.symbols = {y \in d.symbols : y.file \in e.files}
    BY EstateFields DEF Scanned
<1>5. r.caller # r.file
    BY <1>1, <1>2, <1>3, IdentitiesOf
<1>6. PICK caller \in d.symbols : caller.id = r.caller /\ caller.file = r.file
    BY <1>4, <1>5, IdentitiesAssumption
<1>7. caller \in Symbols(e)
    BY <1>1, <1>4, <1>6, IdentitiesOf DEF Symbols
<1>8. z.file = r.file
    BY <1>2, <1>3, <1>6, IdentitiesOf
<1>9. s \in Symbols(e)
    BY DEF Targets, Named
<1>10. Joined(e, x, seen, FamilyOf(e, s.file))
    <2>1. CASE s.file = r.file
        BY <1>3, <1>8, <2>1
    <2>2. CASE \E i \in e.imports : i.file = r.file /\ s.file = i.source
        <3>1. PICK i \in e.imports : i.file = r.file /\ s.file = i.source
            BY <2>2
        <3>2. caller.id \in seen /\ caller.file = i.file /\ i.source \in e.files
            BY <1>2, <1>6, <1>9, <3>1, IdentitiesOf
        <3> QED BY <1>7, <3>1, <3>2 DEF Joined
    <2>3. CASE FamilyOf(e, s.file) = FamilyOf(e, r.file)
        BY <1>3, <1>8, <2>3
    <2> QED BY <2>1, <2>2, <2>3 DEF Targets, Named
<1> QED BY <1>2, <1>9, <1>10 DEF Lawful

\* The edges of a surface stay in its family (analyzer.py:247-283).
LEMMA SurfaceEdgesAreLawful ==
    ASSUME NEW d \in Disks, NEW hidden, NEW e, e = Scanned(d, hidden), NEW entry, NEW seen,
           NEW c \in SurfaceEdges(e), c.from \in Lawful(e, entry, seen)
    PROVE  c.to \in Lawful(e, entry, seen)
<1>1. PICK z \in Symbols(e) \cup Surfaces(e) : z.id = c.from /\ Joined(e, entry, seen, FamilyOf(e, z.file))
    BY DEF Lawful
<1>2. ASSUME NEW u \in Symbols(e) \cup Surfaces(e), NEW v \in Symbols(e) \cup Surfaces(e),
             c.from = u.id, c.to = v.id, FamilyOf(e, u.file) = FamilyOf(e, v.file)
      PROVE  c.to \in Lawful(e, entry, seen)
    <2>1. u.file = z.file
        BY <1>1, <1>2, IdentitiesOf
    <2> QED BY <1>1, <1>2, <2>1 DEF Lawful
<1>3. CASE \E y \in Surfaces(e) : c = Edge(y.file, y.id, "contains")
    BY <1>1, <1>3, IdentitiesOf DEF Edge
<1>4. CASE \E y \in Surfaces(e) : y.owner \in {s.id : s \in Symbols(e)} /\ c = Edge(y.owner, y.id, OwnerType[y.type])
    <2>1. PICK y \in Surfaces(e), s \in Symbols(e) : y.owner = s.id /\ c = Edge(y.owner, y.id, OwnerType[y.type])
        BY <1>4
    <2>2. s.file = y.file
        BY <2>1, IdentitiesOf, IdentitiesAssumption
    <2> QED BY <1>2, <2>1, <2>2 DEF Edge
<1>5. CASE \E y \in Surfaces(e), s \in Symbols(e) : s \in Handler(e, y) /\ c = Edge(y.id, s.id, "routes_to")
    <2>1. PICK y \in Surfaces(e), s \in Symbols(e) : s \in Handler(e, y) /\ c = Edge(y.id, s.id, "routes_to")
        BY <1>5
    <2>2. FamilyOf(e, s.file) = FamilyOf(e, y.file)
        BY <2>1 DEF Handler, Named
    <2> QED BY <1>2, <2>1, <2>2 DEF Edge
<1>6. CASE \E y, q \in Surfaces(e), type \in {"triggers", "consumed_by"} :
               FamilyOf(e, y.file) = FamilyOf(e, q.file) /\ c = Edge(y.id, q.id, type)
    BY <1>2, <1>6 DEF Edge
<1> DEFINE all == Surfaces(e)
           parsed == {s.id : s \in Symbols(e)}
           family(x) == FamilyOf(e, x.file)
           Contained == {Edge(x.file, x.id, "contains") : x \in all}
           Owned == {Edge(x.owner, x.id, OwnerType[x.type]) :
                       x \in {y \in all : y.type # "endpoint" /\ y.owner \in parsed}}
           Routed == UNION {{Edge(x.id, s.id, "routes_to") : s \in OneOf(Handler(e, x))} :
                       x \in {y \in all : y.type \in {"endpoint", "queue_consumer"} /\ Handler(e, y) # {}}}
           Paired == {Edge(p[1].id, p[2].id, IF p[1].type = "ui_action" THEN "triggers" ELSE "consumed_by") :
                       p \in {q \in all \X all :
                                /\ family(q[1]) = family(q[2])
                                /\ q[1].target = q[2].name /\ q[1].target # NoName
                                /\ <<q[1].type, q[2].type>> \in {<<"ui_action", "endpoint">>,
                                                                 <<"queue_producer", "queue_consumer">>}}}
<1>7. SurfaceEdges(e) = Contained \cup Owned \cup Routed \cup Paired
    BY DEF SurfaceEdges
<1>8. CASE c \in Contained
    BY <1>3, <1>8
<1>9. CASE c \in Owned
    BY <1>4, <1>9
<1>10. CASE c \in Routed
    <2>1. PICK y \in all : Handler(e, y) # {} /\ c \in {Edge(y.id, s.id, "routes_to") : s \in OneOf(Handler(e, y))}
        BY <1>10
    <2>2. PICK s \in OneOf(Handler(e, y)) : c = Edge(y.id, s.id, "routes_to")
        BY <2>1
    <2>3. s \in Handler(e, y) /\ s \in Symbols(e)
        BY <2>1, <2>2 DEF OneOf, Handler, Named
    <2> QED BY <1>5, <2>2, <2>3
<1>11. CASE c \in Paired
    <2>1. PICK p \in all \X all : /\ family(p[1]) = family(p[2])
                                  /\ c = Edge(p[1].id, p[2].id, IF p[1].type = "ui_action" THEN "triggers" ELSE "consumed_by")
        BY <1>11
    <2> QED BY <1>6, <2>1
<1> QED BY <1>7, <1>8, <1>9, <1>10, <1>11

\* The limits of the graph keep a part of it.
LEMMA KeptIsPart ==
    ASSUME NEW S, NEW most, NEW part \in KeptOf(S, most)
    PROVE  part \subseteq S
BY DEF KeptOf, kSubset

\* Every edge leads to a symbol or surface of a family joined before.
LEMMA EdgesAreLawful ==
    ASSUME NEW d \in Disks, NEW hidden, NEW e, e = Scanned(d, hidden), NEW x, NEW seen,
           NEW c \in Graph(e).edges, c.from \in seen \cap Lawful(e, x, seen)
    PROVE  c.to \in Lawful(e, x, seen)
<1>1. Graph(e).edges = {Edge(s.file, s.id, "defines") : s \in Symbols(e)} \cup CallEdges(e) \cup SurfaceEdges(e)
    BY DEF Graph
<1>2. CASE c \in {Edge(s.file, s.id, "defines") : s \in Symbols(e)}
    BY <1>2, IdentitiesOf DEF Lawful, Edge
<1>3. CASE c \in CallEdges(e)
    BY <1>3, CallsAreLawful
<1>4. CASE c \in SurfaceEdges(e)
    BY <1>4, SurfaceEdgesAreLawful
<1> QED BY <1>1, <1>2, <1>3, <1>4

\* A workflow: what it visits, and what its status says (analyzer.py:317-381).
LEMMA WorkflowFields ==
    ASSUME NEW e, NEW g, NEW x, NEW depth
    PROVE  LET w == Workflow(e, g, x, depth)
           IN  /\ w.entry = x.id /\ w.family = FamilyOf(e, x.file)
               /\ w.steps = Within(g.edges, x.id, depth) \cap g.nodes
               /\ w.status = "verified_end_to_end" =>
                     /\ \E y \in Surfaces(e) : y.id \in w.steps /\ y.type = "endpoint"
                     /\ Implementation(e, w.steps) # {}
<1> DEFINE w == Workflow(e, g, x, depth)
           steps == Within(g.edges, x.id, depth) \cap g.nodes
<1>1. w.entry = x.id /\ w.family = FamilyOf(e, x.file) /\ w.steps = steps
    BY DEF Workflow
<1>2. w.status = "verified_end_to_end" =>
         /\ {y \in Surfaces(e) : y.id \in steps /\ y.type = "endpoint"} # {}
         /\ Implementation(e, steps) # {}
    BY DEF Workflow
<1> QED BY <1>1, <1>2

\* Every symbol a workflow visits is of its family, or of one that a file it
\* visits imports from.
LEMMA VisitedIsJoined ==
    ASSUME NEW d \in Disks, NEW hidden, NEW e, e = Scanned(d, hidden),
           NEW nodes \in SUBSET Graph(e).nodes, NEW flows, NEW depth \in Nat,
           NEW x \in Entries(e), NEW w, w = Workflow(e, Kept(Graph(e), nodes, flows), x, depth),
           NEW s \in d.symbols, s.id \in w.steps
    PROVE  s \in Symbols(e) /\ Joined(e, x, w.steps, FamilyOf(e, s.file))
<1> DEFINE g == Kept(Graph(e), nodes, flows)
<1>1. /\ g.nodes = nodes
      /\ \A c \in g.edges : c \in Graph(e).edges /\ c.from \in nodes
    BY DEF Kept
<1>2. w.steps = Within(g.edges, x.id, depth) \cap nodes
    BY <1>1, WorkflowFields
<1>3. x \in Surfaces(e) /\ x.id \in Lawful(e, x, w.steps)
    BY DEF Entries, Lawful, Joined
<1>4. ASSUME NEW c \in g.edges, c.from \in Lawful(e, x, w.steps) \cap Within(g.edges, x.id, depth)
      PROVE  c.to \in Lawful(e, x, w.steps)
    <2>1. c \in Graph(e).edges /\ c.from \in w.steps \cap Lawful(e, x, w.steps)
        BY <1>1, <1>2, <1>4
    <2> QED BY <2>1, EdgesAreLawful
<1>5. Within(g.edges, x.id, depth) \subseteq Lawful(e, x, w.steps)
    <2> HIDE DEF g
    <2> QED BY <1>3, <1>4, WalkStays
<1>6. s.id \in nodes /\ s.id \in Lawful(e, x, w.steps)
    BY <1>2, <1>5
<1>7. PICK z \in Symbols(e) \cup Surfaces(e) : z.id = s.id /\ Joined(e, x, w.steps, FamilyOf(e, z.file))
    BY <1>6 DEF Lawful
<1>8. s.file = z.file
    BY <1>7, IdentitiesOf
<1>9. s \in Symbols(e)
    <2>1. Graph(e).nodes = {FamilyOf(e, y.file) : y \in Symbols(e)}
                           \cup {f \in Parsed(e) : e.language[f] = "supported"}
                           \cup {y.id : y \in Symbols(e)} \cup {y.id : y \in Surfaces(e)}
        BY DEF Graph
    <2>2. s.id \notin {FamilyOf(e, y.file) : y \in Symbols(e)}
        BY <1>7, IdentitiesOf DEF Families
    <2>3. s.id \notin Parsed(e)
        BY <1>7, IdentitiesOf
    <2>4. CASE s.id \in {y.id : y \in Symbols(e)}
        BY <2>4, IdentitiesOf
    <2>5. CASE s.id \in {y.id : y \in Surfaces(e)}
        BY <2>5, IdentitiesOf, IdentitiesAssumption
    <2> QED BY <1>6, <2>1, <2>2, <2>3, <2>4, <2>5
<1> QED BY <1>7, <1>8, <1>9

-----------------------------------------------------------------------------
(* What is concluded *)

\* What the technical analysis returns, field by field.
LEMMA ReconstructFields ==
    ASSUME NEW e, NEW nodes, NEW flows, NEW depth
    PROVE  LET t == Reconstruct(e, nodes, flows, depth)
               W == Workflows(e, Kept(Graph(e), nodes, flows), depth)
               caps == Capabilities(e, W)
           IN  /\ t.workflows = W
               /\ t.capabilities = {Applied(c, Contradictions(e, caps)) : c \in caps}
               /\ t.contradictions = Contradictions(e, caps)
               /\ t # NotRun
<1> DEFINE g == Kept(Graph(e), nodes, flows)
           W == Workflows(e, g, depth)
           caps == Capabilities(e, W)
           applied == {Applied(c, Contradictions(e, caps)) : c \in caps}
           told == Contradictions(e, caps)
           t == Reconstruct(e, nodes, flows, depth)
<1>1. t = [workflows |-> W, capabilities |-> applied, contradictions |-> told,
           complete |-> Eligible(e, Parsed(e)), truncated |-> g.nodes # Graph(e).nodes]
    BY DEF Reconstruct
<1> HIDE DEF W, applied, told, t
<1>2. t.workflows = W /\ t.capabilities = applied /\ t.contradictions = told
      /\ "workflows" \in DOMAIN t
    BY <1>1
<1>3. DOMAIN NotRun = {}
    BY DEF NotRun
<1> QED BY <1>2, <1>3 DEF W, applied, told, t

\* What VerifiedIsReal says of one workflow.
RealWorkflow(d, a, w) ==
    /\ \E x \in d.surfaces : x.id \in w.steps /\ x.type = "endpoint"
    /\ \E s \in d.symbols : s.id \in w.steps /\ ~s.stub /\ ~d.fixture[s.file]
    /\ \A s \in d.symbols : s.id \in w.steps =>
          \/ Canonical[a.root[s.file]] = w.family
          \/ \E i \in d.imports, c \in d.symbols :
                /\ c.id \in w.steps /\ c.file = i.file /\ i.source \in a.files
                /\ Canonical[a.root[i.source]] = Canonical[a.root[s.file]]

\* A verified workflow is of real symbols.
LEMMA WorkflowsAreReal ==
    ASSUME NEW d \in Disks, NEW hidden, NEW a, a = Audit(d, hidden), NEW e, e = Scanned(d, hidden),
           NEW nodes \in SUBSET Graph(e).nodes, NEW flows, NEW depth \in Nat,
           NEW w \in Verified(Workflows(e, Kept(Graph(e), nodes, flows), depth))
    PROVE  RealWorkflow(d, a, w)
<1>1. PICK x \in Entries(e) : w = Workflow(e, Kept(Graph(e), nodes, flows), x, depth)
    BY DEF Verified, Workflows
<1>2. /\ \E y \in Surfaces(e) : y.id \in w.steps /\ y.type = "endpoint"
      /\ Implementation(e, w.steps) # {}
      /\ w.family = FamilyOf(e, x.file)
    <2>1. w.status = "verified_end_to_end"
        BY DEF Verified
    <2> QED BY <1>1, <2>1, WorkflowFields
<1>3. /\ e.root = a.root /\ e.files = a.files /\ e.imports = d.imports /\ e.fixture = d.fixture
    BY EstateFields DEF Scanned
<1>4. \E s \in d.symbols : s.id \in w.steps /\ ~s.stub /\ ~d.fixture[s.file]
    BY <1>2, <1>3, IdentitiesOf DEF Implementation
<1>5. ASSUME NEW s \in d.symbols, s.id \in w.steps
      PROVE  \/ Canonical[a.root[s.file]] = w.family
             \/ \E i \in d.imports, c \in d.symbols :
                   /\ c.id \in w.steps /\ c.file = i.file /\ i.source \in a.files
                   /\ Canonical[a.root[i.source]] = Canonical[a.root[s.file]]
    <2>1. Joined(e, x, w.steps, FamilyOf(e, s.file))
        BY <1>1, <1>5, VisitedIsJoined
    <2>2. \A f : FamilyOf(e, f) = Canonical[a.root[f]]
        BY <1>3 DEF FamilyOf
    <2> QED BY <1>2, <1>3, <2>1, <2>2, IdentitiesOf DEF Joined
<1>6. \E y \in d.surfaces : y.id \in w.steps /\ y.type = "endpoint"
    BY <1>2, IdentitiesOf
<1> QED BY <1>4, <1>5, <1>6 DEF RealWorkflow

\* A document is contradicted only where every code file of its family was
\* understood (_coverage_snapshot and _contradictions, analyzer.py:543-575,
\* 665-716).
LEMMA ContradictedIsCovered ==
    ASSUME NEW d \in Disks, NEW hidden, NEW a, a = Audit(d, hidden), NEW e, e = Scanned(d, hidden),
           NEW caps, NEW k \in Contradictions(e, caps), k.claim # NoName,
           NEW f \in a.files, d.language[f] # "none", Canonical[a.root[f]] = k.family
    PROVE  /\ f \in a.read /\ d.size[f] <= MaxParse
           /\ d.language[f] = "supported" /\ d.verdict[f] \in Understood
<1>1. /\ e.files = a.files /\ e.root = a.root /\ e.language = d.language /\ e.verdict = d.verdict
      /\ e.large[f] = (d.size[f] > MaxParse) /\ e.read[f] = (f \in a.read)
    BY EstateFields DEF Scanned
<1>2. FamilyEligible(e, k.family)
    <2> DEFINE ours(family, key) == {c \in caps : c.key = key /\ family \in c.families}
               claimed(family) == UNION {e.claims[g] : g \in Documents(e, family)}
               docs == {[family |-> p[1], claim |-> p[2], against |-> ours(p[1], p[2]) # {}] :
                          p \in {q \in Families(e) \X Claims :
                                   /\ FamilyEligible(e, q[1])
                                   /\ q[2] \in claimed(q[1])
                                   /\ ~Confirmed(caps, q[1], q[2])}}
               mocks == {[family |-> FamilyOf(e, x.file), claim |-> NoName, against |-> FALSE] :
                           x \in {y \in Surfaces(e) : y.mock}}
    <2>1. k \in docs \cup mocks
        BY DEF Contradictions
    <2>2. k \notin mocks
        OBVIOUS
    <2> QED BY <2>1, <2>2
<1>3. f \in Parsed(e) /\ FamilyOf(e, f) = k.family
    BY <1>1 DEF Parsed, FamilyOf
<1>4. ParseStatus(e, f) \notin Blocking
    BY <1>2, <1>3 DEF FamilyEligible, Eligible
<1>5. f \in d.paths /\ d.size[f] \in Nat /\ MaxParse \in Nat
      /\ d.language[f] \in {"none", "supported", "other"}
      /\ d.verdict[f] \in {"success", "partial", "invalid_syntax", "parser_failure"}
    <2>1. f \in d.paths
        <3>1. a.files = Inventoried(d, hidden)
            BY AuditFields
        <3> QED BY <3>1, ReadIsHashed
    <2> QED BY <2>1, DisksAssumption, AnalysisConstants
<1>6. d.language[f] = "supported"
    BY <1>1, <1>4, <1>5 DEF ParseStatus, Blocking
<1>7. ~(d.size[f] > MaxParse) /\ f \in a.read
    BY <1>1, <1>4, <1>6 DEF ParseStatus, Blocking
<1>8. ParseStatus(e, f) = d.verdict[f]
    BY <1>1, <1>6, <1>7 DEF ParseStatus
<1> QED BY <1>4, <1>5, <1>6, <1>7, <1>8 DEF Blocking, Understood

\* The fields of a capability, as far as they are modelled.
IsCapability(c) ==
    \E key, status, entries, families :
        c = [key |-> key, status |-> status, workflows |-> entries, families |-> families]

\* A verified capability with a name rests on a verified workflow, and a name
\* has one capability (_capabilities, analyzer.py:384-500).
LEMMA CapabilityRests ==
    ASSUME NEW e, NEW W, NEW key
    PROVE  /\ \A c \in NamedCapability(e, W, key) :
                 /\ IsCapability(c) /\ c.key = key
                 /\ c.status = "verified_end_to_end" => \E w \in Verified(W) : w.entry \in c.workflows
           /\ \A b, c \in NamedCapability(e, W, key) : b = c
<1> DEFINE matched == {s \in Production(e) : Matches(e, s, key)}
           ids     == {s.id : s \in matched}
           tests   == {s \in Symbols(e) \ Production(e) : Matches(e, s, key)}
           surface(type) == {x \in Surfaces(e) : x.type = type /\ key \in Says(x.name)}
           related == {w \in W : w.steps \cap ids # {} \/ key \in w.words}
           partial == {w \in related : w.status \in {"partially_implemented", "implemented_but_disconnected"}}
           substantive == {s \in matched : ~s.stub}
           disconnected == \E w \in partial : w.status = "implemented_but_disconnected"
           status  == IF matched # {} /\ substantive = {} THEN "interface_only"
                      ELSE IF Verified(related) # {} THEN "verified_end_to_end"
                      ELSE IF partial # {} /\ matched # {}
                           THEN IF disconnected THEN "implemented_but_disconnected" ELSE "partially_implemented"
                      ELSE IF substantive # {}
                           THEN IF \E w \in W : w.targets \cap ids # {}
                                THEN "partially_implemented" ELSE "implemented_but_disconnected"
                      ELSE IF surface("schema") # {} THEN "schema_only"
                      ELSE IF surface("integration") # {}
                           THEN IF \A x \in surface("integration") : ~x.called
                                THEN "configuration_only" ELSE "partially_implemented"
                      ELSE IF tests # {} THEN "test_or_mock_only" ELSE "inferred"
           families == {FamilyOf(e, x.file) : x \in matched \cup tests
                                \cup surface("schema") \cup surface("integration")}
                            \cup {w.family : w \in related}
           entries == {w.entry : w \in related}
           one == [key |-> key, status |-> status, workflows |-> entries, families |-> families]
<1>1. NamedCapability(e, W, key) = IF matched \cup tests \cup surface("schema") \cup surface("integration") = {}
                                   THEN {} ELSE {one}
    BY DEF NamedCapability
<1>2. \A c \in NamedCapability(e, W, key) : c = one
    <2> HIDE DEF one
    <2> QED BY <1>1
<1>3. status = "verified_end_to_end" => Verified(related) # {}
    <2> HIDE DEF matched, substantive, related, partial, disconnected, surface, tests, ids
    <2> QED OBVIOUS
<1>4. Verified(related) # {} => \E w \in Verified(W) : w.entry \in entries
    BY DEF Verified
<1>5. one.key = key /\ one.status = status /\ one.workflows = entries /\ IsCapability(one)
    <2> HIDE DEF status, entries, families
    <2> QED BY DEF IsCapability
<1> HIDE DEF one, status, related, entries
<1> QED BY <1>2, <1>3, <1>4, <1>5

-----------------------------------------------------------------------------
(* What is offered *)

\* The verified capabilities that a set of needed keys has.
VerifiedOf(needed, caps) ==
    {c \in {b \in caps : b.key \in needed} : c.status = "verified_end_to_end"}

\* The technical gate changes no more than status and score, and grants "high"
\* only when as many verified capabilities as the offer needs are there
\* (_apply_technical_gate).
LEMMA GateFields ==
    ASSUME NEW e, NEW t, NEW performed \in BOOLEAN, NEW caps
    PROVE  LET g == Gated(Candidate(e, t), performed, caps)
           IN  /\ g.proof = t.proof
               /\ g.reuse = UNION {Supporting(e, rule) : rule \in t.needs}
               /\ g.status = "high" => performed /\ Cardinality(VerifiedOf(t.proof, caps)) = Cardinality(t.proof)
<1> DEFINE o == Candidate(e, t)
           matched == {c \in caps : c.key \in o.proof}
           verified == {c \in matched : c.status = "verified_end_to_end"}
           loose == {c \in matched : c.status \in {"implemented_but_disconnected", "partially_implemented"}}
           cap(status, most) == [o EXCEPT !.status = status, !.overall = Least(@, most)]
           reuse == UNION {Supporting(e, rule) : rule \in t.needs}
           enough == Cardinality(matched) < Cardinality(o.proof)
           every == Cardinality(verified) = Cardinality(o.proof)
           weak == \E c \in matched : c.status \in Weak
           g == Gated(o, performed, caps)
<1>1. PICK title, evidence, score, completion, overall :
         o = [title |-> title, proof |-> t.proof, evidence |-> evidence, reuse |-> reuse,
              score |-> score, completion |-> completion, overall |-> overall, status |-> "none"]
    <2> DEFINE evidence   == UNION {First(e, Supporting(e, rule)) : rule \in t.needs}
               confidence == [rule \in t.needs |-> Confidence(e, rule)]
               level      == [rule \in t.needs |-> Completion(e, rule)]
               score      == Least(100, Mean(t, confidence))
               completion == Mean(t, level)
               effort     == IF completion >= 70 THEN "low" ELSE IF completion >= 45 THEN "moderate" ELSE "high"
               commercial == Most(20, Least(80, 48 + 4 * Cardinality(evidence) - (IF effort = "high" THEN 10 ELSE 0)))
               ease       == [low |-> 75, moderate |-> 55, high |-> 30]
               overall    == Round(35 * score + 25 * completion + 20 * commercial + 20 * ease[effort], 100)
    <2>1. o = [title |-> t.title, proof |-> t.proof, evidence |-> evidence, reuse |-> reuse,
               score |-> score, completion |-> completion, overall |-> overall, status |-> "none"]
        BY Zenon DEF Candidate
    <2> HIDE DEF reuse, evidence, score, completion, overall, o
    <2> QED BY <2>1
<1>2. g = CASE ~performed -> cap("not_performed", 50)
            [] performed /\ enough -> cap("low", 42)
            [] performed /\ o.proof # {} /\ every -> [o EXCEPT !.status = "high"]
            [] OTHER -> IF weak THEN cap("low", 42)
                        ELSE IF verified \cup loose # {} THEN cap("moderate", 55)
                        ELSE cap("low", 45)
    BY DEF Gated
<1> HIDE DEF o, reuse
<1>3. ASSUME NEW status, NEW most
      PROVE  LET x == cap(status, most)
             IN  x.proof = t.proof /\ x.reuse = reuse /\ x.status = status
    BY <1>1
<1>4. LET x == [o EXCEPT !.status = "high"]
      IN  x.proof = t.proof /\ x.reuse = reuse
    BY <1>1
<1>5. o.proof = t.proof
    BY <1>1
<1> HIDE DEF cap, enough, every, weak, verified, loose, g
<1>6. g.proof = t.proof /\ g.reuse = reuse /\ (g.status = "high" => performed /\ every)
    BY <1>2, <1>3, <1>4
<1>7. verified = VerifiedOf(o.proof, caps)
    BY DEF verified, VerifiedOf
<1> QED BY <1>5, <1>6, <1>7 DEF o, reuse, every, g

\* As many things with distinct keys as there are keys cover all of them.
LEMMA AllKeysCovered ==
    ASSUME NEW V, NEW P, IsFiniteSet(P), \A c \in V : c.key \in P,
           \A b, c \in V : b.key = c.key => b = c,
           Cardinality(V) = Cardinality(P)
    PROVE  \A key \in P : \E c \in V : c.key = key
<1> DEFINE keys == {c.key : c \in V}
           holder == [key \in keys |-> CHOOSE c \in V : c.key = key]
<1>1. keys \in SUBSET P /\ IsFiniteSet(keys)
    BY FS_Subset
<1>2. \A key \in keys : holder[key] \in V /\ holder[key].key = key
    OBVIOUS
<1>3. holder \in Bijection(keys, V)
    <2>1. holder \in [keys -> V]
        BY <1>2
    <2>2. \A j, k \in keys : holder[j] = holder[k] => j = k
        BY <1>2
    <2>3. \A c \in V : c.key \in keys /\ holder[c.key] = c
        BY <1>2
    <2> HIDE DEF holder, keys
    <2> QED BY <2>1, <2>2, <2>3 DEF Bijection, Injection, Surjection, IsInjective
<1>4. Cardinality(V) = Cardinality(keys)
    <2> HIDE DEF holder, keys
    <2> QED BY <1>1, <1>3, FS_Bijection DEF ExistsBijection
<1>5. keys = P
    <2> HIDE DEF keys
    <2> QED BY <1>1, <1>4, FS_Subset
<1> QED BY <1>5

\* What a template needs verified is finite, and named.
LEMMA TemplateProofs ==
    ASSUME NEW i \in DOMAIN Templates
    PROVE  IsFiniteSet(Templates[i].proof) /\ NoName \notin Templates[i].proof
<1>1. \E x, y : Templates[i].proof = {} \/ Templates[i].proof = {x, y}
    <2>1. i = 1 \/ i = 2 \/ i = 3 \/ i = 4 \/ i = 5 \/ i = 6
        BY DEF Templates
    <2>2. CASE i = 1
        BY <2>2 DEF Templates
    <2>3. CASE i = 2
        BY <2>3 DEF Templates
    <2>4. CASE i = 3
        BY <2>4 DEF Templates
    <2>5. CASE i = 4
        BY <2>5 DEF Templates
    <2>6. CASE i = 5
        BY <2>6 DEF Templates
    <2>7. CASE i = 6
        BY <2>7 DEF Templates
    <2> QED BY <2>1, <2>2, <2>3, <2>4, <2>5, <2>6, <2>7
<1>2. PICK x, y : Templates[i].proof = {} \/ Templates[i].proof = {x, y}
    BY <1>1
<1>3. IsFiniteSet({}) /\ IsFiniteSet({x, y})
    <2>1. IsFiniteSet(({} \cup {x}) \cup {y})
        BY FS_EmptySet, FS_AddElement
    <2>2. ({} \cup {x}) \cup {y} = {x, y}
        OBVIOUS
    <2> QED BY <2>1, <2>2, FS_EmptySet
<1> QED BY <1>2, <1>3, AnalysisConstants

\* One capability of each name; the verified ones rest on a verified workflow;
\* the names are the known ones.
OneOfEachName(caps) == \A b, c \in caps : b.key # NoName /\ b.key = c.key => b = c
RestOn(caps, W) ==
    \A c \in caps : c.status = "verified_end_to_end" => \E w \in Verified(W) : w.entry \in c.workflows
KnownNames(caps) == \A c \in caps : c.key \in Capability \cup {NoName}

\* The capabilities of a reconstruction, its contradictions applied.
Told(e, W, told) == {Applied(c, told) : c \in Capabilities(e, W)}

\* Of the capabilities of a reconstruction each name has one, and one that is
\* verified rests on a verified workflow (contradictions never verify).
LEMMA CapabilitiesRest ==
    ASSUME NEW e, NEW W, NEW told
    PROVE  LET caps == Told(e, W, told) IN OneOfEachName(caps) /\ RestOn(caps, W) /\ KnownNames(caps)
<1> DEFINE caps == {Applied(c, told) : c \in Capabilities(e, W)}
           named == UNION {NamedCapability(e, W, key) : key \in Capability}
           Rests(c) == c.status = "verified_end_to_end" => \E w \in Verified(W) : w.entry \in c.workflows
<1>1. \A c \in named : c.key \in Capability /\ c \in NamedCapability(e, W, c.key) /\ Rests(c) /\ IsCapability(c)
    <2>1. \A key \in Capability : \A c \in NamedCapability(e, W, key) : c.key = key /\ Rests(c) /\ IsCapability(c)
        BY CapabilityRests
    <2> HIDE DEF Rests
    <2> QED BY <2>1
<1>2. \A b, c \in named : b.key = c.key => b = c
    <2>1. \A key : \A b, c \in NamedCapability(e, W, key) : b = c
        BY CapabilityRests
    <2> HIDE DEF named
    <2> QED BY <1>1, <2>1
<1>3. ASSUME NEW c \in UnnamedCapabilities(e, W, named)
      PROVE  c.key = NoName /\ Rests(c) /\ IsCapability(c)
    <2> DEFINE own(family) == {w \in W : w.family = family /\ w.structural}
               entries(family) == {w.entry : w \in IF Verified(own(family)) # {}
                                                   THEN Verified(own(family)) ELSE own(family)}
    <2>1. \E family : c = [key |-> NoName, families |-> {family}, workflows |-> entries(family),
                           status |-> IF Verified(own(family)) # {} THEN "verified_end_to_end"
                                      ELSE "implemented_but_disconnected"]
        BY DEF UnnamedCapabilities
    <2>2. PICK family : c = [key |-> NoName, families |-> {family}, workflows |-> entries(family),
                             status |-> IF Verified(own(family)) # {} THEN "verified_end_to_end"
                                        ELSE "implemented_but_disconnected"]
        BY <2>1
    <2>3. \A w \in Verified(own(family)) : w \in Verified(W) /\ w.entry \in entries(family)
        BY DEF Verified
    <2> HIDE DEF own, entries
    <2> QED BY <2>2, <2>3 DEF IsCapability
<1>4. Capabilities(e, W) = named \cup UnnamedCapabilities(e, W, named)
    BY DEF Capabilities
<1>5. \A c \in Capabilities(e, W) : Applied(c, told).key = c.key /\ Rests(Applied(c, told))
    <2>1. SUFFICES ASSUME NEW c \in Capabilities(e, W)
                   PROVE  Applied(c, told).key = c.key /\ Rests(Applied(c, told))
        OBVIOUS
    <2>2. Rests(c)
        BY <1>1, <1>3, <1>4
    <2>3. PICK key, status, entries, families :
             c = [key |-> key, status |-> status, workflows |-> entries, families |-> families]
        BY <1>1, <1>3, <1>4 DEF IsCapability
    <2> DEFINE late == [c EXCEPT !.status = "contradicted"]
    <2>4. late.key = c.key /\ late.status = "contradicted"
        BY <2>3
    <2>5. Applied(c, told) \in {c, late}
        BY DEF Applied
    <2> HIDE DEF late
    <2> QED BY <2>2, <2>4, <2>5
<1> HIDE DEF named
<1>6. \A b, c \in caps : b.key # NoName /\ b.key = c.key => b = c
    BY <1>2, <1>3, <1>4, <1>5
<1>7. \A c \in caps : c.key \in Capability \cup {NoName} /\ Rests(c)
    BY <1>1, <1>3, <1>4, <1>5
<1>8. caps = Told(e, W, told)
    BY DEF Told
<1> HIDE DEF caps
<1> QED BY <1>6, <1>7, <1>8 DEF OneOfEachName, RestOn, KnownNames

\* What is offered for reuse was read, so hashed, and no member of a refused
\* archive (pipeline.py:105-129).
LEMMA SupportIsHashed ==
    ASSUME NEW d \in Disks, NEW hidden, NEW e, e = Scanned(d, hidden),
           NEW rule, NEW f \in Supporting(e, rule)
    PROVE  /\ e.hashed[f] = TRUE
           /\ d.archive[f] # None => d.place[f] # "unsafe" /\ ArchiveStatus(d, d.archive[f]) = "inspected"
<1> DEFINE a == Audit(d, hidden)
<1>1. /\ a.files = Inventoried(d, hidden) /\ a.read = Read(d, hidden) /\ a.hashed = Hashed(d, hidden)
    BY AuditFields
<1>2. f \in e.files /\ e.read[f]
    BY DEF Supporting, Evidence
<1>3. e.files = a.files
    BY EstateFields DEF Scanned
<1>4. e.read[f] = (f \in a.read) /\ e.hashed[f] = (f \in a.hashed)
    <2>1. \A g \in a.files : e.read[g] = (g \in a.read) /\ e.hashed[g] = (g \in a.hashed)
        BY EstateFields DEF Scanned
    <2> QED BY <1>2, <1>3, <2>1
<1> HIDE DEF a
<1>5. f \in a.hashed
    BY <1>1, <1>2, <1>4, ReadIsHashed
<1>6. Reachable(d, f)
    BY <1>1, <1>2, <1>3, ReadIsHashed
<1> QED BY <1>4, <1>5, <1>6 DEF Reachable

\* An opportunity comes from a gated template; its strength is "verified" only
\* past the gate's "high" (normalize_opportunity, discover_products).
LEMMA OfferFields ==
    ASSUME NEW e, NEW performed, NEW caps, NEW o \in Discover(e, performed, caps)
    PROVE  \E i \in DOMAIN Templates :
              LET g == Gated(Candidate(e, Templates[i]), performed, caps)
              IN  /\ o.proof = g.proof
                  /\ o.strength = "verified" => g.status = "high"
                  /\ \A x \in o.assets : \E f \in g.reuse : x.path = f /\ x.hashed = e.hashed[f]
<1> DEFINE passed(i) == LET t == Templates[i]
                        IN  /\ \A rule \in t.needs : Supporting(e, rule) # {}
                            /\ Accepted(Candidate(e, t))
           some == {j \in DOMAIN Templates : passed(j)}
           gated == [i \in some |-> Gated(Candidate(e, Templates[i]), performed, caps)]
           before(i) == {j \in DOMAIN gated : \/ gated[j].overall > gated[i].overall
                                             \/ (gated[j].overall = gated[i].overall /\ j < i)}
<1>1. Discover(e, performed, caps) =
        {Opportunity(e, gated[i]) : i \in {j \in DOMAIN gated : Cardinality(before(j)) < MaxOpportunities}}
    BY Zenon DEF Discover
<1>2. DOMAIN gated = some /\ some \subseteq DOMAIN Templates
    OBVIOUS
<1> HIDE DEF before, some, passed
<1>3. PICK i \in DOMAIN gated : o = Opportunity(e, gated[i])
    <2> HIDE DEF gated
    <2> QED BY <1>1
<1>4. i \in DOMAIN Templates /\ gated[i] = Gated(Candidate(e, Templates[i]), performed, caps)
    BY <1>2, <1>3
<1> DEFINE g == gated[i]
<1> HIDE DEF gated
<1>5. /\ o.proof = g.proof
      /\ o.strength = "verified" => g.status = "high"
      /\ \A x \in o.assets : \E f \in g.reuse : x.path = f /\ x.hashed = e.hashed[f]
    <2> HIDE DEF g
    <2> DEFINE assets == {[path |-> f, hashed |-> e.hashed[f], evidence |-> {f} \cap g.evidence] : f \in g.reuse}
    <2>1. o = [title |-> g.title, proof |-> g.proof, status |-> g.status, overall |-> g.overall,
               evidence |-> g.evidence, strength |-> Strength(g), assets |-> assets,
               ready |-> Strength(g) # "exploratory" /\ g.reuse # {}]
        BY <1>3 DEF Opportunity, g
    <2>2. Strength(g) = "verified" => g.status = "high"
        BY DEF Strength
    <2>3. \A x \in assets : \E f \in g.reuse : x.path = f /\ x.hashed = e.hashed[f]
        OBVIOUS
    <2> HIDE DEF assets
    <2> QED BY <2>1, <2>2, <2>3
<1> QED BY <1>4, <1>5 DEF g

\* What OffersAreGrounded says of one opportunity.
Grounded(d, performed, caps, o) ==
    /\ o.strength = "verified" =>
          /\ performed
          /\ \A key \in o.proof : \E c \in caps : c.key = key /\ c.status = "verified_end_to_end"
    /\ \A x \in o.assets :
          /\ x.hashed = TRUE
          /\ d.archive[x.path] # None =>
                d.place[x.path] # "unsafe" /\ ArchiveStatus(d, d.archive[x.path]) = "inspected"

\* Each opportunity is grounded.
LEMMA OffersRest ==
    ASSUME NEW d \in Disks, NEW hidden, NEW e, e = Scanned(d, hidden),
           NEW performed \in BOOLEAN, NEW caps,
           OneOfEachName(caps),
           NEW o \in Discover(e, performed, caps)
    PROVE  Grounded(d, performed, caps, o)
<1>1. PICK i \in DOMAIN Templates :
              LET g == Gated(Candidate(e, Templates[i]), performed, caps)
              IN  /\ o.proof = g.proof
                  /\ o.strength = "verified" => g.status = "high"
                  /\ \A x \in o.assets : \E f \in g.reuse : x.path = f /\ x.hashed = e.hashed[f]
    BY OfferFields
<1> DEFINE t == Templates[i]
           g == Gated(Candidate(e, t), performed, caps)
           verified == VerifiedOf(t.proof, caps)
<1>2. /\ g.proof = t.proof
      /\ g.reuse = UNION {Supporting(e, rule) : rule \in t.needs}
      /\ g.status = "high" => performed /\ Cardinality(verified) = Cardinality(t.proof)
    BY GateFields
<1> HIDE DEF g, t
<1>3. IsFiniteSet(t.proof) /\ NoName \notin t.proof
    BY TemplateProofs DEF t
<1>4. ASSUME g.status = "high"
      PROVE  \A key \in t.proof : \E c \in caps : c.key = key /\ c.status = "verified_end_to_end"
    <2>1. /\ \A c \in verified : c.key \in t.proof
          /\ \A b, c \in verified : b.key = c.key => b = c
        BY <1>3 DEF VerifiedOf, OneOfEachName
    <2>2. \A key \in t.proof : \E c \in verified : c.key = key
        <3>1. Cardinality(verified) = Cardinality(t.proof)
            BY <1>2, <1>4
        <3> HIDE DEF verified
        <3> QED BY <1>3, <2>1, <3>1, AllKeysCovered
    <2> QED BY <2>2 DEF VerifiedOf
<1>5. /\ o.proof = g.proof
      /\ o.strength = "verified" => g.status = "high"
      /\ \A x \in o.assets : \E f \in g.reuse : x.path = f /\ x.hashed = e.hashed[f]
    BY <1>1 DEF g, t
<1>6. ASSUME NEW x \in o.assets
      PROVE  /\ x.hashed = TRUE
             /\ d.archive[x.path] # None =>
                   d.place[x.path] # "unsafe" /\ ArchiveStatus(d, d.archive[x.path]) = "inspected"
    <2>1. PICK f \in g.reuse : x.path = f /\ x.hashed = e.hashed[f]
        BY <1>5
    <2>2. PICK rule \in t.needs : f \in Supporting(e, rule)
        BY <1>2, <2>1
    <2>3. /\ e.hashed[f] = TRUE
          /\ d.archive[f] # None => d.place[f] # "unsafe" /\ ArchiveStatus(d, d.archive[f]) = "inspected"
        BY <2>2, SupportIsHashed
    <2> QED BY <2>1, <2>3
<1> HIDE DEF verified
<1>7. o.strength = "verified" =>
         /\ performed
         /\ \A key \in o.proof : \E c \in caps : c.key = key /\ c.status = "verified_end_to_end"
    BY <1>2, <1>4, <1>5
<1> QED BY <1>6, <1>7 DEF Grounded

-----------------------------------------------------------------------------
(* The audit, step by step *)

\* The place of a stage in the order of the front.
Turn(name) ==
    CASE name = "scan" -> 1
      [] name = "truth" -> (IF front = "cli" THEN 4 ELSE 2)
      [] name = "discovery" -> (IF front = "cli" THEN 5 ELSE 4)

\* What the engines after the scan work on.
Given == Scanned(disk, "hidden" \in asked)

\* The inputs and the place in the order of stages.
Controls ==
    /\ disk \in Disks /\ front \in {"cli", "window"} /\ asked \in Requests
    /\ stage \in 1 .. 6 /\ exit \in {"running", "ok", "error", "crash"}
    /\ reports \subseteq Stages \cup {"cleanup"}

\* The audit is that of the disk, and there once the scan has had its turn.
Audited ==
    /\ audit = NotRun => stage = 1
    /\ audit # NotRun => stage > 1 /\ audit = Audit(disk, "hidden" \in asked)

\* The truth is a reconstruction of that audit under some cut of the limits.
Reconstructed ==
    /\ truth # NotRun =>
          /\ stage > Turn("truth")
          /\ \E nodes \in KeptOf(Graph(Given).nodes, MaxNodes),
                flows \in KeptOf({d \in Graph(Given).edges : d.type \in DataFlow}, MaxFlows) :
                   truth = Reconstruct(Given, nodes, flows, Depth)
    /\ stage > Turn("truth") /\ RunTruth => truth # NotRun

\* The opportunities are those of that audit and that truth.
Discovered ==
    found # NotRun =>
        /\ stage > Turn("discovery") /\ "discovery" \in asked
        /\ found.opportunities = Discover(Given, truth # NotRun, IF truth = NotRun THEN {} ELSE truth.capabilities)

\* The inductive invariant: every result of the audit is what its engine
\* computes of the results before it.
AInv == Controls /\ Audited /\ Reconstructed /\ Discovered

\* When a stage may run.
LEMMA StageTurns ==
    ASSUME front \in {"cli", "window"}, stage \in 1 .. 6
    PROVE  /\ Len(Order[front]) = 5
           /\ \A name \in {"scan", "truth", "discovery"} : At(name) => stage = Turn(name)
           /\ \A name \in {"acquisition", "advice"} :
                 At(name) => stage \in 2 .. 5 /\ stage # Turn("truth") /\ stage # Turn("discovery")
           /\ Turn("scan") = 1 /\ Turn("truth") \in 2 .. 4 /\ Turn("discovery") \in 2 .. 5
           /\ Turn("truth") < Turn("discovery")
<1>1. CASE front = "cli"
    <2>1. Order[front] = <<"scan", "acquisition", "advice", "truth", "discovery">>
        BY <1>1 DEF Order
    <2> DEFINE order == Order[front]
    <2>2. Len(order) = 5 /\ order[1] = "scan" /\ order[2] = "acquisition" /\ order[3] = "advice"
          /\ order[4] = "truth" /\ order[5] = "discovery"
        BY <2>1
    <2> HIDE DEF order
    <2> QED BY <1>1, <2>2 DEF At, Turn, order
<1>2. CASE front = "window"
    <2>1. Order[front] = <<"scan", "truth", "acquisition", "discovery", "advice">>
        BY <1>2 DEF Order
    <2> DEFINE order == Order[front]
    <2>2. Len(order) = 5 /\ order[1] = "scan" /\ order[2] = "truth" /\ order[3] = "acquisition"
          /\ order[4] = "discovery" /\ order[5] = "advice"
        BY <2>1
    <2> HIDE DEF order
    <2> QED BY <1>2, <2>2 DEF At, Turn, order
<1> QED BY <1>1, <1>2

\* Before the first stage there is no result.
LEMMA InitAInv == Init => AInv
<1> SUFFICES ASSUME Init PROVE AInv
    OBVIOUS
<1>1. Turn("truth") \in 2 .. 4 /\ Turn("discovery") \in 2 .. 5
    BY StageTurns DEF Init
<1> QED BY <1>1 DEF Init, AInv, Controls, Audited, Reconstructed, Discovered

\* Nothing but its own stage changes a result.
LEMMA ResultsStay ==
    ASSUME AInv, UNCHANGED <<disk, front, asked, audit, truth, found>>,
           stage' = stage \/ (stage' = stage + 1 /\ stage \in 2 .. 5 /\ (stage = Turn("truth") => ~RunTruth)),
           exit' \in {"running", "ok", "error", "crash"}, reports' \subseteq Stages \cup {"cleanup"}
    PROVE  AInv'
<1>1. Given' = Given /\ Turn("truth")' = Turn("truth") /\ Turn("discovery")' = Turn("discovery")
      /\ (RunTruth' <=> RunTruth)
    BY DEF Given, Turn, RunTruth
<1>2. Turn("truth") \in 2 .. 4 /\ Turn("discovery") \in 2 .. 5
    BY StageTurns DEF AInv, Controls
<1>3. Controls'
    BY DEF AInv, Controls
<1>4. Audited'
    BY DEF AInv, Controls, Audited
<1>5. Reconstructed'
    BY <1>1, <1>2 DEF AInv, Controls, Reconstructed
<1>6. Discovered'
    BY <1>1, <1>2 DEF AInv, Controls, Discovered
<1> QED BY <1>3, <1>4, <1>5, <1>6 DEF AInv

\* The scan hands over its audit and comes first.
LEMMA ScanStep == AInv /\ Scan => AInv'
<1> SUFFICES ASSUME AInv, Scan PROVE AInv'
    OBVIOUS
<1>1. stage = 1 /\ Turn("truth") \in 2 .. 4 /\ Turn("discovery") \in 2 .. 5
    BY StageTurns DEF AInv, Controls, Scan
<1>2. truth = NotRun /\ found = NotRun
    BY <1>1 DEF AInv, Reconstructed, Discovered
<1>3. /\ UNCHANGED <<disk, front, asked, exit, truth, found>> /\ stage' = 2
      /\ reports' \subseteq reports \cup {"scan"}
    BY <1>1 DEF Scan, Written
<1>4. Turn("truth")' = Turn("truth")
    BY <1>3 DEF Turn
<1>5. audit' # NotRun /\ audit' = Audit(disk, "hidden" \in asked)
    BY AuditFields DEF Scan
<1>6. Controls'
    BY <1>3 DEF AInv, Controls, Stages
<1>7. Audited'
    BY <1>3, <1>5 DEF Audited
<1>8. Reconstructed' /\ Discovered'
    BY <1>1, <1>2, <1>3, <1>4 DEF Reconstructed, Discovered
<1> QED BY <1>6, <1>7, <1>8 DEF AInv

\* The technical analysis has its turn once, on the audit of this disk.
LEMMA ReconstructionStep == AInv /\ Reconstruction => AInv'
<1> SUFFICES ASSUME AInv, Reconstruction PROVE AInv'
    OBVIOUS
<1>1. /\ stage = Turn("truth") /\ Turn("truth") \in 2 .. 4 /\ Turn("truth") < Turn("discovery")
      /\ Turn("discovery") \in 2 .. 5
    BY StageTurns DEF AInv, Controls, Reconstruction
<1>2. audit = Audit(disk, "hidden" \in asked) /\ audit # NotRun /\ found = NotRun
    BY <1>1 DEF AInv, Audited, Discovered
<1>3. Given = EstateOf(disk, audit)
    BY <1>2 DEF Given, Scanned
<1>4. /\ UNCHANGED <<disk, front, asked, exit, audit, found>> /\ stage' = stage + 1
      /\ reports' \subseteq reports \cup {"truth"}
    BY DEF Reconstruction, Written
<1>5. /\ Turn("truth")' = Turn("truth") /\ Given' = Given
    BY <1>4 DEF Turn, Given
<1>6. PICK nodes \in KeptOf(Graph(Given).nodes, MaxNodes),
           flows \in KeptOf({d \in Graph(Given).edges : d.type \in DataFlow}, MaxFlows) :
             truth' = Reconstruct(Given, nodes, flows, Depth)
    BY <1>3 DEF Reconstruction
<1>7. truth' # NotRun
    BY <1>6, ReconstructFields
<1>8. Controls'
    BY <1>1, <1>4 DEF AInv, Controls, Stages
<1>9. Audited'
    BY <1>1, <1>2, <1>4 DEF Audited
<1>10. Reconstructed'
    <2>1. stage' > Turn("truth")'
        BY <1>1, <1>4, <1>5
    <2> QED BY <1>5, <1>6, <1>7, <2>1 DEF Reconstructed
<1>11. Discovered'
    BY <1>2, <1>4 DEF Discovered
<1> QED BY <1>8, <1>9, <1>10, <1>11 DEF AInv

\* Discovery has its turn after the technical analysis.
LEMMA DiscoveringStep == AInv /\ Discovering => AInv'
<1> SUFFICES ASSUME AInv, Discovering PROVE AInv'
    OBVIOUS
<1>1. /\ stage = Turn("discovery") /\ Turn("truth") \in 2 .. 4 /\ Turn("truth") < Turn("discovery")
      /\ Turn("discovery") \in 2 .. 5
    BY StageTurns DEF AInv, Controls, Discovering
<1>2. audit = Audit(disk, "hidden" \in asked) /\ audit # NotRun
    BY <1>1 DEF AInv, Audited
<1>3. Given = EstateOf(disk, audit)
    BY <1>2 DEF Given, Scanned
<1>4. /\ UNCHANGED <<disk, front, asked, exit, audit, truth>> /\ stage' = stage + 1
      /\ reports' \subseteq reports \cup {"discovery"} /\ "discovery" \in asked
    BY DEF Discovering, Written
<1>5. /\ Turn("truth")' = Turn("truth") /\ Turn("discovery")' = Turn("discovery") /\ Given' = Given
      /\ (RunTruth' <=> RunTruth)
    BY <1>4 DEF Turn, Given, RunTruth
<1>6. found'.opportunities = Discover(Given, truth # NotRun, IF truth = NotRun THEN {} ELSE truth.capabilities)
    BY <1>3 DEF Discovering
<1>7. Controls'
    BY <1>1, <1>4 DEF AInv, Controls, Stages
<1>8. Audited'
    BY <1>1, <1>2, <1>4 DEF Audited
<1>9. Reconstructed'
    BY <1>1, <1>4, <1>5 DEF AInv, Reconstructed
<1>10. Discovered'
    <2>1. stage' > Turn("discovery")'
        BY <1>1, <1>4, <1>5
    <2> QED BY <1>4, <1>5, <1>6, <2>1 DEF Discovered
<1> QED BY <1>7, <1>8, <1>9, <1>10 DEF AInv

\* Every other step leaves the results as they are.
LEMMA OtherSteps ==
    AInv /\ (Damaged \/ Other \/ Pass \/ Finish \/ WriteFails \/ Export) => AInv'
<1> SUFFICES ASSUME AInv, Damaged \/ Other \/ Pass \/ Finish \/ WriteFails \/ Export PROVE AInv'
    OBVIOUS
<1>1. /\ Turn("truth") \in 2 .. 4 /\ Turn("discovery") \in 2 .. 5
      /\ \A name \in {"truth", "discovery"} : At(name) => stage = Turn(name)
      /\ \A name \in {"acquisition", "advice"} : At(name) => stage \in 2 .. 5 /\ stage # Turn("truth")
      /\ Turn("truth") < Turn("discovery")
    BY StageTurns DEF AInv, Controls
<1>2. /\ exit \in {"running", "ok", "error", "crash"} /\ reports \subseteq Stages \cup {"cleanup"}
      /\ stage \in 1 .. 6
    BY DEF AInv, Controls
<1>3. CASE Damaged
    <2>1. /\ UNCHANGED <<disk, front, asked, audit, truth, found>> /\ stage' = stage
          /\ exit' \in {"running", "ok", "error", "crash"} /\ reports' \subseteq Stages \cup {"cleanup"}
        BY <1>2, <1>3 DEF Damaged
    <2> QED BY <2>1, ResultsStay
<1>4. CASE Other
    <2>1. PICK name \in {"acquisition", "advice"} : At(name) /\ Written(name)
        BY <1>4 DEF Other
    <2>2. /\ UNCHANGED <<disk, front, asked, audit, truth, found>>
          /\ stage' = stage + 1 /\ stage \in 2 .. 5 /\ stage # Turn("truth")
          /\ exit' \in {"running", "ok", "error", "crash"} /\ reports' \subseteq Stages \cup {"cleanup"}
        BY <1>1, <1>2, <1>4, <2>1 DEF Other, Written, Stages
    <2> QED BY <2>2, ResultsStay
<1>5. CASE Pass
    <2>1. stage \in 2 .. 5 /\ (stage = Turn("truth") => ~RunTruth)
        <3>1. CASE At("truth") /\ ~RunTruth
            BY <1>1, <3>1
        <3>2. CASE \E name \in {"acquisition", "advice", "discovery"} \ asked : At(name)
            BY <1>1, <3>2
        <3> QED BY <1>5, <3>1, <3>2 DEF Pass
    <2>2. /\ UNCHANGED <<disk, front, asked, audit, truth, found>> /\ stage' = stage + 1
          /\ exit' \in {"running", "ok", "error", "crash"} /\ reports' \subseteq Stages \cup {"cleanup"}
        BY <1>2, <1>5 DEF Pass
    <2> QED BY <2>1, <2>2, ResultsStay
<1>6. CASE Finish \/ WriteFails
    <2>1. /\ UNCHANGED <<disk, front, asked, audit, truth, found>> /\ stage' = stage
          /\ exit' \in {"running", "ok", "error", "crash"} /\ reports' \subseteq Stages \cup {"cleanup"}
        BY <1>2, <1>6 DEF Finish, WriteFails
    <2> QED BY <2>1, ResultsStay
<1>7. CASE Export
    <2>1. Results \cup {"cleanup"} \subseteq Stages \cup {"cleanup"}
        BY DEF Results, Stages
    <2>2. reports' \subseteq reports \cup Results \cup {"cleanup"}
        BY <1>7 DEF Export
    <2>3. /\ UNCHANGED <<disk, front, asked, audit, truth, found>> /\ stage' = stage
          /\ exit' \in {"running", "ok", "error", "crash"} /\ reports' \subseteq Stages \cup {"cleanup"}
        BY <1>2, <1>7, <2>1, <2>2 DEF Export
    <2> QED BY <2>3, ResultsStay
<1> QED BY <1>3, <1>4, <1>5, <1>6, <1>7

\* AInv is inductive.
LEMMA NextAInv == AInv /\ [Next]_vars => AInv'
<1> SUFFICES ASSUME AInv, [Next]_vars PROVE AInv'
    OBVIOUS
<1>1. CASE UNCHANGED vars
    <2>1. /\ UNCHANGED <<disk, front, asked, audit, truth, found>> /\ stage' = stage
          /\ exit' \in {"running", "ok", "error", "crash"} /\ reports' \subseteq Stages \cup {"cleanup"}
        BY <1>1 DEF vars, AInv, Controls
    <2> QED BY <2>1, ResultsStay
<1>2. CASE Next
    BY <1>2, ScanStep, ReconstructionStep, DiscoveringStep, OtherSteps DEF Next
<1> QED BY <1>1, <1>2

\* Every result of an audit, in every order and after every failure, is its
\* engine's (cli.py:538-626, core.py:317-397).
LEMMA AlwaysAInv == Spec => []AInv
BY InitAInv, NextAInv, PTL DEF Spec

-----------------------------------------------------------------------------
(* Theorems *)

\* What the invariant gives of a reconstruction.
LEMMA TruthParts ==
    ASSUME AInv, truth # NotRun
    PROVE  /\ audit # NotRun /\ audit = Audit(disk, "hidden" \in asked) /\ disk \in Disks
           /\ \E nodes \in SUBSET Graph(Given).nodes : \E flows :
                LET W == Workflows(Given, Kept(Graph(Given), nodes, flows), Depth)
                    caps == Capabilities(Given, W)
                IN  /\ truth.workflows = W
                    /\ truth.capabilities = {Applied(c, Contradictions(Given, caps)) : c \in caps}
                    /\ truth.contradictions = Contradictions(Given, caps)
<1>1. PICK nodes \in KeptOf(Graph(Given).nodes, MaxNodes),
           flows \in KeptOf({d \in Graph(Given).edges : d.type \in DataFlow}, MaxFlows) :
             truth = Reconstruct(Given, nodes, flows, Depth)
    BY DEF AInv, Reconstructed
<1>2. nodes \in SUBSET Graph(Given).nodes
    BY KeptIsPart
<1>3. stage > 1
    BY StageTurns DEF AInv, Controls, Reconstructed
<1>4. audit # NotRun /\ audit = Audit(disk, "hidden" \in asked) /\ disk \in Disks
    BY <1>3 DEF AInv, Controls, Audited
<1> DEFINE W == Workflows(Given, Kept(Graph(Given), nodes, flows), Depth)
           caps == Capabilities(Given, W)
<1>5. /\ truth.workflows = W
      /\ truth.capabilities = {Applied(c, Contradictions(Given, caps)) : c \in caps}
      /\ truth.contradictions = Contradictions(Given, caps)
    BY <1>1, ReconstructFields
<1> QED BY <1>2, <1>4, <1>5

\* The truth's capabilities rest on its workflows.
LEMMA TruthRests ==
    ASSUME AInv, truth # NotRun
    PROVE  /\ OneOfEachName(truth.capabilities) /\ RestOn(truth.capabilities, truth.workflows)
           /\ KnownNames(truth.capabilities)
<1>1. \E told : truth.capabilities = Told(Given, truth.workflows, told)
    BY TruthParts DEF Told
<1> QED BY <1>1, CapabilitiesRest

\* The invariant gives the type invariant.
LEMMA TypeOfAInv == AInv => TypeOK
<1> SUFFICES ASSUME AInv PROVE TypeOK
    OBVIOUS
<1>1. /\ disk \in Disks /\ front \in {"cli", "window"} /\ asked \subseteq Stages \cup {"hidden"}
      /\ stage \in 1 .. 6 /\ exit \in {"running", "ok", "error", "crash"}
      /\ reports \subseteq Stages \cup {"cleanup"}
    <2>1. asked \subseteq {"hidden", "truth", "discovery", "acquisition", "advice"}
        BY AnalysisConstants DEF AInv, Controls
    <2> QED BY <2>1 DEF AInv, Controls, Stages
<1>2. Turn("truth") \in 2 .. 4 /\ Turn("discovery") \in 2 .. 5 /\ Turn("truth") < Turn("discovery")
    BY <1>1, StageTurns
<1>3. audit = NotRun => truth = NotRun /\ found = NotRun
    BY <1>2 DEF AInv, Audited, Reconstructed, Discovered
<1>4. audit # NotRun => audit.delete \subseteq disk.paths /\ audit.root \in [audit.files -> DOMAIN disk.depth \cup {Top}]
    <2> SUFFICES ASSUME audit # NotRun
                 PROVE  audit.delete \subseteq disk.paths /\ audit.root \in [audit.files -> DOMAIN disk.depth \cup {Top}]
        OBVIOUS
    <2> DEFINE hidden == "hidden" \in asked
    <2>1. audit = Audit(disk, hidden)
        BY DEF AInv, Audited
    <2>2. /\ audit.files = Inventoried(disk, hidden)
          /\ audit.root = [f \in Inventoried(disk, hidden) |->
                             RootOf(disk, Roots(disk, Inventoried(disk, hidden), Read(disk, hidden)), f)]
          /\ audit.delete = Delete(disk, Inventoried(disk, hidden), Hashed(disk, hidden), hidden)
        BY <2>1, AuditFields
    <2>3. audit.delete \subseteq disk.paths
        BY <2>2, ReadIsHashed DEF Delete
    <2>5. \A f : RootOf(disk, Roots(disk, Inventoried(disk, hidden), Read(disk, hidden)), f)
                    \in DOMAIN disk.depth \cup {Top}
        BY <1>1, RootIsDirectory
    <2> HIDE DEF hidden
    <2> QED BY <2>2, <2>3, <2>5
<1>5. front = "window" /\ found # NotRun => truth # NotRun
    BY <1>1, <1>2 DEF AInv, Reconstructed, Discovered, RunTruth
<1>6. truth # NotRun => \A c \in truth.capabilities : c.key \in Capability \cup {NoName}
    BY TruthRests DEF KnownNames
<1> QED BY <1>1, <1>3, <1>4, <1>5, <1>6 DEF TypeOK

\* Each stage leaves behind what its reader needs, in the order of each front
\* (cli.py, core.py): no result without an audit, and in a window no
\* opportunity without technical truth.
THEOREM TypeCorrect == Spec => []TypeOK
BY AlwaysAInv, TypeOfAInv, PTL

\* A deleted duplicate has an earlier name, and the first name is kept.
LEMMA CopyOfAInv == AInv => OneCopyStays
<1> SUFFICES ASSUME AInv, audit # NotRun,
                    NEW f \in {g \in audit.hashed : disk.size[g] > 0}
             PROVE  \E kept \in audit.hashed \ audit.delete : disk.digest[kept] = disk.digest[f]
    BY DEF OneCopyStays
<1>1. audit = Audit(disk, "hidden" \in asked) /\ disk \in Disks
    BY DEF AInv, Audited, Controls
<1>2. /\ audit.hashed = Hashed(disk, "hidden" \in asked)
      /\ audit.delete = Delete(disk, Inventoried(disk, "hidden" \in asked), Hashed(disk, "hidden" \in asked), "hidden" \in asked)
    BY <1>1, AuditFields
<1> QED BY <1>1, <1>2, FirstCopyStays

\* Whoever follows every proposal of the cleanup list keeps a copy of each
\* hashed content, for any tree, archives, duplicates and generated
\* directories (appraisal.py:69-88, 149-176).
THEOREM CleanupKeepsACopy == Spec => []OneCopyStays
BY AlwaysAInv, CopyOfAInv, PTL

\* The truth's workflows are those of a graph whose edges obey their sources.
LEMMA RealOfAInv == AInv => VerifiedIsReal
<1> SUFFICES ASSUME AInv, truth # NotRun, NEW w \in Verified(truth.workflows)
             PROVE  LET visited(S) == {x \in S : x.id \in w.steps}
                    IN  /\ \E x \in visited(disk.surfaces) : x.type = "endpoint"
                        /\ \E s \in visited(disk.symbols) : ~s.stub /\ ~disk.fixture[s.file]
                        /\ \A s \in visited(disk.symbols) :
                              \/ Canonical[audit.root[s.file]] = w.family
                              \/ \E i \in disk.imports, c \in visited(disk.symbols) :
                                    /\ c.file = i.file /\ i.source \in audit.files
                                    /\ Canonical[audit.root[i.source]] = Canonical[audit.root[s.file]]
    BY DEF VerifiedIsReal
<1>1. /\ audit = Audit(disk, "hidden" \in asked) /\ disk \in Disks
      /\ \E nodes \in SUBSET Graph(Given).nodes : \E flows :
            truth.workflows = Workflows(Given, Kept(Graph(Given), nodes, flows), Depth)
    BY TruthParts
<1>2. PICK nodes \in SUBSET Graph(Given).nodes : \E flows :
            truth.workflows = Workflows(Given, Kept(Graph(Given), nodes, flows), Depth)
    BY <1>1
<1>3. PICK flows : truth.workflows = Workflows(Given, Kept(Graph(Given), nodes, flows), Depth)
    BY <1>2
<1>4. w \in Verified(Workflows(Given, Kept(Graph(Given), nodes, flows), Depth))
    BY <1>3
<1>5. Depth \in Nat
    BY AnalysisConstants
<1>6. RealWorkflow(disk, audit, w)
    BY <1>1, <1>2, <1>4, <1>5, WorkflowsAreReal DEF Given
<1> QED BY <1>6 DEF RealWorkflow

\* A workflow called verified end to end passes an endpoint and real code, and
\* enters another family only by an import in a file it passes, for any estate,
\* graph limits and depth (analyzer.py:174-283, 317-381).
THEOREM VerifiedWorkflowsAreReal == Spec => []VerifiedIsReal
BY AlwaysAInv, RealOfAInv, PTL

\* Contradictions come from documents of families that were understood.
LEMMA CoveredOfAInv == AInv => NegativesAreCovered
<1> SUFFICES ASSUME AInv, truth # NotRun, NEW k \in truth.contradictions, k.claim # NoName,
                    NEW f \in Code, Canonical[audit.root[f]] = k.family
             PROVE  /\ f \in audit.read /\ disk.size[f] <= MaxParse
                    /\ disk.language[f] = "supported" /\ disk.verdict[f] \in Understood
    BY DEF NegativesAreCovered
<1>1. /\ audit = Audit(disk, "hidden" \in asked) /\ disk \in Disks
      /\ \E caps : truth.contradictions = Contradictions(Given, caps)
    BY TruthParts
<1>2. f \in audit.files /\ disk.language[f] # "none"
    BY DEF Code
<1> QED BY <1>1, <1>2, ContradictedIsCovered DEF Given

\* No document is contradicted while any code file of its family was too large,
\* unreadable, broken or of another language (analyzer.py:543-575, 665-716).
THEOREM ContradictionsAreCovered == Spec => []NegativesAreCovered
BY AlwaysAInv, CoveredOfAInv, PTL

\* Offers are made of the audit's evidence and the truth's capabilities.
LEMMA GroundedOfAInv == AInv => OffersAreGrounded
<1> SUFFICES ASSUME AInv, found # NotRun, NEW o \in found.opportunities
             PROVE  /\ o.strength = "verified" =>
                          /\ truth # NotRun
                          /\ \A key \in o.proof : \E w \in Verified(truth.workflows) :
                                \E c \in truth.capabilities : c.key = key /\ w.entry \in c.workflows
                    /\ \A a \in o.assets :
                          /\ a.hashed
                          /\ disk.archive[a.path] # None =>
                                disk.place[a.path] # "unsafe" /\ ArchiveStatus(disk, disk.archive[a.path]) = "inspected"
    BY DEF OffersAreGrounded
<1> DEFINE caps == IF truth = NotRun THEN {} ELSE truth.capabilities
           performed == truth # NotRun
<1>1. o \in Discover(Given, performed, caps) /\ disk \in Disks /\ performed \in BOOLEAN
    BY DEF AInv, Discovered, Controls
<1>2. OneOfEachName(caps)
    BY TruthRests DEF OneOfEachName
<1> HIDE DEF caps, performed
<1>3. Grounded(disk, performed, caps, o)
    BY <1>1, <1>2, OffersRest DEF Given
<1>4. ASSUME o.strength = "verified"
      PROVE  /\ truth # NotRun
             /\ \A key \in o.proof : \E w \in Verified(truth.workflows) :
                   \E c \in truth.capabilities : c.key = key /\ w.entry \in c.workflows
    <2>1. truth # NotRun /\ caps = truth.capabilities
        BY <1>3, <1>4 DEF performed, caps, Grounded
    <2>2. \A c \in truth.capabilities : c.status = "verified_end_to_end" =>
             \E w \in Verified(truth.workflows) : w.entry \in c.workflows
        BY <2>1, TruthRests DEF RestOn
    <2> QED BY <1>3, <1>4, <2>1, <2>2 DEF Grounded
<1> QED BY <1>3, <1>4 DEF Grounded

\* An opportunity graded verified has a verified workflow for each capability
\* it needs, and offers only files this scan hashed, none of a refused archive
\* (pipeline.py:105-129, 150-261).
THEOREM OpportunitiesAreGrounded == Spec => []OffersAreGrounded
BY AlwaysAInv, GroundedOfAInv, PTL

=============================================================================
