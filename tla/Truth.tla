-------------------------------- MODULE Truth --------------------------------
(***************************************************************************)
(* Technical truth (src/relic_auditor/technical_truth/analyzer.py): what   *)
(* is concluded from the structure of a scanned estate.  The analysis is a *)
(* sequential function of the audit, so its parts are operators.           *)
(*                                                                         *)
(* An estate e is a record.  e.files are its files, and per file: e.root   *)
(* the deepest project root around it, e.role, e.read whether the scan     *)
(* kept its text, e.large whether it is over the parse limit, e.language,  *)
(* e.verdict the parser's, e.claims the capability words of a document,    *)
(* e.fixture whether its path is a test path.  What the text says:         *)
(* e.symbols, e.refs and e.imports, which only a parser sees, and          *)
(* e.surfaces, which regular expressions find in the text, parsed or not.  *)
(* e.mounts are pairs <<f, g>> where f registers the router of g.          *)
(*                                                                         *)
(* Abstract: parsing itself; a regular expression over names is Words;     *)
(* identities, which the code hashes, are the estate's; two symbols of one *)
(* name are met in the order of a hash, here by CHOOSE.                    *)
(***************************************************************************)
EXTENDS Integers, FiniteSets

CONSTANTS Capability,   \* the capability keys of _capabilities
          Claims,       \* the keys some claim word of _contradictions stands for
          Words,        \* per name, file or route, the patterns it matches
          Canonical,    \* per project root, its name without backup, copy, old ...
          MinStructure, \* symbols that make an unnamed capability substantive
          NoName

Store == "store"        \* save|create|insert|...|prisma|session|db
Output == "output"      \* report|export|pdf|...|serialize|output
DataPersistence == "data-persistence"

ASSUME TruthConstants ==
    /\ Claims \subseteq Capability
    /\ DataPersistence \in Capability \ Claims
    /\ \A name \in DOMAIN Words : Words[name] \subseteq Capability \cup {Store, Output}
    /\ MinStructure \in Nat

Says(name) == IF name \in DOMAIN Words THEN Words[name] ELSE {}

\* _families and _family_lookup: files of renamed copies of one root are one family
FamilyOf(e, f) == Canonical[e.root[f]]
Families(e) == {FamilyOf(e, f) : f \in e.files}

-----------------------------------------------------------------------------
(* What was parsed *)

Parsed(e) == {f \in e.files : e.language[f] # "none"}

ParseStatus(e, f) ==
    CASE e.language[f] = "other" -> "unsupported"
      [] e.language[f] # "other" /\ e.large[f] -> "too_large"
      [] e.language[f] # "other" /\ ~e.large[f] /\ ~e.read[f] -> "binary_or_unreadable"
      [] OTHER -> e.verdict[f]

Understood == {"success", "partial"}
Blocking == {"parser_failure", "invalid_syntax", "too_large", "binary_or_unreadable", "unsupported"}

\* Mutant: enough files were parsed, whatever the rest are.
EligibleByRatio(e, files) ==
    /\ files # {}
    /\ 10 * Cardinality({f \in files : ParseStatus(e, f) \in Understood}) >= 6 * Cardinality(files)

\* _coverage_snapshot: conclusion_status is "eligible"; MIN_CONCLUSION_COVERAGE is 0.6
Eligible(e, files) ==
    /\ files # {}
    /\ 10 * Cardinality({f \in files : ParseStatus(e, f) \in Understood}) >= 6 * Cardinality(files)
    /\ \A f \in files : ParseStatus(e, f) \notin Blocking

FamilyEligible(e, family) == Eligible(e, {f \in Parsed(e) : FamilyOf(e, f) = family})

Symbols(e) == {s \in e.symbols : s.file \in Parsed(e) /\ ParseStatus(e, s.file) \in Understood}
Surfaces(e) == {x \in e.surfaces : e.read[x.file]}
Named(e, name, family) == {s \in Symbols(e) : s.name = name /\ FamilyOf(e, s.file) = family}

\* an endpoint on the application itself, or on a router some file of the project mounts
Registered(e, x) ==
    \/ x.direct
    \/ \E f \in e.files : <<f, x.file>> \in e.mounts /\ e.read[f] /\ e.root[f] = e.root[x.file]

-----------------------------------------------------------------------------
(* The graph *)

Edge(from, to, type) == [from |-> from, to |-> to, type |-> type]

\* _graph: the same file first, then the import's source, then the family
Targets(e, r) ==
    LET own   == {s \in Symbols(e) : s.file = r.file /\ s.name = r.name}
        bound == {s \in Symbols(e) : \E i \in e.imports :
                     i.file = r.file /\ i.local = r.name /\ s.file = i.source /\ s.name = i.name}
    IN  IF own # {} THEN own
        ELSE IF bound # {} THEN bound
        ELSE Named(e, r.name, FamilyOf(e, r.file))

Handler(e, x) == Named(e, x.handler, FamilyOf(e, x.file))
OneOf(S) == {CHOOSE s \in S : TRUE}

CallEdges(e) ==
    UNION {LET to == Targets(e, r) IN
           IF Cardinality(to) # 1 \/ r.caller \in {s.id : s \in to} THEN {}
           ELSE {Edge(r.caller, s.id, type) : s \in to, type \in {"calls"} \cup r.flow} :
           r \in {q \in e.refs : q.file \in Parsed(e) /\ ParseStatus(e, q.file) \in Understood}}

OwnerType == [queue_producer |-> "produces", queue_consumer |-> "consumes", schema |-> "persists",
              integration |-> "calls_external", ui_action |-> "triggers",
              ui_screen |-> "uses", framework |-> "uses"]

SurfaceEdges(e) ==
    LET all == Surfaces(e)
        parsed == {s.id : s \in Symbols(e)}
        family(x) == FamilyOf(e, x.file)
    IN  {Edge(x.file, x.id, "contains") : x \in all}
        \cup {Edge(x.owner, x.id, OwnerType[x.type]) :
                x \in {y \in all : y.type # "endpoint" /\ y.owner \in parsed}}
        \cup (UNION {{Edge(x.id, s.id, "routes_to") : s \in OneOf(Handler(e, x))} :
                x \in {y \in all : y.type \in {"endpoint", "queue_consumer"} /\ Handler(e, y) # {}}})
        \cup {Edge(p[1].id, p[2].id, IF p[1].type = "ui_action" THEN "triggers" ELSE "consumed_by") :
                p \in {q \in all \X all :
                         /\ family(q[1]) = family(q[2])
                         /\ q[1].target = q[2].name /\ q[1].target # NoName
                         /\ <<q[1].type, q[2].type>> \in {<<"ui_action", "endpoint">>,
                                                          <<"queue_producer", "queue_consumer">>}}}

Graph(e) ==
    [nodes |-> {FamilyOf(e, s.file) : s \in Symbols(e)}
               \cup {f \in Parsed(e) : e.language[f] = "supported"}
               \cup {s.id : s \in Symbols(e)} \cup {x.id : x \in Surfaces(e)},
     edges |-> {Edge(s.file, s.id, "defines") : s \in Symbols(e)} \cup CallEdges(e) \cup SurfaceEdges(e)]

DataFlow == {"passes_data", "reads_from", "writes_to"}

(***************************************************************************)
(* The node and the data-flow limit keep the first nodes and edges in the  *)
(* order of their hashes, so any set of `nodes` or `flows` may be kept.    *)
(***************************************************************************)
Kept(g, nodes, flows) ==
    [nodes |-> nodes,
     edges |-> {d \in g.edges : {d.from, d.to} \subseteq nodes /\ (d.type \in DataFlow => d \in flows)}]

-----------------------------------------------------------------------------
(* Workflows *)

Next1(edges, S) == {d.to : d \in {c \in edges : c.from \in S}}

\* the nodes a walk of at most `depth` edges from x visits
Within(edges, x, depth) ==
    LET reach[n \in 0 .. depth] == IF n = 0 THEN {x} ELSE reach[n - 1] \cup Next1(edges, reach[n - 1])
    IN  reach[depth]

Entries(e) ==
    LET ui == {x \in Surfaces(e) : x.type = "ui_action"}
    IN  ui \cup {x \in Surfaces(e) : x.type = "endpoint"
                   /\ \A u \in ui : FamilyOf(e, u.file) = FamilyOf(e, x.file) => u.target # x.name}

\* Mutant: stubs and test doubles count as implementation.
ImplementationAny(e, nodes) == {s \in Symbols(e) : s.id \in nodes}

Implementation(e, nodes) == {s \in Symbols(e) : s.id \in nodes /\ ~s.stub /\ ~e.fixture[s.file]}

\* the name a node is searched by; a surface's is its route, name, provider or queue
NodeWords(e, nodes) ==
    UNION {Says(x.name) : x \in {y \in Symbols(e) \cup Surfaces(e) : y.id \in nodes}}

Workflow(e, g, x, depth) ==
    LET walk      == Within(g.edges, x.id, depth)
        visited   == walk \cap g.nodes
        edges     == {d \in g.edges : depth > 0 /\ d.from \in Within(g.edges, x.id, depth - 1)}
        of(type)  == {y \in Surfaces(e) : y.id \in visited /\ y.type = type}
        missing   == \/ of("queue_producer") # {} /\ of("queue_consumer") = {}
                     \/ of("endpoint") = {} /\ x.type = "ui_action"
        stored    == \/ of("schema") # {} \/ Store \in NodeWords(e, visited)
                     \/ \E d \in edges : d.type \in {"persists", "writes_to"}
        whole     == /\ of("endpoint") # {} /\ Implementation(e, visited) # {}
                     /\ stored /\ Output \in NodeWords(e, visited) /\ ~missing
    IN  [entry  |-> x.id,
         family |-> FamilyOf(e, x.file),
         words  |-> Says(x.name) \cup Says(x.target),
         steps  |-> visited,
         targets |-> {d.to : d \in edges},
         structural |-> Implementation(e, visited) # {},
         status |-> IF x.type = "endpoint" /\ ~Registered(e, x) THEN "implemented_but_disconnected"
                    ELSE IF whole THEN "verified_end_to_end"
                    ELSE IF Cardinality(visited) >= 2 THEN "partially_implemented"
                    ELSE "interface_only"]

Workflows(e, g, depth) == {Workflow(e, g, x, depth) : x \in Entries(e)}

-----------------------------------------------------------------------------
(* Capabilities *)

Matches(e, s, key) == key \in Says(s.name) \cup Says(s.file)
Production(e) == {s \in Symbols(e) : ~e.fixture[s.file]}
Verified(W) == {w \in W : w.status = "verified_end_to_end"}

NamedCapability(e, W, key) ==
    LET matched == {s \in Production(e) : Matches(e, s, key)}
        ids     == {s.id : s \in matched}
        tests   == {s \in Symbols(e) \ Production(e) : Matches(e, s, key)}
        surface(type) == {x \in Surfaces(e) : x.type = type /\ key \in Says(x.name)}
        related == {w \in W : w.steps \cap ids # {} \/ key \in w.words}
        partial == {w \in related : w.status \in {"partially_implemented", "implemented_but_disconnected"}}
        substantive == {s \in matched : ~s.stub}
        disconnected == \E w \in partial : w.status = "implemented_but_disconnected"
        status  == IF matched # {} /\ substantive = {} THEN "interface_only"
                   ELSE IF Verified(related) # {} THEN "verified_end_to_end"
                   ELSE IF partial # {} /\ matched # {}
                        THEN IF disconnected THEN "implemented_but_disconnected" ELSE "partially_implemented"
                   ELSE IF substantive # {}
                        THEN IF \E w \in W : w.targets \cap ids # {}
                             THEN "partially_implemented" ELSE "implemented_but_disconnected"
                   ELSE IF surface("schema") # {} THEN "schema_only"
                   ELSE IF surface("integration") # {}
                        THEN IF \A x \in surface("integration") : ~x.called
                             THEN "configuration_only" ELSE "partially_implemented"
                   ELSE IF tests # {} THEN "test_or_mock_only" ELSE "inferred"
    IN  IF matched \cup tests \cup surface("schema") \cup surface("integration") = {} THEN {}
        ELSE {[key |-> key, status |-> status, workflows |-> {w.entry : w \in related},
               families |-> {FamilyOf(e, x.file) : x \in matched \cup tests
                                \cup surface("schema") \cup surface("integration")}
                            \cup {w.family : w \in related}]}

\* a family with structure but no named capability is listed under no name
UnnamedCapabilities(e, W, named) ==
    LET known == UNION {c.families : c \in {d \in named : d.key # DataPersistence}}
        real(family) == {s \in Production(e) : ~s.stub /\ FamilyOf(e, s.file) = family}
    IN  {LET own == {w \in W : w.family = family /\ w.structural}
         IN  [key |-> NoName, families |-> {family},
              workflows |-> {w.entry : w \in IF Verified(own) # {} THEN Verified(own) ELSE own},
              status |-> IF Verified(own) # {} THEN "verified_end_to_end"
                         ELSE "implemented_but_disconnected"] :
         family \in {f \in Families(e) \ known : real(f) # {} /\ Cardinality(real(f)) >= MinStructure}}

Capabilities(e, W) ==
    LET named == UNION {NamedCapability(e, W, key) : key \in Capability}
    IN  named \cup UnnamedCapabilities(e, W, named)

-----------------------------------------------------------------------------
(* Contradictions *)

Documents(e, family) == {f \in e.files : e.role[f] = "documentation" /\ e.read[f] /\ FamilyOf(e, f) = family}

Confirmed(caps, family, key) ==
    \E c \in caps : c.key = key /\ family \in c.families /\ c.status = "verified_end_to_end"

Contradictions(e, caps) ==
    LET ours(family, key) == {c \in caps : c.key = key /\ family \in c.families}
        claimed(family) == UNION {e.claims[f] : f \in Documents(e, family)}
        docs == {[family |-> p[1], claim |-> p[2], against |-> ours(p[1], p[2]) # {}] :
                 p \in {q \in Families(e) \X Claims :
                          /\ FamilyEligible(e, q[1])
                          /\ q[2] \in claimed(q[1])
                          /\ ~Confirmed(caps, q[1], q[2])}}
        mocks == {[family |-> FamilyOf(e, x.file), claim |-> NoName, against |-> FALSE] :
                  x \in {y \in Surfaces(e) : y.mock}}
    IN  docs \cup mocks

\* _apply_contradictions: weak statuses a document contradicts
Applied(c, found) ==
    IF /\ c.key # NoName /\ c.status \in {"inferred", "configuration_only", "test_or_mock_only"}
       /\ \E k \in found : k.claim = c.key /\ k.against
    THEN [c EXCEPT !.status = "contradicted"] ELSE c

Reconstruct(e, nodes, flows, depth) ==
    LET g     == Kept(Graph(e), nodes, flows)
        W     == Workflows(e, g, depth)
        caps  == Capabilities(e, W)
        found == Contradictions(e, caps)
    IN  [workflows |-> W, capabilities |-> {Applied(c, found) : c \in caps}, contradictions |-> found,
         complete |-> Eligible(e, Parsed(e)), truncated |-> g.nodes # Graph(e).nodes]
=============================================================================
