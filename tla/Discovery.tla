------------------------------ MODULE Discovery ------------------------------
(***************************************************************************)
(* Product discovery (src/relic_auditor/product_discovery/pipeline.py and  *)
(* compatibility.py): from the text of an audit to opportunities, scored,  *)
(* gated by technical truth, accepted, ordered and normalised.             *)
(*                                                                         *)
(* An estate e gives e.files and e.read as the audit has them, e.role, and *)
(* per file e.topics, the rules of CAPABILITY_RULES a term of which its    *)
(* code contains outside strings and comments, e.readme and e.nonempty.    *)
(* One file yields at most one piece of evidence, which is the file here.  *)
(* Abstract: lines, symbols, prose, prices, the intent, and the families   *)
(* and rank labels, which nothing else reads.  Evidence is kept in the     *)
(* order of a hash, e.rank.                                                *)
(***************************************************************************)
EXTENDS Integers, FiniteSetsExt

CONSTANTS EvidenceKept,     \* 12: pieces of evidence a capability keeps
          MinimumEvidence,  \* minimum_evidence_score
          MaxOpportunities  \* max_opportunities

ASSUME DiscoveryConstants == {EvidenceKept, MinimumEvidence, MaxOpportunities} \subseteq Nat

CodeRoles == {"source", "API/routing", "data model", "UI/component"}

\* the templates in the order of their opportunity ids: hashes of constants
Templates ==
    <<[title |-> "inspector",  needs |-> {"developer-cli"}, proof |-> {}],
      [title |-> "compliance", needs |-> {"compliance", "reporting"},
       proof |-> {"rule-evaluation", "report-generation"}],
      [title |-> "workflow",   needs |-> {"workflow", "reporting"},
       proof |-> {"background-processing", "report-generation"}],
      [title |-> "intake",     needs |-> {"bulk-ingestion", "evaluation"},
       proof |-> {"document-ingestion", "rule-evaluation"}],
      [title |-> "shell",      needs |-> {"authentication", "billing"},
       proof |-> {"authenticated-access", "subscription-billing"}],
      [title |-> "security",   needs |-> {"security", "reporting"},
       proof |-> {"rule-evaluation", "report-generation"}]>>

Rules == (UNION {Templates[i].needs : i \in DOMAIN Templates}) \cup {"notification"}

Least(n, m) == IF n <= m THEN n ELSE m
Most(n, m) == IF n >= m THEN n ELSE m

\* round(n / m): a half goes to the even neighbour
Round(n, m) ==
    LET q == n \div m  twice == 2 * (n % m)
    IN  IF twice > m \/ (twice = m /\ q % 2 = 1) THEN q + 1 ELSE q

-----------------------------------------------------------------------------
(* Evidence and capabilities *)

\* _semantic_source: only code counts, whatever a document says
Topics(e, f) == IF e.role[f] \in CodeRoles \cup {"test"} THEN e.topics[f] ELSE {}

Evidence(e) == {f \in e.files : e.read[f] /\ e.nonempty[f] /\ (Topics(e, f) # {} \/ e.readme[f])}

Supporting(e, rule) == {f \in Evidence(e) : rule \in Topics(e, f)}

\* the first EvidenceKept in the order of their ids
First(e, files) == {f \in files : Cardinality({g \in files : e.rank[g] < e.rank[f]}) < EvidenceKept}

Confidence(e, rule) == Least(100, 35 + 12 * Cardinality(Supporting(e, rule)))

Completion(e, rule) ==
    LET files == Supporting(e, rule)
        count(roles) == Cardinality({f \in files : e.role[f] \in roles})
    IN  Least(100, 25 + 12 * count(CodeRoles) + 10 * count({"test"}) + Least(20, 3 * Cardinality(files)))

-----------------------------------------------------------------------------
(* Candidates and the technical gate *)

Mean(t, score) == Round(MapThenSumSet(LAMBDA rule : score[rule], t.needs), Cardinality(t.needs))

\* _opportunity_candidates: a template whose capabilities are all there
Candidate(e, t) ==
    LET evidence   == UNION {First(e, Supporting(e, rule)) : rule \in t.needs}
        confidence == [rule \in t.needs |-> Confidence(e, rule)]
        level      == [rule \in t.needs |-> Completion(e, rule)]
        score      == Least(100, Mean(t, confidence))
        completion == Mean(t, level)
        effort     == IF completion >= 70 THEN "low" ELSE IF completion >= 45 THEN "moderate" ELSE "high"
        commercial == Most(20, Least(80, 48 + 4 * Cardinality(evidence) - (IF effort = "high" THEN 10 ELSE 0)))
        ease       == [low |-> 75, moderate |-> 55, high |-> 30]
    IN  [title |-> t.title, proof |-> t.proof, evidence |-> evidence,
         reuse |-> UNION {Supporting(e, rule) : rule \in t.needs},
         score |-> score, completion |-> completion,
         overall |-> Round(35 * score + 25 * completion + 20 * commercial + 20 * ease[effort], 100),
         status |-> "none"]

Weak == {"contradicted", "configuration_only", "test_or_mock_only", "schema_only",
         "interface_only", "inferred", "unknown"}

\* Mutant: the capabilities that are there decide for those that are not.
GatedByMatched(o, performed, caps) ==
    LET matched == {c \in caps : c.key \in o.proof}
    IN  IF ~performed THEN [o EXCEPT !.status = "not_performed", !.overall = Least(@, 50)]
        ELSE IF matched # {} /\ \A c \in matched : c.status = "verified_end_to_end"
             THEN [o EXCEPT !.status = "high"]
        ELSE [o EXCEPT !.status = "moderate", !.overall = Least(@, 55)]

\* _apply_technical_gate: what was not verified caps the score
Gated(o, performed, caps) ==
    LET matched  == {c \in caps : c.key \in o.proof}
        verified == {c \in matched : c.status = "verified_end_to_end"}
        loose    == {c \in matched : c.status \in {"implemented_but_disconnected", "partially_implemented"}}
        cap(status, most) == [o EXCEPT !.status = status, !.overall = Least(@, most)]
    IN  CASE ~performed -> cap("not_performed", 50)
          [] performed /\ Cardinality(matched) < Cardinality(o.proof) -> cap("low", 42)
          [] performed /\ o.proof # {} /\ Cardinality(verified) = Cardinality(o.proof) ->
                [o EXCEPT !.status = "high"]
          [] OTHER -> IF \E c \in matched : c.status \in Weak THEN cap("low", 42)
                      ELSE IF verified \cup loose # {} THEN cap("moderate", 55)
                      ELSE cap("low", 45)

\* _quality_gate: the reasons a candidate can have, the texts being constants
Accepted(o) == Cardinality(o.evidence) >= 2 /\ o.score >= MinimumEvidence /\ o.reuse # {}

-----------------------------------------------------------------------------
(* Opportunities *)

\* normalize_opportunity: evidence_strength and build_pack_readiness
Strength(o) ==
    IF o.status = "high" /\ Cardinality(o.evidence) >= 2 THEN "verified"
    ELSE IF o.score >= 50 /\ Cardinality(o.evidence) >= 2 THEN "supported"
    ELSE "exploratory"

Opportunity(e, o) ==
    [title |-> o.title, proof |-> o.proof, status |-> o.status, overall |-> o.overall,
     evidence |-> o.evidence, strength |-> Strength(o),
     assets |-> {[path |-> f, hashed |-> e.hashed[f], evidence |-> {f} \cap o.evidence] : f \in o.reuse},
     ready |-> Strength(o) # "exploratory" /\ o.reuse # {}]

\* discover_products: the best ones, the overall score first and then the id
Discover(e, performed, caps) ==
    LET passed(i) == LET t == Templates[i]
                     IN  /\ \A rule \in t.needs : Supporting(e, rule) # {}
                         /\ Accepted(Candidate(e, t))
        gated == [i \in {j \in DOMAIN Templates : passed(j)} |->
                     Gated(Candidate(e, Templates[i]), performed, caps)]
        before(i) == {j \in DOMAIN gated : \/ gated[j].overall > gated[i].overall
                                          \/ (gated[j].overall = gated[i].overall /\ j < i)}
    IN  {Opportunity(e, gated[i]) : i \in {j \in DOMAIN gated : Cardinality(before(j)) < MaxOpportunities}}
=============================================================================
