------------------------------ MODULE MCAnalysis ------------------------------
(***************************************************************************)
(* Analysis for TLC.  The estate has an application - a screen, a route,   *)
(* its core, a document, a test, a ZIP file, a hidden draft and a build    *)
(* directory - and a library with a function of the same name, of which    *)
(* there is an old copy in the same family.  Features vary it: Disks are   *)
(* the estates with at most MaxFeatures of them.                           *)
(***************************************************************************)
EXTENDS Analysis, TLC

CONSTANT MaxFeatures

Features == {"stub", "unrouted", "headless", "moved", "import", "claims",
             "large", "broken", "twin", "refused", "damaged", "queue", "plain", "copy"}

App == {"app/pyproject.toml", "app/ui.tsx", "app/api.py", "app/core.py", "app/README.md",
        "app/tests/test_core.py", "app/old.zip!util.py", "app/.draft.py", "app/build/ui.js"}
Lib == {"lib/setup.py", "lib/core.py"}
Old == {"lib-old/pyproject.toml", "lib-old/core.py"}
Paths == App \cup Lib \cup Old

Rank == [i \in 1 .. 13 |-> <<"app/.draft.py", "app/README.md", "app/api.py", "app/build/ui.js", "app/core.py",
           "app/old.zip!util.py", "app/pyproject.toml", "app/tests/test_core.py", "app/ui.tsx",
           "lib-old/core.py", "lib-old/pyproject.toml", "lib/core.py", "lib/setup.py">>[i]]

\* the value of `table` at a path it has, `other` elsewhere
With(table, other) == [f \in Paths |-> IF f \in DOMAIN table THEN table[f] ELSE other]

Symbol(id, file, name, stub) == [id |-> id, file |-> file, name |-> name, stub |-> stub]

Surface(id, type, file, name, target) ==
    [id |-> id, type |-> type, file |-> file, name |-> name, target |-> target, handler |-> "run",
     owner |-> NoName, direct |-> FALSE, mock |-> FALSE, called |-> FALSE]

Disk(T) ==
    LET one(feature, S) == IF feature \in T THEN S ELSE {}
        but(feature, S) == IF feature \in T THEN {} ELSE S
        Stubs == "stub" \in T
    IN [paths |-> Paths,
        place |-> With("app/.draft.py" :> "hidden" @@ "app/build/ui.js" :> "vendored", "tree"),
        archive |-> With("app/old.zip!util.py" :> "app/old.zip", None),
        size |-> With(IF "large" \in T THEN "app/core.py" :> 3 ELSE "app/core.py" :> 1, 1),
        digest |-> With(IF "twin" \in T
                        THEN "app/core.py" :> "d" @@ "lib/core.py" :> "d" @@ "app/old.zip!util.py" :> "d"
                        ELSE "app/ui.tsx" :> "d" @@ "app/build/ui.js" :> "d", "e") ,
        order |-> [f \in Paths |-> CHOOSE i \in 1 .. 13 : Rank[i] = f],
        dir |-> With("app/pyproject.toml" :> "app" @@ "lib/setup.py" :> "lib" @@ [f \in Old |-> "lib-old"], "app"),
        inside |-> {<<f, "app">> : f \in App} \cup {<<f, "lib">> : f \in Lib} \cup {<<f, "lib-old">> : f \in Old},
        depth |-> [r \in {"app", "lib", "lib-old", Top} |-> IF r = Top THEN 0 ELSE 1],
        role |-> With("app/README.md" :> "documentation" @@ "app/tests/test_core.py" :> "test"
                      @@ "app/ui.tsx" :> "UI/component"
                      @@ "app/pyproject.toml" :> "manifest" @@ "lib/setup.py" :> "manifest"
                      @@ "lib-old/pyproject.toml" :> "manifest", "source"),
        code |-> With("app/README.md" :> FALSE @@ "app/pyproject.toml" :> FALSE
                      @@ "lib-old/pyproject.toml" :> FALSE, TRUE),
        test |-> With("app/tests/test_core.py" :> TRUE, FALSE),
        binary |-> With(<<>>, "no"),
        worth |-> With(<<>>, TRUE),
        fastapi |-> With("app/api.py" :> TRUE, FALSE),
        shared |-> With("app/ui.tsx" :> TRUE, FALSE),
        trouble |-> With("app/old.zip!util.py" :> (IF "damaged" \in T THEN "corrupt" ELSE "no"), "no"),
        manifests |-> {"app/pyproject.toml", "lib/setup.py", "lib-old/pyproject.toml"},
        kinds |-> With("app/pyproject.toml" :> {"Python"} @@ "lib/setup.py" :> {"Python"}
                       @@ "lib-old/pyproject.toml" :> {"Python"}, {}),
        archives |-> {"app/old.zip"},
        opens |-> "app/old.zip" :> TRUE,
        declared |-> "app/old.zip" :> (IF "refused" \in T THEN 9 ELSE 1),
        language |-> With("app/README.md" :> "none" @@ "app/pyproject.toml" :> "none"
                          @@ "lib-old/pyproject.toml" :> "none", "supported"),
        verdict |-> With("app/api.py" :> (IF "broken" \in T THEN "invalid_syntax" ELSE "success"), "success"),
        claims |-> With("app/README.md" :> one("claims", {"report-generation", "background-processing"}), {}),
        fixture |-> With("app/tests/test_core.py" :> TRUE, FALSE),
        topics |-> With("app/core.py" :> {"compliance", "reporting"} @@ "app/api.py" :> {"reporting", "developer-cli"}
                        @@ "app/old.zip!util.py" :> {"developer-cli"}
                        @@ "app/ui.tsx" :> {"reporting"} @@ "app/tests/test_core.py" :> {"compliance"}, {}),
        readme |-> With("app/README.md" :> TRUE, FALSE),
        symbols |-> {Symbol("api.run", "app/api.py", "run", Stubs),
                     Symbol("core.evaluate", "app/core.py", "evaluate", Stubs),
                     Symbol("test.save_report", "app/tests/test_core.py", "save_report", FALSE),
                     Symbol("test.job", "app/tests/test_core.py", "job", FALSE)}
                    \cup but("plain", {Symbol("lib.save_report", "lib/core.py", "save_report", FALSE)})
                    \cup one("copy", {Symbol("old.fold", "lib-old/core.py", "fold", FALSE)})
                    \cup one("plain", {Symbol("lib." \o name, "lib/core.py", name, FALSE) : name \in {"walk", "fold", "zip"}})
                    \cup but("moved", {Symbol("core.save_report", "app/core.py", "save_report", Stubs)}),
        refs |-> {[file |-> "app/api.py", caller |-> "api.run", name |-> "save_report", flow |-> {"passes_data", "writes_to"}],
                  [file |-> "app/api.py", caller |-> "api.run", name |-> "evaluate", flow |-> {}]}
                 \cup but("plain", {[file |-> "lib/core.py", caller |-> "lib.save_report", name |-> "fold", flow |-> {}]}),
        imports |-> {[file |-> "app/api.py", local |-> "save_report", source |-> f, name |-> "save_report"] :
                        f \in (IF "import" \in T THEN {"lib/core.py"} ELSE {"app/core.py"})},
        surfaces |-> but("headless", {[Surface("ui", "ui_action", "app/ui.tsx", NoName, "/run")
                                         EXCEPT !.owner = "ui.Screen", !.mock = "queue" \in T]})
                     \cup {Surface("route", "endpoint", "app/api.py", "/run", NoName)}
                     \cup one("queue", {[Surface("jobs", "queue_producer", "app/core.py", "jobs", "jobs") EXCEPT !.owner = "core.evaluate"]}),
        mounts |-> but("unrouted", {<<"app/core.py", "app/api.py">>})]

MCDisks == {Disk(T) : T \in {S \in SUBSET Features : Cardinality(S) <= MaxFeatures}}

MCRequests == {{}, {"hidden", "truth"}, {"discovery"}, {"truth", "discovery", "acquisition", "advice"}}
MCCapability == {"rule-evaluation", "report-generation", "background-processing", DataPersistence}
MCClaims == {"rule-evaluation", "report-generation", "background-processing"}
MCWords == "save_report" :> {Store, Output, "report-generation", DataPersistence}
           @@ "evaluate" :> {"rule-evaluation"}
           @@ "job" :> {"background-processing"} @@ "jobs" :> {"background-processing"}
MCCanonical == [r \in {"app", "lib", "lib-old", Top} |-> IF r = "lib-old" THEN "lib" ELSE r]
=============================================================================
