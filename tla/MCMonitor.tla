------------------------------- MODULE MCMonitor -------------------------------
(***************************************************************************)
(* Monitor for TLC: two drops, the first of up to three versions, of which *)
(* the last has the fingerprint of the first again.                        *)
(***************************************************************************)
EXTENDS Monitor

MCDrop == {1, 2}
MCVersions == <<3, 1>>
MCLooks == <<1, 2, 1>>
MCFinds == <<<<<<"path">>>>, <<<<"path", "excerpt">>, <<"name">>, <<"path">>>>, <<<<"excerpt", "name", "path">>>>>>
MCItem == {"path", "name", "excerpt"}
MCAnchors == {"path", "name"}
MCCites == {<<a>> : a \in MCItem \cup {Invented}} \cup {<<a, b>> : a, b \in MCItem \cup {Invented}}
MCSlug == {<<1, 2>>, <<1, 1>>}
MCConfigs == {[once |-> FALSE, llm |-> "claude-code", required |-> FALSE],
              [once |-> FALSE, llm |-> "openai", required |-> TRUE],
              [once |-> TRUE, llm |-> "none", required |-> FALSE]}
=============================================================================
