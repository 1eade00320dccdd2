-------------------------------- MODULE Advice --------------------------------
(***************************************************************************)
(* One request for advice (src/relic_auditor/llm/reasoner.py, providers.py *)
(* and claude_code.py): which part of the evidence is sent, when a Claude  *)
(* session may be used, and which citations of an answer are kept.         *)
(*                                                                         *)
(* An analysis is a sequence of candidates, each a sequence of evidence    *)
(* items; an item stands for a path, a name or an excerpt.  Abstract: the  *)
(* envelope is the sequence of its items, and a character limit is a limit *)
(* on their number; a citation is the sequence of what it names; words in  *)
(* a status are given by what they say.                                    *)
(***************************************************************************)
EXTENDS Integers, Sequences, SequencesExt

CONSTANTS Item,           \* what evidence is made of
          MaxCandidates,  \* MAX_EVIDENCE_CANDIDATES
          MaxItems,       \* MAX_EVIDENCE_ITEMS_PER_CANDIDATE
          MaxInput,       \* max_input_chars
          Anchors         \* items of an anchor key, long enough and no stop word

ASSUME AdviceConstants == {MaxCandidates, MaxItems, MaxInput} \subseteq Nat /\ Anchors \subseteq Item

-----------------------------------------------------------------------------
(* The evidence *)

First(s, n) == SubSeq(s, 1, IF Len(s) <= n THEN Len(s) ELSE n)

\* _evidence_payload
Payload(found) ==
    LET best == First(found, MaxCandidates)
    IN  [i \in 1 .. Len(best) |-> First(best[i], MaxItems)]

\* what is sent: the payload as text, cut at the character limit
Envelope(found) == First(FlattenSeq(Payload(found)), MaxInput)

\* prompt_truncated, which adds up what the payload left out and what was cut
Truncated(found) ==
    \/ Len(found) > MaxCandidates
    \/ \E i \in 1 .. Len(First(found, MaxCandidates)) : Len(found[i]) > MaxItems
    \/ Len(FlattenSeq(Payload(found))) > MaxInput

-----------------------------------------------------------------------------
(* Claude Code, only as a subscription *)

(***************************************************************************)
(* What `claude auth status` reports of a session: that somebody is logged *)
(* in, words for an API key or for a subscription login, a source of an    *)
(* API key, and the state of a plan; or nothing that can be read.          *)
(***************************************************************************)
Status == [none         |-> [in |-> FALSE, says |-> {}, source |-> FALSE, plan |-> "unsaid"],
           subscription |-> [in |-> TRUE, says |-> {"oauth"}, source |-> FALSE, plan |-> "active"],
           silent       |-> [in |-> TRUE, says |-> {"oauth"}, source |-> FALSE, plan |-> "unsaid"],
           lapsed       |-> [in |-> TRUE, says |-> {"oauth"}, source |-> FALSE, plan |-> "lapsed"],
           key          |-> [in |-> TRUE, says |-> {"key"}, source |-> FALSE, plan |-> "unsaid"],
           shadowed     |-> [in |-> TRUE, says |-> {"oauth"}, source |-> TRUE, plan |-> "active"],
           unreadable   |-> [in |-> FALSE, says |-> {}, source |-> FALSE, plan |-> "unsaid"]]

Session == DOMAIN Status

\* Mutant: a subscription login wins over evidence of an API key.
TypeByLogin(s) ==
    IF "oauth" \in s.says THEN "claude-subscription"
    ELSE IF "key" \in s.says \/ s.source THEN "api-key" ELSE "unknown"

\* _classify_auth: evidence of an API key wins
AuthType(s) ==
    IF "key" \in s.says \/ s.source THEN "api-key"
    ELSE IF "oauth" \in s.says THEN "claude-subscription" ELSE "unknown"

\* _entitlement_active: an unknown plan is no plan, one not reported is the login
Active(s) == IF s.plan = "unsaid" THEN s.in ELSE s.plan = "active"

\* require_subscription
Permitted(session) ==
    LET s == Status[session]
    IN  s.in /\ AuthType(s) = "claude-subscription" /\ Active(s)

-----------------------------------------------------------------------------
(* The answer *)

\* what a provider names besides the evidence
Invented == "invented"
Citation == Seq(Item \cup {Invented})

\* it stands in s as it is
Quotes(c, s) == \E k \in 0 .. Len(s) : \A i \in 1 .. Len(c) : k + i <= Len(s) /\ s[k + i] = c[i]

\* what validate_analysis keeps of Claude's answers: a citation too short says nothing, one
\* that quotes the envelope stays, and one that names an anchor of the payload stays whole
Supported(found, cited) ==
    {c \in cited :
        /\ c # <<>>
        /\ \/ Quotes(c, Envelope(found))
           \/ ToSet(c) \cap Anchors \cap ToSet(FlattenSeq(Payload(found))) # {}}

Unavailable(found) == [status |-> "unavailable", by |-> "nobody", cited |-> {}, truncated |-> Truncated(found)]

\* the answer of a provider that cited `cited`
Complete(found, protocol, cited) ==
    [status |-> "complete", by |-> protocol, truncated |-> Truncated(found),
     cited |-> IF protocol = "claude-code" THEN Supported(found, cited) ELSE cited]
=============================================================================
