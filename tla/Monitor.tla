-------------------------------- MODULE Monitor --------------------------------
(***************************************************************************)
(* The inbox monitor (src/relic_auditor/capability_acquisition/monitor.py):*)
(* it polls an inbox, waits until a drop has been quiet for the debounce   *)
(* time, analyses it and writes its reports and, with a profile, advice.   *)
(* The user changes drops meanwhile.                                       *)
(*                                                                         *)
(* A drop is a name; inbox says which version lies there.  Versions are    *)
(* counted; the fingerprint sees Looks of one: counts, sizes and the       *)
(* newest time, so a version may look like the one before, or like an      *)
(* older one, as a drop does that is put back.  A name no drop may have -  *)
(* a hidden one, a partial download - is no drop until it is renamed.      *)
(* Abstract: time is counted in polls up to the debounce; an analysis may  *)
(* read several versions of a drop, and finds what one of them holds;      *)
(* Claude's session is as it is when it is asked about.                    *)
(***************************************************************************)
EXTENDS Advice

CONSTANTS Drop,       \* names, in their order
          Versions,   \* per drop, bounds its versions
          Looks,      \* the fingerprint of a version
          Finds,      \* what analysing it finds
          Cites,      \* citations a provider may answer with
          Debounce,   \* debounce_seconds
          Configs,    \* the ways a monitor may be started
          Slug,       \* the ways names may be turned into destinations
          None

Version == UNION {1 .. Versions[d] : d \in Drop}

\* Records: a drop as the polls saw it, the drop being processed, what is written of one.
Watched  == [looks : Range(Looks), quiet : 0 .. Debounce, done : Range(Looks) \cup {None}]
Work     == [drop : Drop, at : {"audit", "advise"} \cup Session, seen : SUBSET Version,
             found : Seq(Seq(Item))]
Reported == [drop : Drop, seen : SUBSET Version]
Result   == [status : {"complete", "unavailable"}, by : {"nobody", "claude-code", "openai"},
             cited : SUBSET Citation, truncated : BOOLEAN]
Written  == [drop : Drop, seen : SUBSET Version, result : Result]

ASSUME MonitorConstants ==
    /\ Drop \subseteq Nat /\ Versions \in [Drop -> Nat] /\ Debounce \in Nat
    /\ Slug \subseteq [Drop -> Drop] /\ Cites \subseteq Citation
    /\ Configs \subseteq [once : BOOLEAN, llm : {"none", "claude-code", "openai", "missing"}, required : BOOLEAN]
    /\ \A c \in Configs : c.required => c.llm # "none"
    /\ \A v \in Version : v \in DOMAIN Looks /\ v \in DOMAIN Finds /\ Finds[v] \in Seq(Seq(Item))
    /\ None \notin Version \cup Watched \cup Work \cup Reported \cup Written

VARIABLES inbox,     \* per drop its version, or None
          upto,      \* the latest version of each drop there has been
          slug,      \* the destination each name is written to
          config,    \* how the monitor was started
          polls,     \* polls of a monitor that is to poll twice
          observed,  \* per drop what the polls have seen, or None
          ready,     \* drops this poll found quiet, processed in the order of their names
          work,      \* the drop being processed, or None
          reports,   \* per destination the acquisition reports
          advice,    \* per destination the advice
          exit       \* "running", or how it ended

memory == <<polls, observed, ready, work>>
outside == <<inbox, upto, slug>>
written == <<reports, advice>>
vars == <<outside, config, polls, observed, ready, work, written, exit>>

Init ==
    /\ inbox = [d \in Drop |-> None]
    /\ upto = [d \in Drop |-> 0]
    /\ slug \in Slug
    /\ config \in Configs
    /\ polls = 0
    /\ observed = [d \in Drop |-> None]
    /\ ready = {} /\ work = None
    /\ reports = [r \in Drop |-> None] /\ advice = [r \in Drop |-> None]
    /\ exit = "running"

-----------------------------------------------------------------------------
(* The user *)

\* a drop is put or changed; an analysis that reads it sees both versions
Change(d) ==
    /\ upto[d] < Versions[d]
    /\ inbox' = [inbox EXCEPT ![d] = upto[d] + 1]
    /\ upto' = [upto EXCEPT ![d] = @ + 1]
    /\ work' = IF work # None /\ work.drop = d /\ work.at = "audit"
               THEN [work EXCEPT !.seen = @ \cup {inbox'[d]}] ELSE work
    /\ UNCHANGED <<slug, config, polls, observed, ready, written, exit>>

Withdraw(d) ==
    /\ inbox[d] # None
    /\ inbox' = [inbox EXCEPT ![d] = None]
    /\ UNCHANGED <<upto, slug, config, polls, observed, ready, work, written, exit>>

-----------------------------------------------------------------------------
(* poll_once *)

Seen(d) == Looks[inbox[d]]

\* the drop as a poll leaves it, `t` after the one before
Observe(d, t) ==
    IF inbox[d] = None THEN None
    ELSE IF observed[d] = None THEN [looks |-> Seen(d), quiet |-> 0, done |-> None]
    ELSE IF observed[d].looks # Seen(d) THEN [looks |-> Seen(d), quiet |-> 0, done |-> observed[d].done]
    ELSE [observed[d] EXCEPT !.quiet = IF @ + t < Debounce THEN @ + t ELSE Debounce]


\* seen before, unchanged for long enough, and not yet processed as it is
Quiet(d, next) ==
    observed[d] # None /\ next # None /\ next.looks = observed[d].looks
    /\ next.quiet = Debounce /\ next.done # next.looks

\* the first sight of a drop is never a quiet one
Poll ==
    /\ exit = "running" /\ work = None /\ ready = {}
    /\ config.once => polls < 2
    /\ \E t \in IF config.once THEN {Debounce} ELSE 1 .. (Debounce + 1) :
          LET next == [d \in Drop |-> Observe(d, t)]
              quiet == {d \in Drop : Quiet(d, next[d])}
          IN  /\ observed' = [d \in Drop |-> IF d \in quiet THEN [next[d] EXCEPT !.done = next[d].looks]
                                                           ELSE next[d]]
              /\ ready' = quiet
    /\ polls' = IF config.once THEN polls + 1 ELSE polls
    /\ UNCHANGED <<outside, config, work, written, exit>>

\* what it knew of the drops is gone with the process
Ends(how) ==
    /\ exit' = how
    /\ polls' = 0 /\ observed' = [d \in Drop |-> None] /\ ready' = {} /\ work' = None

\* a drop goes away while the poll looks at it
PollFails(d) ==
    /\ exit = "running" /\ work = None /\ ready = {} /\ inbox[d] # None
    /\ inbox' = [inbox EXCEPT ![d] = None]
    /\ Ends("error")
    /\ UNCHANGED <<upto, slug, config, written>>

-----------------------------------------------------------------------------
(* process_drop *)

Take ==
    /\ exit = "running" /\ work = None /\ ready # {}
    /\ LET d == Min(ready)
       IN  IF inbox[d] = None THEN Ends("error")
           ELSE /\ work' = [drop |-> d, at |-> "audit", seen |-> {inbox[d]}, found |-> <<>>]
                /\ ready' = ready \ {d}
                /\ UNCHANGED <<polls, observed, exit>>
    /\ UNCHANGED <<outside, config, written>>

Working(place) == exit = "running" /\ work # None /\ work.at = place

\* the session that was found to be permitted is now used
Asking == exit = "running" /\ work # None /\ work.at \in Session

Held(found) == ToSet(FlattenSeq(found))
Selected(found) == Held(Payload(found))

\* audit_estate, analyze_capability_acquisition, write_acquisition_reports
Report ==
    /\ Working("audit")
    /\ \E v \in work.seen :
          /\ reports' = [reports EXCEPT ![slug[work.drop]] = [drop |-> work.drop, seen |-> work.seen]]
          /\ work' = IF config.llm = "none" THEN None ELSE [work EXCEPT !.at = "advise", !.found = Finds[v]]
    /\ UNCHANGED <<outside, config, polls, observed, ready, advice, exit>>

Placed(result) == [advice EXCEPT ![slug[work.drop]] = [drop |-> work.drop, seen |-> work.seen, result |-> result]]

\* a monitor that was told to need the advice ends without it
Carries(result) ==
    /\ IF config.required /\ result.status # "complete" THEN Ends("error")
       ELSE work' = None /\ UNCHANGED <<polls, observed, ready, exit>>
    /\ UNCHANGED <<outside, config, reports>>

\* Mutant: advice is written when there is some.
AdvisedIfComplete(result) ==
    /\ advice' = IF result.status = "complete" THEN Placed(result) ELSE advice
    /\ Carries(result)

\* write_llm_reports, of an advice that is unavailable too
Advised(result) ==
    /\ advice' = Placed(result)
    /\ Carries(result)

\* no such profile, no key, no permitted session, an error, a timeout, an answer of the wrong form
NoAdvice ==
    /\ Working("advise") \/ Asking
    /\ Advised(Unavailable(work.found))

\* require_subscription; the session is used afterwards
Check ==
    /\ Working("advise") /\ config.llm = "claude-code"
    /\ \E session \in Session : Permitted(session) /\ work' = [work EXCEPT !.at = session]
    /\ UNCHANGED <<outside, config, polls, observed, ready, written, exit>>

\* an answer may cite anything: each citation is judged by itself
Answer ==
    /\ Asking \/ (Working("advise") /\ config.llm = "openai")
    /\ Advised(Complete(work.found, config.llm, Cites))

-----------------------------------------------------------------------------
(* Ends *)

\* reading a damaged drop or writing reports fails
Fails ==
    /\ Working("audit") \/ Working("advise") \/ Asking
    /\ Ends("error")
    /\ UNCHANGED <<outside, config, written>>

Interrupt ==
    /\ exit = "running"
    /\ Ends("stopped")
    /\ UNCHANGED <<outside, config, written>>

Finish ==
    /\ exit = "running" /\ config.once /\ polls = 2 /\ ready = {} /\ work = None
    /\ Ends("ok")
    /\ UNCHANGED <<outside, config, written>>

\* started again on the same inbox and output, maybe in another way
Restart ==
    /\ exit # "running"
    /\ config' \in Configs
    /\ exit' = "running"
    /\ UNCHANGED <<outside, memory, written>>

-----------------------------------------------------------------------------
Next ==
    \/ \E d \in Drop : Change(d) \/ Withdraw(d) \/ PollFails(d)
    \/ Poll \/ Take \/ Report \/ NoAdvice \/ Check \/ Answer
    \/ Fails \/ Interrupt \/ Finish \/ Restart

\* the loop goes on, and each call of a provider ends
Fairness == WF_vars(Poll) /\ WF_vars(Take) /\ WF_vars(Report) /\ WF_vars(NoAdvice)

Spec == Init /\ [][Next]_vars /\ Fairness

-----------------------------------------------------------------------------
(* Properties *)

(***************************************************************************)
(* What the inbox, the polls, a pass and its files are made of: a version  *)
(* that lies there is one there has been, and what a process knows is gone *)
(* when it ends (monitor.py:26-48, 119-128).                               *)
(***************************************************************************)
TypeOK ==
    /\ inbox \in [Drop -> Version \cup {None}] /\ upto \in [Drop -> Nat]
    /\ \A d \in Drop : upto[d] <= Versions[d] /\ (inbox[d] # None => inbox[d] \in 1 .. upto[d])
    /\ slug \in Slug /\ config \in Configs /\ polls \in Nat
    /\ observed \in [Drop -> Watched \cup {None}] /\ ready \subseteq Drop /\ work \in Work \cup {None}
    /\ reports \in [Drop -> Reported \cup {None}] /\ advice \in [Drop -> Written \cup {None}]
    /\ exit \in {"running", "ok", "error", "stopped"}
    /\ exit # "running" => observed = [d \in Drop |-> None] /\ ready = {} /\ work = None

(***************************************************************************)
(* While a monitor with a profile runs, each drop it has processed has     *)
(* advice beside its reports, and the advice is on those reports, or says  *)
(* that there is none: never advice on something an earlier pass or        *)
(* another drop reported (monitor.py:81-105).                              *)
(***************************************************************************)
AdviceFollowsReports ==
    exit = "running" /\ config.llm # "none" =>
        \A d \in Drop :
            LET to == slug[d]
                busy == \/ work # None /\ slug[work.drop] = to
                        \/ \E e \in ready : slug[e] = to
            IN  observed[d] # None /\ observed[d].done # None /\ ~busy =>
                    /\ reports[to] # None /\ advice[to] # None
                    /\ advice[to].drop = reports[to].drop /\ advice[to].seen = reports[to].seen

(***************************************************************************)
(* Claude is asked only under a subscription, as checked just before, and  *)
(* each citation of its advice names something found in that drop and      *)
(* selected for the envelope, beside whatever it may invent; advice on an  *)
(* envelope that leaves out something found says so (claude_code.py:       *)
(* 282-427, 671-834, reasoner.py:50-166, 193-229).                         *)
(***************************************************************************)
AdviceIsGrounded ==
    /\ Asking => work.at \in {"subscription", "silent"}
    /\ \A to \in {r \in Drop : advice[r] # None} :
          LET given == advice[to].result
          IN  \E found \in {Finds[v] : v \in advice[to].seen} :
                 /\ given.by = "claude-code" => \A c \in given.cited : ToSet(c) \cap Selected(found) # {}
                 /\ ~given.truncated => Held(found) \subseteq ToSet(Envelope(found))

(***************************************************************************)
(* claude_code.py:820-824 says that a citation is kept if it quotes the    *)
(* evidence or names an anchor, "without being able to invent a file or    *)
(* capability that was never observed": a kept citation names nothing that *)
(* no version of the drop holds.  Violated: MCMonitorInvents.cfg.          *)
(***************************************************************************)
NothingIsInvented ==
    \A to \in {r \in Drop : advice[r] # None} :
        advice[to].result.by = "claude-code" =>
            \A c \in advice[to].result.cited :
                ToSet(c) \subseteq UNION {Held(Finds[v]) : v \in advice[to].seen}

Alone(d) == \A e \in Drop : slug[e] = slug[d] => e = d

=============================================================================
