------------------------------- MODULE Providers -------------------------------
(***************************************************************************)
(* Reasoning providers (src/relic_auditor/llm): the profile file           *)
(* (config.py), the OAuth tokens in the system's credential store          *)
(* (auth.py), and what a window remembers of its last Claude request       *)
(* (health.py).  None of the three is locked.  Processes are command-line  *)
(* calls and requests of an audit; each may be killed between two steps.   *)
(*                                                                         *)
(* Abstract: a profile is its authentication mode; a token is the login it *)
(* comes from, whether it is still fresh and whether it can be renewed;    *)
(* the answers of a provider and of a browser are chosen freely.  Writing  *)
(* the profile file is one step, as if its temporary name were not shared. *)
(***************************************************************************)
EXTENDS Naturals

CONSTANTS Proc,       \* command-line processes and requests
          Window,     \* windows with a Claude request
          Name,       \* profile names
          MaxLogins,  \* bounds the logins that succeed
          None

ASSUME ProvidersConstants == MaxLogins \in Nat

Kind == {"oauth", "api-key"}

VARIABLES profiles,  \* the profile file: per name its kind, or None
          vault,     \* the credential store: per name a token or None
          proc,      \* the processes
          logins,    \* logins that got a token
          health,    \* provider-health.json, the entry of claude-code
          asking,    \* windows whose Claude request runs
          \* what the user did, for the properties
          last,      \* per name, the last login stored, None after a logout
          raced,     \* names whose token was being renewed at that time
          latest,    \* how the latest Claude request went
          chosen,    \* it was asked by the Claude choice, not by a profile's name
          clean      \* no other ran beside it, and the record could be written

tokens == <<vault, logins, last, raced>>
runtime == <<health, asking, latest, chosen, clean>>
vars == <<profiles, tokens, proc, runtime>>

Idle == [at |-> "idle", name |-> None, token |-> None, file |-> None, late |-> FALSE, held |-> FALSE]

Init ==
    /\ profiles = [n \in Name |-> None]
    /\ vault = [n \in Name |-> None]
    /\ proc = [p \in Proc |-> Idle]
    /\ logins = 0
    /\ health = "unknown" /\ asking = {}
    /\ latest = "none" /\ chosen = TRUE /\ clean = TRUE
    /\ last = [n \in Name |-> None]
    /\ raced = {}

At(p, place) == proc[p].at = place
Go(p, step) == proc' = [proc EXCEPT ![p] = step]
Done(p) == Go(p, Idle)

Renewing(n) == \E p \in Proc : At(p, "renew") /\ proc[p].name = n

\* the user logged in to n, or out
Decided(n, grant) ==
    /\ last' = [last EXCEPT ![n] = grant]
    /\ raced' = IF Renewing(n) THEN raced \cup {n} ELSE raced \ {n}

-----------------------------------------------------------------------------
(* The profile file *)

\* ProfileStore.save and .remove read the whole file, and then replace it
Edit(p, n, kind) == Go(p, [Idle EXCEPT !.at = "write", !.file = [profiles EXCEPT ![n] = kind]])

Add(p) ==
    /\ At(p, "idle")
    /\ \E n \in Name, kind \in Kind : Edit(p, n, kind)
    /\ UNCHANGED <<profiles, tokens, runtime>>

WriteList(p) ==
    /\ At(p, "write")
    /\ profiles' = proc[p].file
    /\ Done(p)
    /\ UNCHANGED <<tokens, runtime>>

\* Mutant: removing a profile leaves its token.
Keep(n) == UNCHANGED vault /\ Decided(n, None)

\* oauth_logout
Forget(n) ==
    /\ vault' = [vault EXCEPT ![n] = None]
    /\ Decided(n, None)

\* `llm remove`: first the token of an OAuth profile, then its entry
Remove(p) ==
    /\ At(p, "idle")
    /\ \E n \in {m \in Name : profiles[m] # None} :
          /\ Go(p, [proc[p] EXCEPT !.at = "unlist", !.name = n])
          /\ IF profiles[n] = "oauth" THEN Forget(n) ELSE UNCHANGED <<vault, last, raced>>
    /\ UNCHANGED <<profiles, logins, runtime>>

Unlist(p) ==
    /\ At(p, "unlist")
    /\ IF profiles[proc[p].name] = None THEN Done(p) ELSE Edit(p, proc[p].name, None)
    /\ UNCHANGED <<profiles, tokens, runtime>>

Logout(p) ==
    /\ At(p, "idle")
    /\ \E n \in {m \in Name : profiles[m] # None} : Forget(n)
    /\ UNCHANGED <<profiles, logins, proc, runtime>>

-----------------------------------------------------------------------------
(* oauth_login *)

\* a browser was opened; without one the login ends at once
Login(p) ==
    /\ At(p, "idle")
    /\ \E n \in {m \in Name : profiles[m] = "oauth"} :
          Go(p, [proc[p] EXCEPT !.at = "listen", !.name = n])
    /\ UNCHANGED <<profiles, tokens, runtime>>

\* any GET ends the wait, whatever it asks for; only ours, with a code, goes on
Answered(p) ==
    /\ At(p, "listen") /\ ~proc[p].held
    /\ Done(p) \/ Go(p, [proc[p] EXCEPT !.at = "exchange"])
    /\ UNCHANGED <<profiles, tokens, runtime>>

\* a connection that sends nothing holds the only thread
Connect(p) ==
    /\ At(p, "listen") /\ ~proc[p].held
    /\ Go(p, [proc[p] EXCEPT !.held = TRUE])
    /\ UNCHANGED <<profiles, tokens, runtime>>

\* it asks for something after all, however late, or closes, and the loop looks at the clock
Disconnect(p) ==
    /\ At(p, "listen") /\ proc[p].held
    /\ \/ Done(p)
       \/ Go(p, [proc[p] EXCEPT !.at = "exchange"])
       \/ ~proc[p].late /\ Go(p, [proc[p] EXCEPT !.held = FALSE])
    /\ UNCHANGED <<profiles, tokens, runtime>>

Deadline(p) ==
    /\ At(p, "listen") /\ ~proc[p].late
    /\ Go(p, [proc[p] EXCEPT !.late = TRUE])
    /\ UNCHANGED <<profiles, tokens, runtime>>

\* Mutant: the deadline is tested by a request, not by the loop.
TimedOutByRequest(p) ==
    /\ At(p, "listen") /\ proc[p].late /\ proc[p].held
    /\ Done(p)
    /\ UNCHANGED <<profiles, tokens, runtime>>

\* handle_request returns within a second, then the loop looks at the clock
TimedOut(p) ==
    /\ At(p, "listen") /\ proc[p].late /\ ~proc[p].held
    /\ Done(p)
    /\ UNCHANGED <<profiles, tokens, runtime>>

\* _post_form, _normalize_token and SecretStore.set
Exchange(p) ==
    LET n == proc[p].name
    IN  /\ At(p, "exchange") /\ logins < MaxLogins
        /\ \E renews \in BOOLEAN :
              vault' = [vault EXCEPT ![n] = [grant |-> logins + 1, fresh |-> TRUE, renews |-> renews]]
        /\ logins' = logins + 1
        /\ Decided(n, logins + 1)
        /\ Done(p)
        /\ UNCHANGED <<profiles, runtime>>

\* the endpoint refuses, or nothing can be stored: the token there was stays
Refused(p) ==
    /\ proc[p].at \in {"exchange", "renew"}
    /\ Done(p)
    /\ UNCHANGED <<profiles, tokens, runtime>>

-----------------------------------------------------------------------------
(* access_token *)

\* within a minute of its expiry a token is no longer used
Expire(n) ==
    /\ vault[n] # None /\ vault[n].fresh
    /\ vault' = [vault EXCEPT ![n].fresh = FALSE]
    /\ UNCHANGED <<profiles, logins, proc, last, raced, runtime>>

\* no token, or one that can be renewed no more, is an error; a fresh one is used as it is
Request(p) ==
    /\ At(p, "idle")
    /\ \E n \in {m \in Name : profiles[m] = "oauth"} :
          /\ vault[n] # None /\ ~vault[n].fresh /\ vault[n].renews
          /\ Go(p, [proc[p] EXCEPT !.at = "renew", !.name = n, !.token = vault[n]])
    /\ UNCHANGED <<profiles, tokens, runtime>>

\* stored whatever the vault holds by now; an answer may end the renewals
Renew(p) ==
    /\ At(p, "renew")
    /\ \E renews \in BOOLEAN :
          vault' = [vault EXCEPT ![proc[p].name] = [proc[p].token EXCEPT !.fresh = TRUE, !.renews = renews]]
    /\ Done(p)
    /\ UNCHANGED <<profiles, logins, last, raced, runtime>>

\* killed or interrupted, at any step
Crash(p) ==
    /\ ~At(p, "idle")
    /\ Done(p)
    /\ UNCHANGED <<profiles, tokens, runtime>>

-----------------------------------------------------------------------------
(* What a window remembers of Claude *)

\* save_provider_health, alone or not; a window ignores that it cannot be written
Save(status, alone) ==
    \/ health' = status /\ clean' = alone
    \/ UNCHANGED health /\ clean' = FALSE

\* Mutant: nothing is written until the answer.
AskQuietly(w) ==
    /\ w \notin asking
    /\ asking' = asking \cup {w}
    /\ latest' = "running"
    /\ chosen' \in BOOLEAN
    /\ UNCHANGED <<profiles, tokens, proc, health, clean>>

\* start_scan; the start is saved if Claude is selected, and not if a profile of Claude
\* Code is given by its name
Ask(w) ==
    /\ w \notin asking
    /\ asking' = asking \cup {w}
    /\ latest' = "running"
    /\ \/ chosen' = TRUE /\ Save("running", asking = {})
       \/ chosen' = FALSE /\ UNCHANGED health /\ clean' = (asking = {})
    /\ UNCHANGED <<profiles, tokens, proc>>

\* _scan_complete, once the advice is there, good or unavailable; nothing is saved when the
\* profile could not be read by then, or was another provider's
Answer(w) ==
    /\ w \in asking
    /\ asking' = asking \ {w}
    /\ \/ \E outcome \in {"operational", "failed"} :
             latest' = outcome /\ Save(outcome, clean /\ asking = {w})
       \/ latest' = "unread" /\ UNCHANGED health /\ clean' = (clean /\ asking = {w})
    /\ UNCHANGED <<profiles, tokens, proc, chosen>>

\* the audit fails before its advice, or the window is gone: nothing is written
Lose(w) ==
    /\ w \in asking
    /\ asking' = asking \ {w}
    /\ latest' = "lost"
    /\ clean' = (clean /\ asking = {w})
    /\ UNCHANGED <<profiles, tokens, proc, health, chosen>>

-----------------------------------------------------------------------------
Step(p) ==
    \/ Add(p) \/ WriteList(p) \/ Remove(p) \/ Unlist(p) \/ Logout(p)
    \/ Login(p) \/ Answered(p) \/ Connect(p) \/ Disconnect(p) \/ Deadline(p) \/ TimedOut(p)
    \/ Exchange(p) \/ Refused(p) \/ Request(p) \/ Renew(p) \/ Crash(p)

Next ==
    \/ \E p \in Proc : Step(p)
    \/ \E n \in Name : Expire(n)
    \/ \E w \in Window : Ask(w) \/ Answer(w) \/ Lose(w)

\* a browser's connection asks or closes; the deadline comes; the loop then ends
Fairness ==
    \A p \in Proc : WF_vars(Disconnect(p)) /\ WF_vars(Deadline(p)) /\ WF_vars(TimedOut(p))

Spec == Init /\ [][Next]_vars /\ Fairness

-----------------------------------------------------------------------------
(* Properties *)

Profiles == [Name -> Kind \cup {None}]
Token == [grant : Nat, fresh : BOOLEAN, renews : BOOLEAN]
Place == {"idle", "write", "unlist", "listen", "exchange", "renew"}

TypeOK ==
    /\ profiles \in Profiles
    /\ vault \in [Name -> Token \cup {None}]
    /\ proc \in [Proc -> [at : Place, name : Name \cup {None}, token : Token \cup {None},
                         file : Profiles \cup {None}, late : BOOLEAN, held : BOOLEAN]]
    /\ logins \in Nat
    /\ health \in {"unknown", "running", "operational", "failed"}
    /\ asking \subseteq Window
    /\ last \in [Name -> Nat \cup {None}] /\ raced \subseteq Name
    /\ latest \in {"none", "running", "operational", "failed", "unread", "lost"}
    /\ chosen \in BOOLEAN /\ clean \in BOOLEAN

(***************************************************************************)
(* The store holds a token of the user's last login, and none after a      *)
(* logout or the removal of an OAuth profile, unless the token was being   *)
(* renewed at that very moment: the renewal stores what it got whatever    *)
(* has happened since (auth.py:134-168).                                   *)
(***************************************************************************)
TokenFollowsTheUser ==
    \A n \in Name \ raced : vault[n] # None => vault[n].grant = last[n]

(***************************************************************************)
(* A login ends: it does not wait for a browser beyond its deadline,       *)
(* provided each connection it accepts asks for something or closes        *)
(* (auth.py:96-103).                                                       *)
(***************************************************************************)
LoginEnds == \A p \in Proc : At(p, "listen") ~> ~At(p, "listen")

\* _refresh_provider, of a provider that is set up
Shown ==
    CASE health = "unknown"     -> "CONFIGURED"
      [] health = "running"     -> "INTERRUPTED"
      [] health = "failed"      -> "LAST REQUEST FAILED"
      [] health = "operational" -> "OPERATIONAL"

\* No outcome of the latest request was saved.
Open == latest \in {"running", "lost", "unread"}

(***************************************************************************)
(* What a setup check or a new window shows is how the latest request      *)
(* went, over restarts, unless two ran at once or the record could not be  *)
(* written: a failure as a failure, and an end nobody saved as an          *)
(* interruption.  A request by a profile's name is shown only once its     *)
(* outcome is saved: until then, and for good when it was lost, what is    *)
(* shown is of an older one (qt_app.py:1655-1690, 1817-1825, 1975-2014).   *)
(***************************************************************************)
LastRequestIsShown ==
    clean /\ (Open => chosen) =>
        /\ latest = "none" <=> Shown = "CONFIGURED"
        /\ Open <=> Shown = "INTERRUPTED"
        /\ latest = "failed" <=> Shown = "LAST REQUEST FAILED"
        /\ latest = "operational" <=> Shown = "OPERATIONAL"

(***************************************************************************)
(* docs/v0.12.0-release-notes.md:19-20 says "A timeout or failure is          *)
(* persisted": a request by the Claude choice that ended in a failure, one *)
(* to read its profile too, is shown as failed, where the record could be  *)
(* written (reasoner.py:95-112, qt_app.py:1988-1992).  Violated:           *)
(* MCProvidersUnread.cfg.                                                  *)
(***************************************************************************)
FailureIsPersisted ==
    clean /\ chosen /\ latest \in {"failed", "unread"} => Shown = "LAST REQUEST FAILED"
=============================================================================
