--------------------------- MODULE ProvidersProofs ---------------------------
(* What holds of Providers for every set of processes, windows and        *)
(* profiles, and however often the user logs in.                          *)
EXTENDS Providers, TLAPS

ProcType == [at : Place, name : Name \cup {None}, token : Token \cup {None},
             file : Profiles \cup {None}, late : BOOLEAN, held : BOOLEAN]

(* What a process holds: the name it works on, the file it will write, and *)
(* the token it is renewing, which is of the last login `grants` tells of *)
(* unless the user has decided otherwise meanwhile.                       *)
Holds(r, grants, past) ==
    /\ r.at \in {"unlist", "listen", "exchange", "renew"} => r.name \in Name
    /\ r.at = "write" => r.file \in Profiles
    /\ r.at = "renew" =>
          /\ r.token \in Token
          /\ r.name \notin past => r.token.grant = grants[r.name]

ProcsHold == \A p \in Proc : Holds(proc[p], last, raced)

(* The tokens: an invariant only together with what renewing processes    *)
(* hold, for that is stored next.                                         *)
TInv == TypeOK /\ TokenFollowsTheUser /\ ProcsHold

(* The record of Claude: a request that runs alone is the latest one.     *)
RInv ==
    /\ TypeOK
    /\ LastRequestIsShown
    /\ clean /\ asking # {} /\ chosen => health = "running"

(* A step of one process that leaves tokens and decisions alone.          *)
LEMMA MoveStep ==
    ASSUME TInv, NEW p \in Proc, NEW r \in ProcType, Go(p, r), Holds(r, last, raced),
           profiles' \in Profiles, UNCHANGED <<tokens, runtime>>
    PROVE  TInv'
<1>1. proc \in [Proc -> ProcType]
    BY DEF TInv, TypeOK, ProcType
<1>2. /\ proc' \in [Proc -> ProcType] /\ proc'[p] = r
      /\ \A q \in Proc \ {p} : proc'[q] = proc[q]
    BY <1>1 DEF Go
<1>3. TypeOK'
    BY <1>2 DEF TInv, TypeOK, ProcType, tokens, runtime
<1>4. TokenFollowsTheUser'
    BY DEF TInv, TokenFollowsTheUser, tokens
<1>5. ProcsHold'
    BY <1>2 DEF TInv, ProcsHold, tokens
<1>. QED
    BY <1>3, <1>4, <1>5 DEF TInv

(* The user decides about `n`: every token of `n` that is being renewed   *)
(* is of the past then.                                                   *)
LEMMA DecidedHolds ==
    ASSUME TInv, NEW n \in Name, NEW grant \in Nat \cup {None}, Decided(n, grant),
           NEW q \in Proc
    PROVE  Holds(proc[q], last', raced')
<1>1. /\ proc[q] \in ProcType /\ Holds(proc[q], last, raced)
      /\ last \in [Name -> Nat \cup {None}]
    BY DEF TInv, TypeOK, ProcType, ProcsHold
<1>2. \A m \in Name \ {n} : last'[m] = last[m] /\ (m \in raced' <=> m \in raced)
    BY <1>1 DEF Decided
<1>3. proc[q].at = "renew" /\ proc[q].name = n => n \in raced'
    BY DEF Decided, Renewing, At
<1>. QED
    BY <1>1, <1>2, <1>3 DEF Holds

(* Idle processes, and the ones that have ended, hold nothing.            *)
LEMMA IdleHolds == Idle \in ProcType /\ \A grants, past : Holds(Idle, grants, past)
BY DEF Idle, ProcType, Place, Holds

(* A decision of the user together with the token it puts there.          *)
LEMMA DecidedStep ==
    ASSUME TInv, NEW p \in Proc, NEW r \in ProcType,
           proc' \in {proc, [proc EXCEPT ![p] = r]}, r.at \in {"idle", "unlist"},
           r.at = "unlist" => r.name \in Name,
           NEW n \in Name, NEW grant \in Nat \cup {None}, Decided(n, grant),
           NEW t \in Token \cup {None}, vault' = [vault EXCEPT ![n] = t],
           t # None => t \in Token /\ t.grant = grant,
           logins' \in Nat, UNCHANGED <<profiles, runtime>>
    PROVE  TInv'
<1>1. proc \in [Proc -> ProcType] /\ TypeOK
    BY DEF TInv, TypeOK, ProcType
<1>2. /\ last' \in [Name -> Nat \cup {None}] /\ last'[n] = grant /\ raced' \subseteq Name
      /\ \A m \in Name \ {n} : last'[m] = last[m] /\ (m \in raced' <=> m \in raced)
    BY <1>1 DEF Decided, TypeOK
<1>3. /\ vault' \in [Name -> Token \cup {None}] /\ vault'[n] = t
      /\ \A m \in Name \ {n} : vault'[m] = vault[m]
    BY <1>1 DEF TypeOK
<1>4. proc' \in [Proc -> ProcType] /\ \A q \in Proc : proc'[q] \in {proc[q], r}
    BY <1>1
<1>5. TypeOK'
    BY <1>1, <1>2, <1>3, <1>4 DEF TypeOK, ProcType, runtime
<1>6. TokenFollowsTheUser'
  <2>1. ASSUME NEW m \in Name \ raced', vault'[m] # None
        PROVE  vault'[m].grant = last'[m]
    <3>1. CASE m = n
        BY <1>2, <1>3, <2>1, <3>1
    <3>2. CASE m # n
        BY <1>2, <1>3, <2>1, <3>2 DEF TInv, TokenFollowsTheUser
    <3>. QED
        BY <3>1, <3>2
  <2>. QED
      BY <2>1 DEF TokenFollowsTheUser
<1>7. ProcsHold'
  <2>1. Holds(r, last', raced')
      BY DEF Holds
  <2>. QED
      BY <1>4, <2>1, DecidedHolds DEF ProcsHold
<1>. QED
    BY <1>5, <1>6, <1>7 DEF TInv

(* The token of `n` is another one of the same login.                     *)
LEMMA RenewedStep ==
    ASSUME TInv, NEW n \in Name, NEW t \in Token, vault' = [vault EXCEPT ![n] = t],
           n \notin raced => t.grant = last[n],
           proc' = proc \/ \E p \in Proc : Done(p),
           UNCHANGED <<profiles, logins, last, raced, runtime>>
    PROVE  TInv'
<1>1. proc \in [Proc -> ProcType] /\ TypeOK /\ ProcsHold
    BY DEF TInv, TypeOK, ProcType
<1>2. /\ vault' \in [Name -> Token \cup {None}] /\ vault'[n] = t
      /\ \A m \in Name \ {n} : vault'[m] = vault[m]
    BY <1>1 DEF TypeOK
<1>3. proc' \in [Proc -> ProcType] /\ \A q \in Proc : proc'[q] \in {proc[q], Idle}
    BY <1>1, IdleHolds DEF Done, Go
<1>4. TypeOK'
    BY <1>1, <1>2, <1>3 DEF TypeOK, ProcType, runtime
<1>5. TokenFollowsTheUser'
    BY <1>2 DEF TInv, TokenFollowsTheUser
<1>6. ProcsHold'
    BY <1>1, <1>3, IdleHolds DEF ProcsHold
<1>. QED
    BY <1>4, <1>5, <1>6 DEF TInv

LEMMA StepKeeps ==
    ASSUME TInv, NEW p \in Proc, Step(p)
    PROVE  TInv'
<1>. DEFINE r == proc[p]
<1>0. /\ r \in ProcType /\ TypeOK /\ Holds(r, last, raced) /\ TokenFollowsTheUser
      /\ profiles \in Profiles
    BY DEF TInv, TypeOK, ProcType, ProcsHold
<1>1. ASSUME Done(p), profiles' \in Profiles, UNCHANGED <<tokens, runtime>>
      PROVE  TInv'
    BY <1>1, IdleHolds, MoveStep DEF Done
<1>2. ASSUME NEW n \in Name, NEW kind \in Kind \cup {None}, Edit(p, n, kind),
             UNCHANGED <<profiles, tokens, runtime>>
      PROVE  TInv'
  <2>. DEFINE file == [profiles EXCEPT ![n] = kind]
              s == [Idle EXCEPT !.at = "write", !.file = file]
  <2>1. file \in Profiles
      BY <1>0 DEF Profiles
  <2>2. s \in ProcType /\ s.at = "write" /\ s.file = file
      BY <2>1, IdleHolds DEF ProcType, Place
  <2>3. Holds(s, last, raced)
      BY <2>1, <2>2 DEF Holds
  <2>. QED
      BY <1>0, <1>2, <2>2, <2>3, MoveStep DEF Edit
<1>3. ASSUME NEW s \in ProcType, Go(p, s), s.at \in {"listen", "exchange", "unlist"}, s.name \in Name,
             UNCHANGED <<profiles, tokens, runtime>>
      PROVE  TInv'
  <2>1. Holds(s, last, raced)
      BY <1>3 DEF Holds
  <2>. QED
      BY <1>0, <1>3, <2>1, MoveStep
<1>4. \A place \in {"listen", "exchange", "unlist"}, n \in Name :
         LET s == [r EXCEPT !.at = place, !.name = n]
         IN  s \in ProcType /\ s.at = place /\ s.name = n
    BY <1>0 DEF ProcType, Place
<1>5. r.at \in {"listen", "exchange", "unlist", "renew"} => r.name \in Name
    BY <1>0 DEF Holds
<1>6. CASE Add(p)
    BY <1>2, <1>6 DEF Add
<1>7. CASE WriteList(p)
    BY <1>0, <1>1, <1>7 DEF WriteList, At, Holds
<1>8. CASE Remove(p)
  <2>1. PICK n \in Name : /\ Go(p, [r EXCEPT !.at = "unlist", !.name = n])
                          /\ IF profiles[n] = "oauth" THEN Forget(n) ELSE UNCHANGED <<vault, last, raced>>
      BY <1>8 DEF Remove
  <2>. DEFINE s == [r EXCEPT !.at = "unlist", !.name = n]
  <2>2. s \in ProcType /\ s.at = "unlist" /\ s.name \in Name
      BY <1>4
  <2>3. CASE profiles[n] = "oauth"
      BY <1>0, <1>8, <2>1, <2>2, <2>3, DecidedStep DEF Remove, Forget, Go, TypeOK
  <2>4. CASE profiles[n] # "oauth"
      BY <1>3, <1>8, <2>1, <2>2, <2>4 DEF Remove, tokens
  <2>. QED
      BY <2>3, <2>4
<1>9. CASE Unlist(p)
    BY <1>0, <1>1, <1>2, <1>5, <1>9 DEF Unlist, At
<1>10. CASE Logout(p)
  <2>1. PICK n \in Name : Forget(n)
      BY <1>10 DEF Logout
  <2>2. Idle.at = "idle" /\ Idle \in ProcType
      BY IdleHolds DEF Idle
  <2>3. proc' = proc /\ logins' \in Nat /\ UNCHANGED <<profiles, runtime>>
      BY <1>0, <1>10 DEF Logout, TypeOK
  <2>4. Decided(n, None) /\ vault' = [vault EXCEPT ![n] = None]
      BY <2>1 DEF Forget
  <2>5. None \in Nat \cup {None} /\ None \in Token \cup {None}
      OBVIOUS
  <2>. QED
      BY <2>2, <2>3, <2>4, <2>5, DecidedStep
<1>11. CASE Login(p)
  <2>1. PICK n \in Name : Go(p, [r EXCEPT !.at = "listen", !.name = n])
      BY <1>11 DEF Login
  <2>. DEFINE s == [r EXCEPT !.at = "listen", !.name = n]
  <2>2. s \in ProcType /\ s.at = "listen" /\ s.name \in Name
      BY <1>4
  <2>. QED
      BY <1>3, <1>11, <2>1, <2>2 DEF Login
<1>12. CASE Answered(p)
  <2>1. [r EXCEPT !.at = "exchange"] \in ProcType /\ [r EXCEPT !.at = "exchange"].name = r.name
        /\ [r EXCEPT !.at = "exchange"].at = "exchange"
      BY <1>0 DEF ProcType, Place
  <2>. QED
      BY <1>0, <1>1, <1>3, <1>5, <1>12, <2>1 DEF Answered, At
<1>13. CASE Connect(p) \/ Disconnect(p) \/ Deadline(p)
  <2>0. [r EXCEPT !.at = "exchange"] \in ProcType /\ [r EXCEPT !.at = "exchange"].name = r.name
        /\ [r EXCEPT !.at = "exchange"].at = "exchange"
      BY <1>0 DEF ProcType, Place
  <2>1. \A s \in {[r EXCEPT !.held = TRUE], [r EXCEPT !.held = FALSE], [r EXCEPT !.late = TRUE]} :
           s \in ProcType /\ s.name = r.name /\ s.at = r.at
      BY <1>0 DEF ProcType
  <2>2. r.at = "listen"
      BY <1>13 DEF Connect, Disconnect, Deadline, At
  <2>. QED
      BY <1>0, <1>1, <1>3, <1>5, <1>13, <2>0, <2>1, <2>2 DEF Connect, Disconnect, Deadline
<1>14. CASE TimedOut(p) \/ Refused(p) \/ Crash(p)
    BY <1>0, <1>1, <1>14 DEF TimedOut, Refused, Crash
<1>15. CASE Exchange(p)
  <2>1. r.name \in Name /\ logins + 1 \in Nat
      BY <1>0, <1>5, <1>15 DEF Exchange, At, TypeOK
  <2>2. PICK renews \in BOOLEAN :
           vault' = [vault EXCEPT ![r.name] = [grant |-> logins + 1, fresh |-> TRUE, renews |-> renews]]
      BY <1>15 DEF Exchange
  <2>. DEFINE t == [grant |-> logins + 1, fresh |-> TRUE, renews |-> renews]
  <2>3. t \in Token /\ t.grant = logins + 1
      BY <2>1 DEF Token
  <2>4. proc' = [proc EXCEPT ![p] = Idle] /\ Idle.at = "idle"
      BY <1>15 DEF Exchange, Done, Go, Idle
  <2>. QED
      BY <1>15, <2>1, <2>2, <2>3, <2>4, IdleHolds, DecidedStep DEF Exchange
<1>16. CASE Request(p)
  <2>1. PICK n \in Name : vault[n] # None /\ Go(p, [r EXCEPT !.at = "renew", !.name = n, !.token = vault[n]])
      BY <1>16 DEF Request
  <2>. DEFINE s == [r EXCEPT !.at = "renew", !.name = n, !.token = vault[n]]
  <2>2. vault[n] \in Token /\ (n \notin raced => vault[n].grant = last[n])
      BY <1>0, <2>1 DEF TypeOK, TokenFollowsTheUser
  <2>3. s \in ProcType /\ s.at = "renew" /\ s.name = n /\ s.token = vault[n]
      BY <1>0, <2>2 DEF ProcType, Place
  <2>4. Holds(s, last, raced)
      BY <2>2, <2>3 DEF Holds
  <2>. QED
      BY <1>0, <1>16, <2>1, <2>3, <2>4, MoveStep DEF Request
<1>17. CASE Renew(p)
  <2>1. PICK renews \in BOOLEAN :
           vault' = [vault EXCEPT ![r.name] = [r.token EXCEPT !.fresh = TRUE, !.renews = renews]]
      BY <1>17 DEF Renew
  <2>. DEFINE t == [r.token EXCEPT !.fresh = TRUE, !.renews = renews]
  <2>2. r.name \in Name /\ r.token \in Token /\ (r.name \notin raced => r.token.grant = last[r.name])
      BY <1>0, <1>17 DEF Renew, At, Holds
  <2>3. t \in Token /\ t.grant = r.token.grant
      BY <2>2 DEF Token
  <2>. QED
      BY <1>17, <2>1, <2>2, <2>3, RenewedStep DEF Renew
<1>. QED
    BY <1>6, <1>7, <1>8, <1>9, <1>10, <1>11, <1>12, <1>13, <1>14, <1>15, <1>16, <1>17 DEF Step

LEMMA ExpireKeeps ==
    ASSUME TInv, NEW n \in Name, Expire(n)
    PROVE  TInv'
<1>. DEFINE t == [vault[n] EXCEPT !.fresh = FALSE]
<1>1. vault[n] \in Token /\ (n \notin raced => vault[n].grant = last[n])
    BY DEF Expire, TInv, TypeOK, TokenFollowsTheUser
<1>2. t \in Token /\ t.grant = vault[n].grant
    BY <1>1 DEF Token
<1>. QED
    BY <1>1, <1>2, RenewedStep DEF Expire

WindowStep(w) == Ask(w) \/ Answer(w) \/ Lose(w)

(* Windows keep the types, and nothing of theirs reaches the tokens.      *)
LEMMA WindowTypes ==
    ASSUME TypeOK, NEW w \in Window, WindowStep(w)
    PROVE  TypeOK' /\ UNCHANGED <<profiles, tokens, proc>>
<1>1. CASE Ask(w)
    BY <1>1 DEF Ask, Save, TypeOK, tokens
<1>2. CASE Answer(w)
    BY <1>2 DEF Answer, Save, TypeOK, tokens
<1>3. CASE Lose(w)
    BY <1>3 DEF Lose, TypeOK, tokens
<1>. QED
    BY <1>1, <1>2, <1>3 DEF WindowStep

LEMMA TokensInit == Init => TInv
<1>. SUFFICES ASSUME Init PROVE TInv
    OBVIOUS
<1>1. TypeOK
    BY IdleHolds DEF Init, TypeOK, ProcType, Profiles
<1>2. TokenFollowsTheUser
    BY DEF Init, TokenFollowsTheUser
<1>3. ProcsHold
    BY IdleHolds DEF Init, ProcsHold
<1>. QED
    BY <1>1, <1>2, <1>3 DEF TInv

LEMMA TokensNext == TInv /\ [Next]_vars => TInv'
<1>. SUFFICES ASSUME TInv, [Next]_vars PROVE TInv'
    OBVIOUS
<1>1. ASSUME UNCHANGED <<profiles, tokens, proc>>, TypeOK'
      PROVE  TInv'
  <2>1. TokenFollowsTheUser'
      BY <1>1 DEF TInv, TokenFollowsTheUser, tokens
  <2>2. ProcsHold'
      BY <1>1 DEF TInv, ProcsHold, tokens
  <2>. QED
      BY <1>1, <2>1, <2>2 DEF TInv
<1>2. ASSUME NEW w \in Window, WindowStep(w)
      PROVE  TInv'
    BY <1>1, <1>2, WindowTypes DEF TInv
<1>3. CASE UNCHANGED vars
  <2>1. TypeOK'
      BY <1>3 DEF TInv, TypeOK, vars, tokens, runtime
  <2>. QED
      BY <1>1, <1>3, <2>1 DEF vars
<1>. QED
    BY <1>2, <1>3, StepKeeps, ExpireKeeps DEF Next, WindowStep

LEMMA TokensAlways == Spec => []TInv
BY TokensInit, TokensNext, PTL DEF Spec

(* What is shown agrees with how it went in these cases only.             *)
Agree(h, l) ==
    \/ h = "unknown" /\ l = "none"
    \/ h = "running" /\ l \in {"running", "lost", "unread"}
    \/ h \in {"failed", "operational"} /\ l = h

LEMMA ShownAgrees ==
    TypeOK => (LastRequestIsShown <=> (clean /\ (Open => chosen) => Agree(health, latest)))
<1>. SUFFICES ASSUME TypeOK
              PROVE  LastRequestIsShown <=> (clean /\ (Open => chosen) => Agree(health, latest))
    OBVIOUS
<1>1. health \in {"unknown", "running", "operational", "failed"}
    BY DEF TypeOK
<1>2. latest \in {"none", "running", "operational", "failed", "unread", "lost"}
    BY DEF TypeOK
<1>3. /\ health = "unknown" => Shown = "CONFIGURED"
      /\ health = "running" => Shown = "INTERRUPTED"
      /\ health = "failed" => Shown = "LAST REQUEST FAILED"
      /\ health = "operational" => Shown = "OPERATIONAL"
    BY DEF Shown
<1>. QED
    BY <1>1, <1>2, <1>3 DEF LastRequestIsShown, Agree, Open

(* The record of Claude, step by step.                                    *)
LEMMA RecordInit == Init => RInv
<1>. SUFFICES ASSUME Init PROVE RInv
    OBVIOUS
<1>1. TypeOK
    BY TokensInit DEF TInv
<1>2. LastRequestIsShown
    BY <1>1, ShownAgrees DEF Init, Agree
<1>. QED
    BY <1>1, <1>2 DEF RInv, Init

LEMMA RecordNext == RInv /\ TypeOK' /\ [Next]_vars => RInv'
<1>. SUFFICES ASSUME RInv, TypeOK', [Next]_vars PROVE RInv'
    OBVIOUS
<1>0. /\ clean /\ (Open => chosen) => Agree(health, latest)
      /\ LastRequestIsShown' <=> (clean' /\ (Open' => chosen') => Agree(health', latest'))
  <2>1. (TypeOK => (LastRequestIsShown <=> (clean /\ (Open => chosen) => Agree(health, latest))))'
      BY ShownAgrees, PTL
  <2>. QED
      BY <2>1, ShownAgrees DEF RInv, Agree
<1>1. ASSUME UNCHANGED runtime
      PROVE  RInv'
    BY <1>0, <1>1 DEF RInv, Agree, Open, runtime
<1>2. ASSUME NEW w \in Window, Ask(w)
      PROVE  RInv'
  <2>1. latest' = "running" /\ (clean' /\ chosen' => health' = "running")
      BY <1>2 DEF Ask, Save
  <2>. QED
      BY <1>0, <2>1 DEF RInv, Agree, Open
<1>3. ASSUME NEW w \in Window, Answer(w)
      PROVE  RInv'
  <2>1. clean' => asking' = {}
      BY <1>3 DEF Answer, Save
  <2>2. CASE latest' = "unread" /\ UNCHANGED health /\ clean' = (clean /\ asking = {w})
    <3>1. clean' /\ chosen' => health' = "running"
        BY <1>3, <2>2 DEF Answer, RInv
    <3>2. LastRequestIsShown'
        BY <1>0, <2>2, <3>1 DEF Agree, Open
    <3>. QED
        BY <2>1, <3>2 DEF RInv
  <2>3. CASE \E outcome \in {"operational", "failed"} :
                latest' = outcome /\ Save(outcome, clean /\ asking = {w})
    <3>1. clean' => health' = latest' /\ health' \in {"operational", "failed"}
        BY <2>3 DEF Save
    <3>2. LastRequestIsShown'
        BY <1>0, <3>1 DEF Agree
    <3>. QED
        BY <2>1, <3>2 DEF RInv
  <2>. QED
      BY <1>3, <2>2, <2>3 DEF Answer
<1>4. ASSUME NEW w \in Window, Lose(w)
      PROVE  RInv'
  <2>1. clean' => asking' = {}
      BY <1>4 DEF Lose
  <2>2. clean' /\ chosen' => health' = "running" /\ latest' = "lost"
      BY <1>4 DEF Lose, RInv
  <2>3. LastRequestIsShown'
      BY <1>0, <1>4, <2>2 DEF Lose, Agree, Open
  <2>. QED
      BY <2>1, <2>3 DEF RInv
<1>5. ASSUME NEW p \in Proc, Step(p)
      PROVE  UNCHANGED runtime
    BY <1>5 DEF Step, Add, WriteList, Remove, Unlist, Logout, Login, Answered, Connect,
                Disconnect, Deadline, TimedOut, Exchange, Refused, Request, Renew, Crash
<1>6. ASSUME NEW n \in Name, Expire(n)
      PROVE  UNCHANGED runtime
    BY <1>6 DEF Expire
<1>7. CASE UNCHANGED vars
    BY <1>1, <1>7 DEF vars
<1>. QED
    BY <1>1, <1>2, <1>3, <1>4, <1>5, <1>6, <1>7 DEF Next

(* The state of Providers is well typed.                                  *)
THEOREM TypeCorrect == Spec => []TypeOK
<1>1. TInv => TypeOK
    BY DEF TInv
<1>. QED
    BY <1>1, TokensAlways, PTL

(* A token in the credential store is of the user's last login, and there *)
(* is none after a logout, but for a renewal under way at that moment     *)
(* (auth.py: oauth_login, oauth_logout, access_token).                    *)
THEOREM TokensFollow == Spec => []TokenFollowsTheUser
<1>1. TInv => TokenFollowsTheUser
    BY DEF TInv
<1>. QED
    BY <1>1, TokensAlways, PTL

(* What is shown of Claude is how the latest request went, but for two at *)
(* once, a record that could not be written and a request by name until   *)
(* its outcome is saved (health.py, qt_app.py).                           *)
THEOREM RecordIsShown == Spec => []LastRequestIsShown
<1>1. RInv => LastRequestIsShown
    BY DEF RInv
<1>. QED
    BY <1>1, RecordInit, RecordNext, TypeCorrect, PTL DEF Spec
=============================================================================
