---------------------------- MODULE LicenseProofs ----------------------------
(* What holds of License for every set of processes and installation ids, *)
(* every clock and every licence that may be issued.                      *)
EXTENDS License, TLAPS

ProcType == [pc : PCs, cmd : Cmds, id : DeviceIds \cup {NoId},
             token : Token \cup {NoToken}, held : Entitlement]

(* A signature is the issuer's: what carries one was issued.              *)
Known(t, tokens) == t \in Token /\ (t.signed => t \in tokens)

(* A token good enough for the vault, at the time `n`.                    *)
Good(t, tokens, n) == t \in tokens /\ t.from <= n /\ t.until <= t.term

(* What a process holds while it works on a token and with an id.         *)
WithId == {"write id", "replace id", "identified"}
Sound(r, tokens, n) ==
    /\ r.pc \in WithId => r.id \in DeviceIds
    /\ r.pc \in WithId \cup {"id"} /\ r.cmd \in {"load", "import"} => Known(r.token, tokens)
    /\ r.pc = "offered" => Known(r.token, tokens)
    /\ r.pc = "store" => Good(r.token, tokens, n) /\ r.token.device = r.id

ProcsSound == \A p \in Procs : Sound(proc[p], issued, now)

(* The inductive invariant: VaultIsTrusted alone is not one, for it says  *)
(* nothing of the token a process is about to store.                      *)
IInv == TypeOK /\ VaultIsTrusted /\ ProcsSound

(* A plan taken up in a step is one the issuer granted.                   *)
TakenUp(p, plan) ==
    plan \notin {proc[p].held, FREE_ENTITLEMENT} =>
        \E t \in issued :
            /\ Granted(t) = plan
            /\ t.device = proc[p].id
            /\ t.from <= now /\ t.until <= t.term

PlansTakenUp == \A p \in Procs : TakenUp(p, proc'[p].held)

(* What was true of a token stays true as tokens are issued and time      *)
(* passes.                                                                *)
LEMMA SoundStays ==
    ASSUME NEW r \in ProcType, NEW old, NEW new, old \subseteq new, new \subseteq Token,
           NEW m \in Int, NEW n \in Int, m <= n, Sound(r, old, m)
    PROVE  Sound(r, new, n)
<1>1. \A t : Known(t, old) => Known(t, new)
    BY DEF Known
<1>2. \A t : Good(t, old, m) => Good(t, new, n)
  <2>1. \A t \in Token : t.from \in Int
      BY DEF Token, Times
  <2>. QED
      BY <2>1 DEF Good
<1>. QED
    BY <1>1, <1>2 DEF Sound

(* The entitlements a process may end with are well typed.                *)
LEMMA Plans ==
    /\ FREE_ENTITLEMENT \in Entitlement
    /\ \A t \in Token : Granted(t) \in Entitlement
<1>1. 0 \in Times
    BY LicenseConstants DEF Times
<1>. QED
    BY <1>1 DEF FREE_ENTITLEMENT, Entitlement, Token, Granted

(* Between commands a process holds no id and no token to be careful of.  *)
LEMMA AtRest ==
    ASSUME TypeOK, NEW p \in Procs, NEW plan \in Entitlement
    PROVE  /\ Idle \in ProcType /\ Idle.held = FREE_ENTITLEMENT /\ Sound(Idle, issued, now)
           /\ Ready(p) \in ProcType /\ Ready(p).held = proc[p].held
           /\ Sound(Ready(p), issued, now)
           /\ [Ready(p) EXCEPT !.held = plan] \in ProcType
           /\ [Ready(p) EXCEPT !.held = plan].held = plan
           /\ Sound([Ready(p) EXCEPT !.held = plan], issued, now)
           /\ Rested(p, plan) \in ProcType
           /\ Rested(p, plan).held \in {plan, FREE_ENTITLEMENT}
           /\ Sound(Rested(p, plan), issued, now)
<1>1. proc[p] \in ProcType
    BY DEF TypeOK, ProcType
<1>2. Idle \in ProcType /\ Idle.held = FREE_ENTITLEMENT /\ Idle.pc = "off"
    BY Plans DEF Idle, ProcType, PCs, Cmds
<1>3. Ready(p) \in ProcType /\ Ready(p).held = proc[p].held /\ Ready(p).pc = "ready"
    BY <1>1 DEF Ready, ProcType, PCs, Cmds
<1>4. /\ [Ready(p) EXCEPT !.held = plan] \in ProcType
      /\ [Ready(p) EXCEPT !.held = plan].held = plan
      /\ [Ready(p) EXCEPT !.held = plan].pc = "ready"
    BY <1>3 DEF ProcType
<1>5. \A r : r.pc \in {"off", "ready"} => Sound(r, issued, now)
    BY DEF Sound, WithId
<1>6. /\ Sound(Idle, issued, now) /\ Sound(Ready(p), issued, now)
      /\ Sound([Ready(p) EXCEPT !.held = plan], issued, now)
  <2>1. Sound(Idle, issued, now)
      BY <1>2, <1>5
  <2>2. Sound(Ready(p), issued, now)
      BY <1>3, <1>5
  <2>3. Sound([Ready(p) EXCEPT !.held = plan], issued, now)
      BY <1>4 DEF Sound, WithId
  <2>. QED
      BY <2>1, <2>2, <2>3
<1>7. Rested(p, plan) \in {Idle, [Ready(p) EXCEPT !.held = plan]}
    BY DEF Rested
<1>8. /\ Rested(p, plan) \in ProcType
      /\ Rested(p, plan).held \in {plan, FREE_ENTITLEMENT}
      /\ Sound(Rested(p, plan), issued, now)
    BY <1>2, <1>4, <1>6, <1>7
<1>. QED
    BY <1>2, <1>3, <1>4, <1>6, <1>8

(* A step of one process, to a sound record with a plan it may take up.   *)
LEMMA MoveStep ==
    ASSUME IInv, NEW p \in Procs, NEW r \in ProcType, Move(p, r),
           Sound(r, issued, now), TakenUp(p, r.held),
           UNCHANGED <<now, issued>>
    PROVE  /\ proc' \in [Procs -> ProcType]
           /\ ProcsSound'
           /\ PlansTakenUp
<1>1. proc \in [Procs -> ProcType]
    BY DEF IInv, TypeOK, ProcType
<1>2. proc' = [proc EXCEPT ![p] = r]
    BY DEF Move
<1>3. proc'[p] = r /\ \A q \in Procs \ {p} : proc'[q] = proc[q]
    BY <1>1, <1>2
<1>4. proc' \in [Procs -> ProcType]
    BY <1>1, <1>2
<1>5. ProcsSound'
    BY <1>3 DEF IInv, ProcsSound
<1>6. \A q \in Procs : TakenUp(q, proc[q].held)
    BY DEF TakenUp
<1>7. PlansTakenUp
    BY <1>3, <1>6 DEF PlansTakenUp
<1>. QED
    BY <1>4, <1>5, <1>7

(* What every step of a process has to be shown to do.                    *)
Kept == IInv' /\ PlansTakenUp

(* A step of one process that leaves the vault and the outside alone.     *)
LEMMA LocalStep ==
    ASSUME IInv, NEW p \in Procs, NEW r \in ProcType, Move(p, r),
           Sound(r, issued, now), TakenUp(p, r.held),
           UNCHANGED <<now, issued, vault>>,
           told' \subseteq DeviceIds, drawn' \subseteq DeviceIds,
           idFile' \in DeviceIds \cup {NoId}, idTemp' \in DeviceIds \cup {NoId}
    PROVE  Kept
<1>1. proc' \in [Procs -> ProcType] /\ ProcsSound' /\ PlansTakenUp
    BY MoveStep
<1>2. TypeOK'
    BY <1>1 DEF IInv, TypeOK, ProcType
<1>3. VaultIsTrusted'
    BY DEF IInv, VaultIsTrusted
<1>. QED
    BY <1>1, <1>2, <1>3 DEF Kept, IInv

(* A process that ends a command with the plan it held, or with none.     *)
LEMMA EndStep ==
    ASSUME IInv, NEW p \in Procs,
           Fail(p) \/ Move(p, Ready(p)) \/ Move(p, Idle) \/ Finish(p, FREE_ENTITLEMENT),
           UNCHANGED <<now, issued>>
    PROVE  \E r \in ProcType : Move(p, r) /\ Sound(r, issued, now) /\ TakenUp(p, r.held)
<1>1. proc[p].held \in Entitlement
    BY DEF IInv, TypeOK
<1>2. TypeOK
    BY DEF IInv
<1>3. \A plan \in {proc[p].held, FREE_ENTITLEMENT} : TakenUp(p, plan)
    BY DEF TakenUp
<1>4. CASE Fail(p)
  <2>. DEFINE r == Rested(p, proc[p].held)
  <2>1. r \in ProcType /\ r.held \in {proc[p].held, FREE_ENTITLEMENT} /\ Sound(r, issued, now)
      BY <1>1, <1>2, AtRest
  <2>. QED
      BY <1>3, <1>4, <2>1 DEF Fail, Finish
<1>5. CASE Move(p, Ready(p))
    BY <1>1, <1>2, <1>3, <1>5, AtRest
<1>6. CASE Move(p, Idle)
    BY <1>1, <1>2, <1>3, <1>6, AtRest
<1>7. CASE Finish(p, FREE_ENTITLEMENT)
  <2>. DEFINE r == Rested(p, FREE_ENTITLEMENT)
  <2>1. r \in ProcType /\ r.held = FREE_ENTITLEMENT /\ Sound(r, issued, now)
      BY <1>2, AtRest, Plans
  <2>. QED
      BY <1>3, <1>7, <2>1 DEF Finish
<1>. QED
    BY <1>4, <1>5, <1>6, <1>7

(* The steps of a command.                                                *)
LEMMA StepKeeps ==
    ASSUME IInv, NEW p \in Procs, Step(p)
    PROVE  Kept
<1>. DEFINE r == proc[p]
<1>0. /\ r \in ProcType /\ r.held \in Entitlement /\ Sound(r, issued, now)
      /\ TypeOK /\ VaultIsTrusted
    BY DEF IInv, TypeOK, ProcType, ProcsSound
<1>1. /\ told \subseteq DeviceIds /\ drawn \subseteq DeviceIds /\ issued \subseteq Token
      /\ idFile \in DeviceIds \cup {NoId} /\ idTemp \in DeviceIds \cup {NoId}
      /\ vault \in Token \cup {NoToken} /\ now \in Int
    BY <1>0 DEF TypeOK
<1>2. TakenUp(p, r.held)
    BY DEF TakenUp
<1>3. CASE LoadVault(p)
  <2>1. CASE vault # NoToken /\ Move(p, [r EXCEPT !.pc = "id", !.token = vault])
    <3>. DEFINE s == [r EXCEPT !.pc = "id", !.token = vault]
    <3>1. Known(vault, issued)
        BY <2>1, <1>0, <1>1 DEF VaultIsTrusted, Known
    <3>2. /\ s \in ProcType /\ s.held = r.held /\ s.pc = "id" /\ s.token = vault
        BY <1>0, <1>1 DEF ProcType, PCs
    <3>3. Sound(s, issued, now)
        BY <3>1, <3>2 DEF Sound, WithId
    <3>. QED
        BY <1>3, <2>1, <3>2, <3>3, <1>1, <1>2, LocalStep DEF LoadVault, files
  <2>2. CASE Move(p, Ready(p))
      BY <1>3, <2>2, <1>1, EndStep, LocalStep DEF LoadVault, files
  <2>. QED
      BY <1>3, <2>1, <2>2 DEF LoadVault
<1>4. CASE ReadId(p)
  <2>1. ASSUME NEW d \in DeviceIds, NEW pc \in {"identified", "write id"},
               Move(p, [r EXCEPT !.pc = pc, !.id = d])
        PROVE  Kept
    <3>. DEFINE s == [r EXCEPT !.pc = pc, !.id = d]
    <3>1. /\ s \in ProcType /\ s.held = r.held /\ s.pc = pc /\ s.id = d
          /\ s.token = r.token /\ s.cmd = r.cmd
        BY <1>0 DEF ProcType, PCs
    <3>2. r.pc = "id"
        BY <1>4 DEF ReadId, At
    <3>3. Sound(s, issued, now)
        BY <1>0, <3>1, <3>2 DEF Sound, WithId
    <3>4. drawn' \subseteq DeviceIds
        BY <1>1, <1>4 DEF ReadId
    <3>. QED
        BY <1>4, <2>1, <3>1, <3>3, <3>4, <1>1, <1>2, LocalStep DEF ReadId
  <2>. QED
      BY <1>1, <1>4, <2>1 DEF ReadId
<1>5. CASE WriteId(p)
  <2>. DEFINE s == [r EXCEPT !.pc = "replace id"]
  <2>1. /\ s \in ProcType /\ s.held = r.held /\ s.pc = "replace id" /\ s.id = r.id
        /\ s.token = r.token /\ s.cmd = r.cmd
      BY <1>0 DEF ProcType, PCs
  <2>2. r.pc = "write id" /\ r.id \in DeviceIds
      BY <1>0, <1>5 DEF WriteId, At, Sound, WithId
  <2>3. Sound(s, issued, now)
      BY <1>0, <2>1, <2>2 DEF Sound, WithId
  <2>. QED
      BY <1>5, <2>1, <2>2, <2>3, <1>1, <1>2, LocalStep DEF WriteId
<1>6. CASE ReplaceId(p)
  <2>. DEFINE s == [r EXCEPT !.pc = "identified"]
  <2>1. /\ s \in ProcType /\ s.held = r.held /\ s.pc = "identified" /\ s.id = r.id
        /\ s.token = r.token /\ s.cmd = r.cmd
      BY <1>0 DEF ProcType, PCs
  <2>2. r.pc = "replace id"
      BY <1>6 DEF ReplaceId, At
  <2>3. Sound(s, issued, now)
      BY <1>0, <2>1, <2>2 DEF Sound, WithId
  <2>. QED
      BY <1>6, <2>1, <2>3, <1>1, <1>2, LocalStep DEF ReplaceId
<1>7. CASE LoseId(p)
    BY <1>7, <1>1, EndStep, LocalStep DEF LoseId, files
<1>8. CASE LoadVerify(p)
  <2>. DEFINE plan == IF Verified(r.token, r.id) THEN Granted(r.token) ELSE FREE_ENTITLEMENT
              s == [Ready(p) EXCEPT !.held = plan]
  <2>1. Known(r.token, issued)
      BY <1>0, <1>8 DEF LoadVerify, At, Sound, WithId
  <2>2. plan \in Entitlement
      BY <2>1, Plans DEF Known
  <2>3. s \in ProcType /\ s.held = plan /\ Sound(s, issued, now)
      BY <1>0, <2>2, AtRest
  <2>4. TakenUp(p, plan)
      BY <2>1 DEF TakenUp, Known, Verified
  <2>. QED
      BY <1>8, <2>3, <2>4, <1>1, LocalStep DEF LoadVerify, files
<1>9. CASE ShowId(p)
  <2>1. r.id \in DeviceIds
      BY <1>0, <1>9 DEF ShowId, At, Sound, WithId
  <2>. QED
      BY <1>9, <2>1, <1>1, EndStep, LocalStep DEF ShowId, files
<1>10. CASE Request(p)
  <2>. DEFINE s == [r EXCEPT !.pc = "asked"]
  <2>1. s \in ProcType /\ s.held = r.held /\ s.pc = "asked"
      BY <1>0 DEF ProcType, PCs
  <2>2. Sound(s, issued, now)
      BY <2>1 DEF Sound, WithId
  <2>. QED
      BY <1>10, <2>1, <2>2, <1>1, <1>2, EndStep, LocalStep DEF Request, files
<1>11. CASE Answer(p)
  <2>1. ASSUME NEW t \in issued, Move(p, [r EXCEPT !.pc = "offered", !.token = t])
        PROVE  Kept
    <3>. DEFINE s == [r EXCEPT !.pc = "offered", !.token = t]
    <3>1. s \in ProcType /\ s.held = r.held /\ s.pc = "offered" /\ s.token = t
        BY <1>0, <1>1 DEF ProcType, PCs
    <3>2. Sound(s, issued, now)
        BY <1>1, <3>1 DEF Sound, WithId, Known
    <3>. QED
        BY <1>11, <2>1, <3>1, <3>2, <1>1, <1>2, LocalStep DEF Answer, files
  <2>. QED
      BY <1>11, <2>1, <1>1, EndStep, LocalStep DEF Answer, files
<1>12. CASE Verify(p)
  <2>1. CASE Verified(r.token, r.id)
    <3>. DEFINE s == [r EXCEPT !.pc = "store"]
    <3>1. /\ s \in ProcType /\ s.held = r.held /\ s.pc = "store" /\ s.token = r.token
          /\ s.id = r.id
        BY <1>0 DEF ProcType, PCs
    <3>2. Known(r.token, issued)
        BY <1>0, <1>12 DEF Verify, At, Sound, WithId
    <3>3. Sound(s, issued, now)
        BY <2>1, <3>1, <3>2 DEF Sound, WithId, Known, Good, Verified
    <3>. QED
        BY <1>12, <2>1, <3>1, <3>3, <1>1, <1>2, LocalStep DEF Verify, files
  <2>2. CASE ~ Verified(r.token, r.id)
      BY <1>12, <2>2, <1>1, EndStep, LocalStep DEF Verify, files
  <2>. QED
      BY <2>1, <2>2
<1>13. CASE Store(p)
  <2>1. /\ Good(r.token, issued, now) /\ r.token.device = r.id /\ r.token \in Token
      BY <1>0, <1>1, <1>13 DEF Store, At, Sound, Good
  <2>2. CASE vault' = r.token /\ Finish(p, Granted(r.token))
    <3>. DEFINE plan == Granted(r.token)
                s == Rested(p, plan)
    <3>1. plan \in Entitlement
        BY <2>1, Plans
    <3>2. s \in ProcType /\ s.held \in {plan, FREE_ENTITLEMENT} /\ Sound(s, issued, now)
        BY <1>0, <3>1, AtRest
    <3>3. TakenUp(p, s.held)
        BY <2>1, <3>2 DEF TakenUp, Good
    <3>4. Move(p, s)
        BY <2>2 DEF Finish
    <3>5. proc' \in [Procs -> ProcType] /\ ProcsSound' /\ PlansTakenUp
        BY <1>13, <3>2, <3>3, <3>4, MoveStep DEF Store
    <3>6. VaultIsTrusted'
        BY <1>13, <2>1, <2>2 DEF Store, VaultIsTrusted, Good
    <3>7. TypeOK'
        BY <1>0, <1>13, <2>1, <2>2, <3>5 DEF Store, TypeOK, ProcType, files
    <3>. QED
        BY <3>5, <3>6, <3>7 DEF Kept, IInv
  <2>3. CASE Fail(p) /\ UNCHANGED vault
      BY <1>13, <2>3, <1>1, EndStep, LocalStep DEF Store, files
  <2>. QED
      BY <1>13, <2>2, <2>3 DEF Store
<1>. QED
    BY <1>3, <1>4, <1>5, <1>6, <1>7, <1>8, <1>9, <1>10, <1>11, <1>12, <1>13 DEF Step

(* What a user or the command line begins.                                *)
LEMMA AskKeeps ==
    ASSUME IInv, NEW p \in Procs, Ask(p)
    PROVE  Kept
<1>. DEFINE r == proc[p]
<1>0. /\ r \in ProcType /\ r.held \in Entitlement /\ TypeOK
    BY DEF IInv, TypeOK, ProcType
<1>1. /\ told \subseteq DeviceIds /\ drawn \subseteq DeviceIds /\ issued \subseteq Token
      /\ idFile \in DeviceIds \cup {NoId} /\ idTemp \in DeviceIds \cup {NoId}
    BY <1>0 DEF TypeOK
<1>2. TakenUp(p, r.held) /\ TakenUp(p, FREE_ENTITLEMENT)
    BY DEF TakenUp
<1>3. CASE Start(p)
  <2>. DEFINE s == [Idle EXCEPT !.pc = "load", !.cmd = "load"]
  <2>1. s \in ProcType /\ s.held = FREE_ENTITLEMENT /\ s.pc = "load"
      BY <1>0, Plans DEF Idle, ProcType, PCs, Cmds
  <2>2. Sound(s, issued, now)
      BY <2>1 DEF Sound, WithId
  <2>. QED
      BY <1>3, <2>1, <2>2, <1>1, <1>2, LocalStep DEF Start, files
<1>4. ASSUME NEW cmd \in {"import", "device", "activate", "refresh"},
             NEW t \in Token \cup {NoToken}, cmd = "import" => Known(t, issued),
             Begin(p, cmd, "id", t), UNCHANGED <<now, issued, told, vault, files>>
      PROVE  Kept
  <2>. DEFINE s == [r EXCEPT !.pc = "id", !.cmd = cmd, !.token = t]
  <2>1. s \in ProcType /\ s.held = r.held /\ s.pc = "id" /\ s.cmd = cmd /\ s.token = t
      BY <1>0 DEF ProcType, PCs, Cmds
  <2>2. Sound(s, issued, now)
      BY <1>4, <2>1 DEF Sound, WithId
  <2>. QED
      BY <1>4, <2>1, <2>2, <1>1, <1>2, LocalStep DEF Begin, files
<1>5. CASE Import(p)
  <2>1. \A t \in Offered : Known(t, issued)
    <3>1. \A t \in issued : [t EXCEPT !.signed = FALSE, !.tier = "premium"] \in Token
        BY <1>1 DEF Token, Paid
    <3>2. \A t \in issued : ~ [t EXCEPT !.signed = FALSE, !.tier = "premium"].signed
        BY <1>1 DEF Token
    <3>. QED
        BY <1>1, <3>1, <3>2 DEF Offered, Known
  <2>. QED
      BY <1>4, <1>5, <2>1 DEF Import, Known
<1>6. CASE Device(p)
    BY <1>4, <1>6 DEF Device
<1>7. CASE Online(p)
    BY <1>4, <1>7 DEF Online
<1>8. CASE Deactivate(p)
  <2>1. CASE vault' = NoToken /\ Finish(p, FREE_ENTITLEMENT)
    <3>1. proc' \in [Procs -> ProcType] /\ ProcsSound' /\ PlansTakenUp
        BY <1>8, <2>1, EndStep, MoveStep DEF Deactivate
    <3>2. VaultIsTrusted'
        BY <2>1 DEF VaultIsTrusted
    <3>3. TypeOK'
        BY <1>0, <1>8, <2>1, <3>1 DEF Deactivate, TypeOK, ProcType, files
    <3>. QED
        BY <3>1, <3>2, <3>3 DEF Kept, IInv
  <2>2. CASE Fail(p) /\ UNCHANGED vault
      BY <1>8, <2>2, <1>1, EndStep, LocalStep DEF Deactivate, files
  <2>. QED
      BY <1>8, <2>1, <2>2 DEF Deactivate
<1>9. CASE Leave(p)
    BY <1>9, <1>1, EndStep, LocalStep DEF Leave, files
<1>. QED
    BY <1>3, <1>5, <1>6, <1>7, <1>8, <1>9 DEF Ask

(* Time passes and licences are issued: nothing a process holds changes,  *)
(* and what was good stays good.                                          *)
LEMMA OutsideKeeps ==
    ASSUME IInv, Tick \/ Issue
    PROVE  Kept
<1>1. TypeOK /\ VaultIsTrusted /\ ProcsSound
    BY DEF IInv
<1>2. issued \subseteq issued' /\ issued' \subseteq Token /\ now' \in 0 .. MaxTime /\ now <= now'
  <2>1. CASE Tick
      BY <1>1, <2>1, LicenseConstants DEF Tick, TypeOK
  <2>2. CASE Issue
    <3>1. ASSUME NEW d \in told, NEW tier \in Paid, NEW k \in Terms
          PROVE  [signed |-> TRUE, device |-> d, tier |-> tier, from |-> now + k.delay,
                  until |-> now + k.delay + k.window, term |-> now + k.delay + k.term] \in Token
      <4>1. k.delay \in 0 .. 1 /\ k.window \in 0 .. MaxTime /\ k.term \in 0 .. MaxTime
          BY LicenseConstants
      <4>2. now \in 0 .. MaxTime /\ d \in DeviceIds
          BY <1>1 DEF TypeOK
      <4>3. {now + k.delay, now + k.delay + k.window, now + k.delay + k.term} \subseteq Times
          BY <4>1, <4>2, LicenseConstants DEF Times
      <4>. QED
          BY <4>2, <4>3 DEF Token
    <3>. QED
        BY <1>1, <2>2, <3>1, LicenseConstants DEF Issue, TypeOK
  <2>. QED
      BY <2>1, <2>2
<1>3. UNCHANGED <<told, vault, idFile, idTemp, drawn, proc>>
    BY DEF Tick, Issue, files
<1>4. TypeOK'
    BY <1>1, <1>2, <1>3 DEF TypeOK
<1>5. VaultIsTrusted'
  <2>1. vault # NoToken => vault \in Token /\ vault.from \in Int
      BY <1>1 DEF TypeOK, Token, Times
  <2>. QED
      BY <1>1, <1>2, <1>3, <2>1 DEF VaultIsTrusted, TypeOK
<1>6. ProcsSound'
  <2>1. \A p \in Procs : proc[p] \in ProcType /\ Sound(proc[p], issued, now)
      BY <1>1 DEF TypeOK, ProcType, ProcsSound
  <2>2. now \in Int /\ now' \in Int
      BY <1>1, <1>2 DEF TypeOK
  <2>3. \A p \in Procs : Sound(proc[p], issued', now')
      BY <1>2, <2>1, <2>2, SoundStays
  <2>. QED
      BY <1>3, <2>3 DEF ProcsSound
<1>7. PlansTakenUp
    BY <1>3 DEF PlansTakenUp, TakenUp
<1>. QED
    BY <1>4, <1>5, <1>6, <1>7 DEF Kept, IInv

LEMMA InitIsSound == Init => IInv
<1>. SUFFICES ASSUME Init PROVE IInv
    OBVIOUS
<1>1. Idle \in ProcType /\ Idle.pc = "off"
    BY Plans DEF Idle, ProcType, PCs, Cmds
<1>2. TypeOK
    BY <1>1, LicenseConstants DEF Init, TypeOK, ProcType
<1>3. VaultIsTrusted
    BY DEF Init, VaultIsTrusted
<1>4. ProcsSound
    BY <1>1 DEF Init, ProcsSound, Sound, WithId
<1>. QED
    BY <1>2, <1>3, <1>4 DEF IInv

LEMMA NextKeeps == IInv /\ [Next]_vars => Kept
<1>. SUFFICES ASSUME IInv, [Next]_vars PROVE Kept
    OBVIOUS
<1>1. CASE Next
    BY <1>1, StepKeeps, AskKeeps, OutsideKeeps DEF Next
<1>2. CASE UNCHANGED vars
  <2>1. TypeOK'
      BY <1>2 DEF IInv, TypeOK, vars, files
  <2>2. VaultIsTrusted'
      BY <1>2 DEF IInv, VaultIsTrusted, vars
  <2>3. ProcsSound'
      BY <1>2 DEF IInv, ProcsSound, vars
  <2>4. PlansTakenUp
      BY <1>2 DEF PlansTakenUp, TakenUp, vars
  <2>. QED
      BY <2>1, <2>2, <2>3, <2>4 DEF Kept, IInv
<1>. QED
    BY <1>1, <1>2

LEMMA AlwaysSound == Spec => []IInv
<1>1. IInv /\ [Next]_vars => IInv'
    BY NextKeeps DEF Kept
<1>. QED
    BY <1>1, InitIsSound, PTL DEF Spec

(* The state of License is well typed (licensing.py, all of it).          *)
THEOREM TypeCorrect == Spec => []TypeOK
<1>1. IInv => TypeOK
    BY DEF IInv
<1>. QED
    BY <1>1, AlwaysSound, PTL

(* Whatever processes do to vault and id, the vault holds a token the     *)
(* issuer signed, begun and with an orderly window, or none               *)
(* (verify_license_token before every CredentialVault.set).               *)
THEOREM TrustedVault == Spec => []VaultIsTrusted
<1>1. IInv => VaultIsTrusted
    BY DEF IInv
<1>. QED
    BY <1>1, AlwaysSound, PTL

(* No process ever takes up a paid plan that the issuer did not sign for  *)
(* the installation id the process has read (load_cached_entitlement,     *)
(* import_license_file, activate_license, refresh_license).               *)
THEOREM PlansAreGranted == Spec => HeldIsGranted
<1>. DEFINE Step1 ==
       \A p \in Procs :
          LET plan == proc'[p].held
          IN  plan \notin {proc[p].held, FREE_ENTITLEMENT} =>
                \E t \in issued :
                    /\ Granted(t) = plan
                    /\ t.device = proc[p].id
                    /\ t.from <= now /\ t.until <= t.term
<1>1. IInv /\ [Next]_vars => [Step1]_vars
    BY NextKeeps DEF Kept, PlansTakenUp, TakenUp
<1>2. Spec => [][Step1]_vars
    BY <1>1, AlwaysSound, PTL DEF Spec
<1>. QED
    BY <1>2 DEF HeldIsGranted

-----------------------------------------------------------------------------
(* No process is about to write another id than the one in the file.      *)
Creating == {"write id", "replace id"}
Settled(d) == idFile = d /\ \A p \in Procs : proc[p].pc \notin Creating

(* How a command ends.                                                    *)
LEMMA RestedPc ==
    ASSUME TypeOK, NEW p \in Procs, NEW held
    PROVE  Ready(p).pc = "ready" /\ Rested(p, held).pc \in {"ready", "off"}
BY DEF TypeOK, Ready, Rested, Idle

(* One process moves on and creates no id.                                *)
LEMMA MoveSettled ==
    ASSUME TypeOK, NEW d, Settled(d), NEW p \in Procs, NEW r, Move(p, r),
           r.pc \notin Creating, idFile' = idFile
    PROVE  Settled(d)'
BY DEF TypeOK, Settled, Move

LEMMA FailSettled ==
    ASSUME TypeOK, NEW d, Settled(d), NEW p \in Procs, NEW held, Finish(p, held), idFile' = idFile
    PROVE  Settled(d)'
<1>1. Rested(p, held).pc \notin Creating
    BY RestedPc DEF Creating
<1>. QED
    BY <1>1, MoveSettled DEF Finish

LEMMA StepSettled ==
    ASSUME TypeOK, NEW d \in DeviceIds, Settled(d), NEW p \in Procs, Step(p) \/ Ask(p)
    PROVE  Settled(d)'
<1>0. /\ idFile # NoId /\ proc[p].pc \notin Creating
      /\ proc[p] \in ProcType
    BY LicenseConstants DEF Settled, TypeOK, ProcType
<1>1. CASE WriteId(p) \/ ReplaceId(p) \/ LoseId(p)
    BY <1>0, <1>1 DEF WriteId, ReplaceId, LoseId, At, Creating
<1>2. ASSUME Move(p, [proc[p] EXCEPT !.pc = "identified", !.id = idFile]), idFile' = idFile
      PROVE  Settled(d)'
  <2>. DEFINE r == [proc[p] EXCEPT !.pc = "identified", !.id = idFile]
  <2>1. r.pc \notin Creating
      BY <1>0 DEF ProcType, Creating
  <2>. QED
      BY <1>2, <2>1, MoveSettled
<1>3. CASE ReadId(p)
    BY <1>0, <1>2, <1>3 DEF ReadId
<1>4. ASSUME NEW pc \in PCs \ Creating, idFile' = idFile,
             \/ Move(p, [proc[p] EXCEPT !.pc = pc])
             \/ \E t : Move(p, [proc[p] EXCEPT !.pc = pc, !.token = t])
             \/ \E cmd, t : Move(p, [proc[p] EXCEPT !.pc = pc, !.cmd = cmd, !.token = t])
      PROVE  Settled(d)'
  <2>1. [proc[p] EXCEPT !.pc = pc].pc = pc
      BY <1>0 DEF ProcType
  <2>2. \A t : [proc[p] EXCEPT !.pc = pc, !.token = t].pc = pc
      BY <1>0 DEF ProcType
  <2>3. \A cmd, t : [proc[p] EXCEPT !.pc = pc, !.cmd = cmd, !.token = t].pc = pc
      BY <1>0 DEF ProcType
  <2>. QED
      BY <1>4, <2>1, <2>2, <2>3, MoveSettled
<1>5. /\ "id" \in PCs \ Creating /\ "asked" \in PCs \ Creating
      /\ "offered" \in PCs \ Creating /\ "store" \in PCs \ Creating
    BY DEF PCs, Creating
<1>6. CASE LoadVault(p)
    BY <1>4, <1>5, <1>6, RestedPc, MoveSettled DEF LoadVault, files, Creating
<1>7. CASE LoadVerify(p)
  <2>. DEFINE r == [Ready(p) EXCEPT !.held =
                       IF Verified(proc[p].token, proc[p].id) THEN Granted(proc[p].token)
                       ELSE FREE_ENTITLEMENT]
  <2>1. r.pc = "ready"
      BY <1>0 DEF ProcType, Ready
  <2>2. Move(p, r) /\ idFile' = idFile
      BY <1>7 DEF LoadVerify, files
  <2>. HIDE DEF r
  <2>. QED
      BY <2>1, <2>2, MoveSettled DEF Creating
<1>8. CASE ShowId(p) \/ Deactivate(p)
    BY <1>8, FailSettled DEF ShowId, Deactivate, Fail, files
<1>9. CASE Request(p)
    BY <1>4, <1>5, <1>9, FailSettled DEF Request, Fail, files
<1>10. CASE Answer(p)
    BY <1>4, <1>5, <1>10, FailSettled DEF Answer, Fail, files
<1>11. CASE Verify(p)
    BY <1>4, <1>5, <1>11, FailSettled DEF Verify, Fail, files
<1>12. CASE Store(p)
    BY <1>12, FailSettled DEF Store, Fail, files
<1>13. CASE Import(p) \/ Device(p) \/ Online(p)
    BY <1>4, <1>5, <1>13 DEF Import, Device, Online, Begin, files
<1>14. CASE Start(p) \/ Leave(p)
  <2>1. Idle.pc = "off" /\ [Idle EXCEPT !.pc = "load", !.cmd = "load"].pc = "load"
      BY DEF Idle
  <2>. QED
      BY <1>14, <2>1, MoveSettled DEF Start, Leave, files, Creating
<1>. QED
    BY <1>1, <1>3, <1>6, <1>7, <1>8, <1>9, <1>10, <1>11, <1>12, <1>13, <1>14 DEF Step, Ask

LEMMA SettledStays ==
    ASSUME TypeOK, NEW d \in DeviceIds, Settled(d), [Next]_vars
    PROVE  Settled(d)'
<1>1. CASE UNCHANGED <<idFile, proc>>
    BY <1>1 DEF Settled
<1>. QED
    BY <1>1, StepSettled DEF Next, Tick, Issue, vars, files

(* Once nobody creates an id, the one that is stored stays, whatever first *)
(* starts ran beside each other (installation_id): a settled id is settled *)
(* for ever, for only a start that finds none creates one.                *)
THEOREM StoredIdStays == Spec => IdStays
<1>1. ASSUME NEW d \in DeviceIds
      PROVE  Spec => [](/\ idFile = d
                        /\ \A p \in Procs : ~ At(p, "write id") /\ ~ At(p, "replace id")
                        => [](idFile = d))
  <2>1. TypeOK /\ Settled(d) /\ [Next]_vars => Settled(d)'
      BY SettledStays
  <2>2. Settled(d) => idFile = d
      BY DEF Settled
  <2>3. (idFile = d /\ \A p \in Procs : ~ At(p, "write id") /\ ~ At(p, "replace id")) => Settled(d)
      BY DEF Settled, Creating, At
  <2>. QED
      BY <2>1, <2>2, <2>3, TypeCorrect, PTL DEF Spec
<1>. QED
    BY <1>1 DEF IdStays
=============================================================================
