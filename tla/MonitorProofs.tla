------------------------- MODULE MonitorProofs -------------------------
(***************************************************************************)
(* Proofs about Monitor, for all drops, versions, destinations, limits and *)
(* ways to start: advice is on the reports beside it (AdviceIsOnItsReports)*)
(* and each citation names something selected (AdviceCitesEvidence).  MInv *)
(* adds what a pass has established by the time it asks for advice.        *)
(***************************************************************************)
EXTENDS Monitor, WellFoundedInduction, SequenceTheorems, TLAPS

-----------------------------------------------------------------------------
(* Numbers and sequences *)

\* A set of numbers has a least one (the first of the drops in order, the
\* first place of a list where a claim fails).
LEMMA LeastNumber ==
    ASSUME NEW S \in SUBSET Nat, S # {}
    PROVE  \E m \in S : \A k \in S : m <= k
<1>1. PICK m \in S : \A k \in S : <<k, m>> \notin OpToRel(<, Nat)
    BY WFMin, NatLessThanWellFounded, Zenon
<1>2. \A k \in S : ~(k < m)
    BY <1>1, Zenon DEF OpToRel
<1> QED BY <1>2

\* The drop a pass takes is one of those the poll found quiet.
LEMMA MinIsThere ==
    ASSUME NEW S \in SUBSET Nat, S # {}
    PROVE  Min(S) \in S
BY LeastNumber DEF Min

\* A part of a list is a list of some of its things.
LEMMA FirstIsPart ==
    ASSUME NEW X, NEW s \in Seq(X), NEW n \in Nat
    PROVE  First(s, n) \in Seq(X) /\ ToSet(First(s, n)) \subseteq ToSet(s) /\ Len(First(s, n)) <= Len(s)
           /\ \A i \in 1 .. Len(First(s, n)) : First(s, n)[i] = s[i]
<1> DEFINE k == IF Len(s) <= n THEN Len(s) ELSE n
<1>1. k \in Nat /\ k <= Len(s) /\ Len(s) \in Nat
    OBVIOUS
<1>2. First(s, n) = SubSeq(s, 1, k)
    BY DEF First
<1>3. /\ SubSeq(s, 1, k) \in Seq(X) /\ Len(SubSeq(s, 1, k)) = k
      /\ \A i \in 1 .. k : SubSeq(s, 1, k)[i] = s[i]
    <2> HIDE DEF k
    <2> QED BY <1>1
<1> HIDE DEF k
<1>4. DOMAIN SubSeq(s, 1, k) = 1 .. k /\ DOMAIN s = 1 .. Len(s)
    BY <1>3
<1> QED BY <1>1, <1>2, <1>3, <1>4 DEF ToSet

\* f joins the first lists of s, one after another
IsJoin(f, s, m) == f = [i \in 1 .. m |-> IF i = 1 THEN s[i] ELSE f[i - 1] \o s[i]]

\* Joining one list after another gives a function of how many were joined.
LEMMA JoinExists ==
    ASSUME NEW X, NEW s \in Seq(Seq(X)), NEW n \in Nat
    PROVE  \E f : IsJoin(f, s, n)
<1> DEFINE Bad == {m \in Nat : ~\E f : IsJoin(f, s, m)}
<1>1. SUFFICES ASSUME n \in Bad PROVE FALSE
    OBVIOUS
<1>2. PICK m \in Bad : \A k \in Bad : m <= k
    <2>1. Bad \in SUBSET Nat /\ Bad # {}
        BY <1>1
    <2> HIDE DEF Bad
    <2> QED BY <2>1, LeastNumber
<1>3. m \in Nat /\ ~\E f : IsJoin(f, s, m)
    BY <1>2
<1>4. CASE m = 0
    <2> DEFINE g == [i \in 1 .. 0 |-> s[i]]
    <2>1. IsJoin(g, s, 0)
        BY DEF IsJoin
    <2> QED BY <2>1, <1>3, <1>4
<1>5. CASE m # 0
    <2>1. m - 1 \in Nat /\ m - 1 \notin Bad
        <3> HIDE DEF Bad
        <3>1. m - 1 \in Nat /\ ~(m <= m - 1)
            BY <1>3, <1>5
        <3> QED BY <3>1, <1>2
    <2>2. PICK f : IsJoin(f, s, m - 1)
        BY <2>1
    <2> DEFINE last == IF m = 1 THEN s[m] ELSE f[m - 1] \o s[m]
               g == [i \in 1 .. m |-> IF i = m THEN last ELSE f[i]]
    <2>3. ASSUME NEW i \in 1 .. m
          PROVE  g[i] = IF i = 1 THEN s[i] ELSE g[i - 1] \o s[i]
        <3>1. CASE i = m
            <4>1. g[i] = last
                BY <3>1
            <4>2. i # 1 => g[i - 1] = f[m - 1]
                BY <3>1, <1>3, <1>5
            <4> HIDE DEF g
            <4> QED BY <4>1, <4>2, <3>1
        <3>2. CASE i # m
            <4>1. i \in 1 .. m - 1 /\ g[i] = f[i]
                BY <3>2, <1>3
            <4>2. i # 1 => g[i - 1] = f[i - 1]
                BY <3>2, <1>3
            <4>3. f[i] = IF i = 1 THEN s[i] ELSE f[i - 1] \o s[i]
                BY <2>2, <4>1 DEF IsJoin
            <4> HIDE DEF g
            <4> QED BY <4>1, <4>2, <4>3
        <3> QED BY <3>1, <3>2
    <2>4. g = [i \in 1 .. m |-> g[i]]
        OBVIOUS
    <2>5. IsJoin(g, s, m)
        <3> HIDE DEF g
        <3> QED BY <2>3, <2>4 DEF IsJoin
    <2> QED BY <2>5, <1>3
<1> QED BY <1>4, <1>5

\* Lists of some things joined are a list of those things.
LEMMA FlatIsList ==
    ASSUME NEW X, NEW s \in Seq(Seq(X))
    PROVE  FlattenSeq(s) \in Seq(X)
<1> DEFINE n == Len(s)
<1>1. CASE n = 0
    <2>1. s = <<>> /\ FlattenSeq(s) = s
        BY <1>1 DEF FlattenSeq
    <2>2. FlattenSeq(s) = <<>>
        BY <2>1, Zenon
    <2>3. <<>> \in Seq(X)
        BY EmptySeq
    <2> QED BY <2>2, <2>3, Zenon
<1>2. CASE n # 0
    <2> DEFINE f == CHOOSE g : IsJoin(g, s, n)
    <2>1. FlattenSeq(s) = f[n]
        BY <1>2 DEF FlattenSeq, IsJoin
    <2>2. n \in Nat /\ \A i \in 1 .. n : s[i] \in Seq(X)
        OBVIOUS
    <2>3. IsJoin(f, s, n)
        BY <2>2, JoinExists
    <2> HIDE DEF f
    <2>4. \A i \in 1 .. n : f[i] = IF i = 1 THEN s[i] ELSE f[i - 1] \o s[i]
        BY <2>3 DEF IsJoin
    <2> DEFINE Good(i) == f[i] \in Seq(X)
               Bad == {i \in Nat : i \in 1 .. n /\ ~Good(i)}
    <2>5. Bad = {}
        <3>1. SUFFICES ASSUME Bad # {} PROVE FALSE
            OBVIOUS
        <3>2. PICK m \in Bad : \A k \in Bad : m <= k
            <4>1. Bad \in SUBSET Nat
                OBVIOUS
            <4> HIDE DEF Bad
            <4> QED BY <3>1, <4>1, LeastNumber
        <3>3. m \in 1 .. n /\ ~Good(m)
            BY <3>2
        <3>4. CASE m = 1
            <4>1. f[1] = s[1] /\ s[1] \in Seq(X)
                BY <2>2, <2>4, <3>3, <3>4
            <4> QED BY <3>3, <3>4, <4>1
        <3>5. CASE m # 1
            <4>1. m - 1 \in 1 .. n /\ m - 1 \in Nat /\ ~(m <= m - 1) /\ m \in Nat
                BY <2>2, <3>3, <3>5
            <4>2. Good(m - 1)
                BY <3>2, <4>1
            <4>3. f[m] = f[m - 1] \o s[m] /\ s[m] \in Seq(X)
                BY <2>2, <2>4, <3>3, <3>5
            <4>4. f[m] \in Seq(X)
                BY <4>2, <4>3
            <4> QED BY <3>3, <4>4
        <3> QED BY <3>4, <3>5
    <2>6. Good(n)
        <3>1. n \in Nat /\ n \in 1 .. n
            BY <1>2
        <3> HIDE DEF Good
        <3> QED BY <2>5, <3>1
    <2> QED BY <2>1, <2>6
<1> QED BY <1>1, <1>2

-----------------------------------------------------------------------------
(* One request *)

\* The envelope is a part of the payload
\* (_evidence_payload and the cut, reasoner.py:62-90, 193-229).
LEMMA EnvelopeIsSelected ==
    ASSUME NEW found \in Seq(Seq(Item))
    PROVE  /\ Envelope(found) \in Seq(Item)
           /\ ToSet(Envelope(found)) \subseteq Selected(found)
<1> DEFINE best == First(found, MaxCandidates)
           p    == Payload(found)
<1>1. MaxCandidates \in Nat /\ MaxItems \in Nat /\ MaxInput \in Nat
    BY AdviceConstants
<1>2. /\ best \in Seq(Seq(Item)) /\ Len(best) <= Len(found) /\ Len(best) \in Nat /\ Len(found) \in Nat
      /\ \A i \in 1 .. Len(best) : best[i] \in Seq(Item)
    <2>1. best \in Seq(Seq(Item)) /\ Len(best) <= Len(found)
        BY <1>1, FirstIsPart
    <2> HIDE DEF best
    <2> QED BY <2>1
<1>3. p = [i \in 1 .. Len(best) |-> First(best[i], MaxItems)]
    BY DEF Payload
<1> HIDE DEF best
<1>4. \A i \in 1 .. Len(best) : First(best[i], MaxItems) \in Seq(Item)
    <2> SUFFICES ASSUME NEW i \in 1 .. Len(best) PROVE First(best[i], MaxItems) \in Seq(Item)
        OBVIOUS
    <2>1. best[i] \in Seq(Item)
        BY <1>2
    <2> QED BY <1>1, <2>1, FirstIsPart
<1>5. p \in Seq(Seq(Item))
    <2> DEFINE S == Seq(Item)
               n == Len(best)
    <2>1. p \in [1 .. n -> S] /\ n \in Nat
        BY <1>2, <1>3, <1>4
    <2> HIDE DEF S, n, p
    <2>2. p \in Seq(S)
        BY <2>1
    <2> QED BY <2>2 DEF S
<1> HIDE DEF p
<1>6. FlattenSeq(p) \in Seq(Item)
    BY <1>5, FlatIsList
<1>7. Envelope(found) \in Seq(Item) /\ ToSet(Envelope(found)) \subseteq ToSet(FlattenSeq(p))
    BY <1>1, <1>6, FirstIsPart DEF Envelope, p
<1> QED BY <1>7 DEF p, Selected, Held

\* A part of a list that is short enough is the list.
LEMMA FirstIsWhole ==
    ASSUME NEW X, NEW s \in Seq(X), NEW n \in Nat, Len(s) <= n
    PROVE  First(s, n) = s
<1>1. First(s, n) = SubSeq(s, 1, Len(s))
    BY DEF First
<1> QED BY <1>1

\* Evidence of which nothing is said to be left out is sent as it was found
\* (the counts of _evidence_payload and the length, reasoner.py:62-94, 193-229).
LEMMA WholeIsSent ==
    ASSUME NEW found \in Seq(Seq(Item)), ~Truncated(found)
    PROVE  Held(found) \subseteq ToSet(Envelope(found))
<1>1. MaxCandidates \in Nat /\ MaxItems \in Nat /\ MaxInput \in Nat
    BY AdviceConstants
<1>2. First(found, MaxCandidates) = found
    <2>1. Len(found) \in Nat /\ ~(Len(found) > MaxCandidates)
        BY DEF Truncated
    <2>2. Len(found) <= MaxCandidates
        BY <1>1, <2>1
    <2> QED BY <1>1, <2>2, FirstIsWhole
<1>3. ASSUME NEW i \in 1 .. Len(found) PROVE First(found[i], MaxItems) = found[i]
    <2>1. found[i] \in Seq(Item) /\ ~(Len(found[i]) > MaxItems)
        BY <1>2 DEF Truncated
    <2>2. Len(found[i]) \in Nat
        BY <2>1
    <2>3. Len(found[i]) <= MaxItems
        BY <1>1, <2>1, <2>2
    <2> QED BY <1>1, <2>1, <2>3, FirstIsWhole
<1>4. Payload(found) = found
    <2>1. Payload(found) = [i \in 1 .. Len(found) |-> First(found[i], MaxItems)]
        BY <1>2, Zenon DEF Payload
    <2>2. [i \in 1 .. Len(found) |-> First(found[i], MaxItems)] = [i \in 1 .. Len(found) |-> found[i]]
        BY <1>3
    <2>3. [i \in 1 .. Len(found) |-> found[i]] = found
        OBVIOUS
    <2> QED BY <2>1, <2>2, <2>3, Zenon
<1>5. FlattenSeq(found) \in Seq(Item)
    BY FlatIsList
<1>6. Len(FlattenSeq(found)) <= MaxInput
    <2>1. ~(Len(FlattenSeq(found)) > MaxInput)
        BY <1>4 DEF Truncated
    <2>2. Len(FlattenSeq(found)) \in Nat
        BY <1>5
    <2> QED BY <1>1, <2>1, <2>2
<1>7. Envelope(found) = FlattenSeq(found)
    <2>1. First(FlattenSeq(found), MaxInput) = FlattenSeq(found)
        BY <1>1, <1>5, <1>6, FirstIsWhole
    <2> QED BY <1>4, <2>1 DEF Envelope
<1> QED BY <1>7 DEF Held

\* A citation that is kept names something selected: it quotes the
\* envelope, or names an anchor (_citation_supported, claude_code.py:812-834).
LEMMA KeptIsSelected ==
    ASSUME NEW found \in Seq(Seq(Item)), NEW c \in Supported(found, Cites)
    PROVE  ToSet(c) \cap Selected(found) # {}
<1>1. c \in Citation /\ c # <<>>
    BY MonitorConstants DEF Supported
<1>2. CASE Quotes(c, Envelope(found))
    <2> DEFINE s == Envelope(found)
    <2>1. PICK k \in 0 .. Len(s) : \A i \in 1 .. Len(c) : k + i <= Len(s) /\ s[k + i] = c[i]
        BY <1>2 DEF Quotes
    <2>2. Len(c) \in Nat /\ Len(c) # 0 /\ DOMAIN c = 1 .. Len(c)
        BY <1>1 DEF Citation
    <2>3. Len(s) \in Nat /\ DOMAIN s = 1 .. Len(s)
        <3>1. s \in Seq(Item)
            BY EnvelopeIsSelected
        <3> HIDE DEF s
        <3> QED BY <3>1
    <2> HIDE DEF s
    <2>4. 1 \in 1 .. Len(c) /\ k + 1 <= Len(s) /\ s[k + 1] = c[1]
        BY <2>1, <2>2
    <2>5. k + 1 \in DOMAIN s /\ 1 \in DOMAIN c
        BY <2>2, <2>3, <2>4
    <2>6. c[1] \in ToSet(c) /\ c[1] \in ToSet(s)
        BY <2>4, <2>5 DEF ToSet
    <2>7. ToSet(s) \subseteq Selected(found)
        BY EnvelopeIsSelected DEF s
    <2> QED BY <2>6, <2>7
<1>3. CASE ToSet(c) \cap Anchors \cap ToSet(FlattenSeq(Payload(found))) # {}
    BY <1>3 DEF Selected, Held
<1> QED BY <1>2, <1>3 DEF Supported

\* What one advice says of the evidence it was given: Claude's citations name
\* what was selected of it, and it was sent whole or is said to be cut.
Grounded(found, given) ==
    /\ given.by = "claude-code" => \A c \in given.cited : ToSet(c) \cap Selected(found) # {}
    /\ ~given.truncated => Held(found) \subseteq ToSet(Envelope(found))

\* An answer that cites anything becomes advice of which each citation names
\* what was selected (validate_analysis, claude_code.py:671-834).
LEMMA AnswerIsGrounded ==
    ASSUME NEW found \in Seq(Seq(Item)), NEW protocol \in {"claude-code", "openai"}
    PROVE  LET given == Complete(found, protocol, Cites)
           IN  given \in Result /\ Grounded(found, given)
<1> DEFINE kept  == IF protocol = "claude-code" THEN Supported(found, Cites) ELSE Cites
           given == Complete(found, protocol, Cites)
<1>1. kept \in SUBSET Citation
    BY MonitorConstants DEF Supported
<1>2. protocol = "claude-code" => \A c \in kept : ToSet(c) \cap Selected(found) # {}
    BY KeptIsSelected
<1>3. Truncated(found) \in BOOLEAN
    BY DEF Truncated
<1>4. given = [status |-> "complete", by |-> protocol, truncated |-> Truncated(found), cited |-> kept]
    BY DEF Complete
<1> HIDE DEF kept, given
<1>5. /\ given \in Result /\ given.by = protocol /\ given.cited = kept
      /\ given.truncated = Truncated(found)
    BY <1>1, <1>3, <1>4 DEF Result
<1>6. ~Truncated(found) => Held(found) \subseteq ToSet(Envelope(found))
    BY WholeIsSent
<1>7. Grounded(found, given)
    BY <1>2, <1>5, <1>6 DEF Grounded
<1> QED BY <1>5, <1>7 DEF given

\* No advice cites nothing.
LEMMA NoneIsGrounded ==
    ASSUME NEW found \in Seq(Seq(Item))
    PROVE  Unavailable(found) \in Result /\ Grounded(found, Unavailable(found))
<1>1. ~Truncated(found) => Held(found) \subseteq ToSet(Envelope(found))
    BY WholeIsSent
<1>2. Truncated(found) \in BOOLEAN
    BY DEF Truncated
<1> HIDE DEF Truncated
<1> QED BY <1>1, <1>2 DEF Unavailable, Result, Grounded

\* The sessions that count as a subscription (require_subscription,
\* claude_code.py:397-427).
LEMMA PermittedSessions ==
    ASSUME NEW session \in Session, Permitted(session)
    PROVE  session \in {"subscription", "silent"}
<1>1. session \in {"none", "subscription", "silent", "lapsed", "key", "shadowed", "unreadable"}
    BY DEF Session, Status
<1>2. CASE session = "none"
    BY <1>2 DEF Permitted, Status
<1>3. CASE session = "lapsed"
    BY <1>3 DEF Permitted, Status, Active
<1>4. CASE session = "key"
    BY <1>4 DEF Permitted, Status, AuthType
<1>5. CASE session = "shadowed"
    BY <1>5 DEF Permitted, Status, AuthType
<1>6. CASE session = "unreadable"
    BY <1>6 DEF Permitted, Status
<1> QED BY <1>1, <1>2, <1>3, <1>4, <1>5, <1>6

-----------------------------------------------------------------------------
(* The monitor, step by step *)

\* What a pass has done by the time it asks for advice: its reports are the
\* last ones at its destination and its evidence is that of a version it read.
InWork ==
    work # None =>
        /\ work.at # "audit" =>
              /\ config.llm # "none"
              /\ reports[slug[work.drop]] = [drop |-> work.drop, seen |-> work.seen]
              /\ \E v \in work.seen : work.found = Finds[v]
        /\ work.at \in Session => config.llm = "claude-code" /\ Permitted(work.at)

\* A pass at that destination is under way or to come.
Busy(to) == (work # None /\ slug[work.drop] = to) \/ \E e \in ready : slug[e] = to

\* The advice there is on the reports there.
Paired(to) ==
    /\ reports[to] # None /\ advice[to] # None
    /\ advice[to].drop = reports[to].drop /\ advice[to].seen = reports[to].seen

Follows ==
    exit = "running" /\ config.llm # "none" =>
        \A d \in Drop : observed[d] # None /\ observed[d].done # None /\ ~Busy(slug[d]) => Paired(slug[d])

Says == \A to \in Drop : advice[to] # None =>
            \E v \in advice[to].seen : Grounded(Finds[v], advice[to].result)

\* The inductive invariant.
MInv == TypeOK /\ InWork /\ Follows /\ Says

\* Names are written to destinations; versions hold what an analysis finds.
LEMMA Destinations ==
    ASSUME TypeOK, NEW d \in Drop
    PROVE  slug[d] \in Drop
BY MonitorConstants DEF TypeOK

\* What analysing a version finds is a list of candidates.
LEMMA Evidence ==
    ASSUME NEW v \in Version
    PROVE  Finds[v] \in Seq(Seq(Item))
BY MonitorConstants

\* No record is None.
LEMMA NoneIsNone ==
    None \notin Version /\ None \notin Watched /\ None \notin Work /\ None \notin Reported /\ None \notin Written
BY MonitorConstants

\* Before the first poll nothing is known and nothing written.
LEMMA InitMInv == Init => MInv
<1> SUFFICES ASSUME Init PROVE MInv
    OBVIOUS
<1>1. \A d \in Drop : Versions[d] \in Nat
    BY MonitorConstants
<1>2. TypeOK
    BY <1>1 DEF Init, TypeOK
<1> QED BY <1>2 DEF Init, MInv, InWork, Follows, Says

\* A process that ends forgets the drops and leaves the files.
LEMMA EndsStep ==
    ASSUME MInv, NEW how \in {"ok", "error", "stopped"}, Ends(how),
           UNCHANGED <<upto, slug, config, written>>,
           \/ inbox' = inbox
           \/ \E d \in Drop : inbox' = [inbox EXCEPT ![d] = None]
    PROVE  MInv'
<1>1. /\ exit' = how /\ polls' = 0 /\ observed' = [d \in Drop |-> None] /\ ready' = {} /\ work' = None
      /\ reports' = reports /\ advice' = advice /\ upto' = upto /\ slug' = slug /\ config' = config
    BY DEF Ends, written
<1>2. inbox' \in [Drop -> Version \cup {None}] /\ \A d \in Drop : inbox'[d] # None => inbox'[d] = inbox[d]
    BY DEF MInv, TypeOK
<1>3. TypeOK'
    BY <1>1, <1>2 DEF MInv, TypeOK
<1> QED BY <1>1, <1>3 DEF MInv, InWork, Follows, Says

\* The user's changes touch no file the monitor writes.
LEMMA ChangeStep ==
    ASSUME MInv, NEW d \in Drop, Change(d)
    PROVE  MInv'
<1>1. /\ upto[d] < Versions[d] /\ upto[d] \in Nat /\ Versions[d] \in Nat
      /\ inbox' = [inbox EXCEPT ![d] = upto[d] + 1] /\ upto' = [upto EXCEPT ![d] = upto[d] + 1]
      /\ UNCHANGED <<slug, config, polls, observed, ready, reports, advice, exit>>
    BY MonitorConstants DEF Change, MInv, TypeOK, written
<1>2. upto[d] + 1 \in Version
    BY <1>1 DEF Version
<1>3. /\ inbox' \in [Drop -> Version \cup {None}] /\ upto' \in [Drop -> Nat]
      /\ \A e \in Drop : upto'[e] <= Versions[e] /\ (inbox'[e] # None => inbox'[e] \in 1 .. upto'[e])
    BY <1>1, <1>2 DEF MInv, TypeOK
<1>4. CASE work # None /\ work.drop = d /\ work.at = "audit"
    <2>1. work' = [work EXCEPT !.seen = work.seen \cup {upto[d] + 1}]
        BY <1>1, <1>4 DEF Change, MInv, TypeOK
    <2>2. PICK drop \in Drop, seen \in SUBSET Version, found \in Seq(Seq(Item)) :
             work = [drop |-> drop, at |-> "audit", seen |-> seen, found |-> found]
        BY <1>4 DEF MInv, TypeOK, Work
    <2>3. work' = [drop |-> drop, at |-> "audit", seen |-> seen \cup {upto[d] + 1}, found |-> found]
        BY <2>1, <2>2
    <2>4. work' \in Work /\ work'.drop = work.drop /\ work'.at = "audit"
        BY <1>2, <2>2, <2>3 DEF Work
    <2>5. work' # None /\ "audit" \notin Session
        BY <2>4, NoneIsNone DEF Session, Status
    <2>6. TypeOK'
        BY <1>1, <1>3, <1>4, <2>4 DEF MInv, TypeOK
    <2>7. InWork'
        BY <2>4, <2>5 DEF InWork
    <2>8. Follows'
        BY <1>1, <1>4, <2>4, <2>5 DEF MInv, Follows, Busy, Paired
    <2>9. Says'
        BY <1>1 DEF MInv, Says
    <2> QED BY <2>6, <2>7, <2>8, <2>9 DEF MInv
<1>5. CASE ~(work # None /\ work.drop = d /\ work.at = "audit")
    <2>1. work' = work
        BY <1>5 DEF Change
    <2>2. TypeOK'
        BY <1>1, <1>3, <2>1 DEF MInv, TypeOK
    <2> QED BY <1>1, <2>1, <2>2 DEF MInv, InWork, Follows, Busy, Paired, Says
<1> QED BY <1>4, <1>5

\* A drop taken away touches no file the monitor writes.
LEMMA WithdrawStep ==
    ASSUME MInv, NEW d \in Drop, Withdraw(d)
    PROVE  MInv'
<1>1. /\ inbox' = [inbox EXCEPT ![d] = None]
      /\ UNCHANGED <<upto, slug, config, polls, observed, ready, work, reports, advice, exit>>
    BY DEF Withdraw, written
<1>2. inbox' \in [Drop -> Version \cup {None}] /\ \A e \in Drop : inbox'[e] # None => inbox'[e] = inbox[e]
    BY <1>1 DEF MInv, TypeOK
<1>3. TypeOK'
    BY <1>1, <1>2 DEF MInv, TypeOK
<1> QED BY <1>1, <1>3 DEF MInv, InWork, Follows, Busy, Paired, Says

\* A drop as a poll leaves it: the last pass over it is not forgotten.
LEMMA Observing ==
    ASSUME TypeOK, NEW d \in Drop, NEW t \in Nat
    PROVE  /\ Observe(d, t) \in Watched \cup {None}
           /\ Observe(d, t) # None => Observe(d, t).looks \in Range(Looks)
           /\ Observe(d, t) # None /\ observed[d] = None => Observe(d, t).done = None
           /\ Observe(d, t) # None /\ observed[d] # None => Observe(d, t).done = observed[d].done
<1>1. CASE inbox[d] = None
    BY <1>1 DEF Observe
<1>2. CASE inbox[d] # None
    <2>1. inbox[d] \in Version /\ Debounce \in Nat /\ None \notin Watched
        BY <1>2, NoneIsNone, MonitorConstants DEF TypeOK
    <2>2. Seen(d) \in Range(Looks)
        BY <2>1, MonitorConstants DEF Seen, Range
    <2>3. CASE observed[d] = None
        <3>1. Observe(d, t) = [looks |-> Seen(d), quiet |-> 0, done |-> None]
            BY <1>2, <2>3 DEF Observe
        <3>2. Observe(d, t) \in Watched /\ Observe(d, t).looks = Seen(d) /\ Observe(d, t).done = None
            BY <2>1, <2>2, <3>1 DEF Watched
        <3> QED BY <2>2, <2>3, <3>2
    <2>4. CASE observed[d] # None
        <3>1. observed[d] \in Watched
            BY <2>4 DEF TypeOK
        <3>2. PICK looks \in Range(Looks), quiet \in 0 .. Debounce, done \in Range(Looks) \cup {None} :
                 observed[d] = [looks |-> looks, quiet |-> quiet, done |-> done]
            BY <3>1 DEF Watched
        <3>3. \E now \in Range(Looks), q \in 0 .. Debounce : Observe(d, t) = [looks |-> now, quiet |-> q, done |-> done]
            <4>1. CASE looks # Seen(d)
                <5>1. Observe(d, t) = [looks |-> Seen(d), quiet |-> 0, done |-> done]
                    BY <1>2, <2>4, <3>2, <4>1 DEF Observe
                <5> QED BY <2>1, <2>2, <5>1
            <4>2. CASE looks = Seen(d)
                <5> DEFINE q == IF quiet + t < Debounce THEN quiet + t ELSE Debounce
                <5>1. Observe(d, t) = [looks |-> looks, quiet |-> q, done |-> done]
                    BY <1>2, <2>4, <3>2, <4>2 DEF Observe
                <5>2. q \in 0 .. Debounce
                    BY <2>1, <3>2
                <5> HIDE DEF q
                <5> QED BY <5>1, <5>2
            <4> QED BY <4>1, <4>2
        <3>4. PICK now \in Range(Looks), q \in 0 .. Debounce : Observe(d, t) = [looks |-> now, quiet |-> q, done |-> done]
            BY <3>3
        <3>5. Observe(d, t) \in Watched /\ Observe(d, t).looks = now /\ Observe(d, t).done = done
            BY <3>2, <3>4 DEF Watched
        <3> QED BY <2>4, <3>2, <3>5
    <2> QED BY <2>3, <2>4
<1> QED BY <1>1, <1>2

\* A poll marks as processed what it is about to process (poll_once).
LEMMA PollStep == MInv /\ Poll => MInv'
<1> SUFFICES ASSUME MInv, Poll PROVE MInv'
    OBVIOUS
<1> DEFINE polled(t) ==
               LET next == [d \in Drop |-> Observe(d, t)]
                   quiet == {d \in Drop : Quiet(d, next[d])}
               IN  /\ observed' = [d \in Drop |-> IF d \in quiet THEN [next[d] EXCEPT !.done = next[d].looks]
                                                               ELSE next[d]]
                   /\ ready' = quiet
<1>1. PICK t \in Nat : polled(t)
    <2>1. \A t \in IF config.once THEN {Debounce} ELSE 1 .. (Debounce + 1) : t \in Nat
        BY MonitorConstants
    <2>2. \E t \in IF config.once THEN {Debounce} ELSE 1 .. (Debounce + 1) : polled(t)
        BY DEF Poll
    <2> HIDE DEF polled
    <2> QED BY <2>1, <2>2
<1>2. /\ work = None /\ ready = {} /\ exit = "running" /\ polls' \in Nat
      /\ UNCHANGED <<inbox, upto, slug, config, work, reports, advice, exit>>
    BY DEF Poll, MInv, TypeOK, outside, written
<1>3. \A d \in Drop : observed'[d] = IF d \in ready' THEN [Observe(d, t) EXCEPT !.done = Observe(d, t).looks]
                                                    ELSE Observe(d, t)
    BY <1>1
<1>4. ready' \subseteq Drop /\ \A d \in ready' : Quiet(d, Observe(d, t))
    BY <1>1
<1>5. observed' \in [Drop -> Watched \cup {None}]
    <2>1. \A d \in Drop : observed'[d] \in Watched \cup {None}
        <3> SUFFICES ASSUME NEW d \in Drop PROVE observed'[d] \in Watched \cup {None}
            OBVIOUS
        <3>1. Observe(d, t) \in Watched \cup {None}
            BY Observing DEF MInv
        <3>2. CASE d \in ready'
            <4>1. Observe(d, t) # None
                BY <1>4, <3>2 DEF Quiet
            <4>2. PICK looks \in Range(Looks), quiet \in 0 .. Debounce, done \in Range(Looks) \cup {None} :
                     Observe(d, t) = [looks |-> looks, quiet |-> quiet, done |-> done]
                BY <3>1, <4>1 DEF Watched
            <4>3. observed'[d] = [looks |-> looks, quiet |-> quiet, done |-> looks]
                BY <1>3, <3>2, <4>2
            <4> QED BY <4>2, <4>3 DEF Watched
        <3>3. CASE d \notin ready'
            BY <1>3, <3>1, <3>3
        <3> QED BY <3>2, <3>3
    <2>2. DOMAIN observed' = Drop /\ observed' = [d \in DOMAIN observed' |-> observed'[d]]
        BY <1>1
    <2> QED BY <2>1, <2>2
<1>6. TypeOK'
    BY <1>2, <1>4, <1>5 DEF MInv, TypeOK
<1>7. Follows'
    <2> SUFFICES ASSUME exit' = "running", config'.llm # "none", NEW d \in Drop,
                        observed'[d] # None, observed'[d].done # None, ~Busy(slug[d])'
                 PROVE  Paired(slug[d])'
        BY <1>2 DEF Follows
    <2>1. d \notin ready'
        BY <1>2 DEF Busy
    <2>2. observed'[d] = Observe(d, t)
        BY <1>3, <2>1
    <2>3. observed[d] # None /\ observed[d].done # None
        BY <2>2, Observing DEF MInv
    <2>4. ~Busy(slug[d])
        BY <1>2 DEF Busy
    <2>5. Paired(slug[d])
        BY <1>2, <2>3, <2>4 DEF MInv, Follows
    <2> QED BY <1>2, <2>5 DEF Paired
<1> QED BY <1>2, <1>6, <1>7 DEF MInv, InWork, Says

\* The next drop is taken, or is gone and ends the monitor (run_monitor).
LEMMA TakeStep == MInv /\ Take => MInv'
<1> SUFFICES ASSUME MInv, Take PROVE MInv'
    OBVIOUS
<1> DEFINE d == Min(ready)
<1>1. /\ exit = "running" /\ work = None /\ ready # {}
      /\ UNCHANGED <<inbox, upto, slug, config, reports, advice>>
    BY DEF Take, outside, written
<1>2. d \in ready /\ d \in Drop
    <2>1. ready \in SUBSET Nat /\ ready \subseteq Drop
        BY MonitorConstants DEF MInv, TypeOK
    <2> QED BY <1>1, <2>1, MinIsThere
<1>3. CASE inbox[d] = None
    <2>1. Ends("error")
        BY <1>3 DEF Take
    <2> QED BY <1>1, <2>1, EndsStep DEF written
<1>4. CASE inbox[d] # None
    <2>1. /\ work' = [drop |-> d, at |-> "audit", seen |-> {inbox[d]}, found |-> <<>>]
          /\ ready' = ready \ {d} /\ UNCHANGED <<polls, observed, exit>>
        BY <1>4 DEF Take
    <2> HIDE DEF d
    <2>2. work' \in Work /\ work'.drop = d /\ work'.at = "audit"
        <3>1. inbox[d] \in Version
            BY <1>2, <1>4 DEF MInv, TypeOK
        <3>2. <<>> \in Seq(Seq(Item))
            BY EmptySeq
        <3> QED BY <1>2, <2>1, <3>1, <3>2 DEF Work
    <2>3. work' # None /\ "audit" \notin Session
        BY <2>2, NoneIsNone DEF Session, Status
    <2>4. TypeOK'
        BY <1>1, <2>1, <2>2 DEF MInv, TypeOK
    <2>5. InWork'
        BY <2>2, <2>3 DEF InWork
    <2>6. Follows'
        <3> SUFFICES ASSUME exit' = "running", config'.llm # "none", NEW e \in Drop,
                            observed'[e] # None, observed'[e].done # None, ~Busy(slug[e])'
                     PROVE  Paired(slug[e])'
            BY <1>1 DEF Follows
        <3>1. ~Busy(slug[e])
            BY <1>1, <2>1, <2>2, <2>3 DEF Busy
        <3>2. Paired(slug[e])
            BY <1>1, <2>1, <3>1 DEF MInv, Follows
        <3> QED BY <1>1, <3>2 DEF Paired
    <2> QED BY <1>1, <2>4, <2>5, <2>6 DEF MInv, Says
<1> QED BY <1>3, <1>4

\* The reports of a pass replace those at its destination; with a profile
\* the pass goes on (process_drop).
LEMMA ReportStep == MInv /\ Report => MInv'
<1> SUFFICES ASSUME MInv, Report PROVE MInv'
    OBVIOUS
<1>1. PICK v \in work.seen :
         /\ reports' = [reports EXCEPT ![slug[work.drop]] = [drop |-> work.drop, seen |-> work.seen]]
         /\ work' = IF config.llm = "none" THEN None ELSE [work EXCEPT !.at = "advise", !.found = Finds[v]]
    BY DEF Report
<1>2. /\ exit = "running" /\ work # None /\ work.at = "audit"
      /\ UNCHANGED <<inbox, upto, slug, config, polls, observed, ready, advice, exit>>
    BY DEF Report, Working, outside
<1>3. PICK drop \in Drop, seen \in SUBSET Version, found \in Seq(Seq(Item)) :
         work = [drop |-> drop, at |-> "audit", seen |-> seen, found |-> found]
    BY <1>2 DEF MInv, TypeOK, Work
<1>4. slug[drop] \in Drop /\ v \in seen /\ v \in Version /\ work.drop = drop /\ work.seen = seen
    BY <1>1, <1>3, Destinations DEF MInv
<1>5. [drop |-> drop, seen |-> seen] \in Reported
    BY DEF Reported
<1>6. reports' \in [Drop -> Reported \cup {None}]
    BY <1>1, <1>4, <1>5 DEF MInv, TypeOK
<1>7. \A to \in Drop : to # slug[drop] => reports'[to] = reports[to]
    BY <1>1, <1>4 DEF MInv, TypeOK
<1>8. reports'[slug[drop]] = [drop |-> drop, seen |-> seen]
    BY <1>1, <1>4 DEF MInv, TypeOK
<1>9. Says'
    BY <1>2 DEF MInv, Says
<1>10. CASE config.llm = "none"
    <2>1. work' = None
        BY <1>1, <1>10
    <2>2. TypeOK'
        BY <1>2, <1>6, <2>1 DEF MInv, TypeOK
    <2> QED BY <1>2, <1>9, <1>10, <2>1, <2>2 DEF MInv, InWork, Follows
<1>11. CASE config.llm # "none"
    <2>1. work' = [drop |-> drop, at |-> "advise", seen |-> seen, found |-> Finds[v]]
        BY <1>1, <1>3, <1>11
    <2>2. work' \in Work /\ work'.drop = drop /\ work'.at = "advise" /\ work'.seen = seen /\ work'.found = Finds[v]
        BY <1>4, <2>1, Evidence DEF Work
    <2>3. work' # None /\ "advise" \notin Session
        BY <2>2, NoneIsNone DEF Session, Status
    <2>4. TypeOK'
        BY <1>2, <1>6, <2>2 DEF MInv, TypeOK
    <2>5. InWork'
        BY <1>2, <1>4, <1>8, <1>11, <2>2, <2>3 DEF InWork
    <2>6. Follows'
        <3> SUFFICES ASSUME exit' = "running", config'.llm # "none", NEW e \in Drop,
                            observed'[e] # None, observed'[e].done # None, ~Busy(slug[e])'
                     PROVE  Paired(slug[e])'
            BY <1>2 DEF Follows
        <3>1. ~Busy(slug[e]) /\ slug[e] # slug[drop]
            BY <1>2, <1>4, <2>2, <2>3 DEF Busy
        <3>2. Paired(slug[e]) /\ slug[e] \in Drop
            BY <1>2, <3>1, Destinations DEF MInv, Follows
        <3> QED BY <1>2, <1>7, <3>1, <3>2 DEF Paired
    <2> QED BY <1>9, <2>4, <2>5, <2>6 DEF MInv
<1> QED BY <1>10, <1>11

\* Advice on the evidence of the pass is put beside its reports, and the
\* pass or the monitor ends (write_llm_reports, llm_required).
LEMMA AdvisedStep ==
    ASSUME MInv, exit = "running", work # None, work.at # "audit",
           NEW result \in Result, Grounded(work.found, result), Advised(result)
    PROVE  MInv'
<1>1. /\ advice' = [advice EXCEPT ![slug[work.drop]] = [drop |-> work.drop, seen |-> work.seen, result |-> result]]
      /\ UNCHANGED <<inbox, upto, slug, config, reports>>
      /\ \/ Ends("error")
         \/ work' = None /\ UNCHANGED <<polls, observed, ready, exit>>
    BY DEF Advised, Placed, Carries, outside
<1>2. PICK drop \in Drop, seen \in SUBSET Version :
         /\ work.drop = drop /\ work.seen = seen /\ reports[slug[drop]] = [drop |-> drop, seen |-> seen]
         /\ \E v \in seen : work.found = Finds[v]
    BY DEF MInv, TypeOK, Work, InWork
<1>3. slug[drop] \in Drop
    BY Destinations DEF MInv
<1> DEFINE new == [drop |-> drop, seen |-> seen, result |-> result]
<1>4. new \in Written /\ new.drop = drop /\ new.seen = seen /\ new.result = result
    BY DEF Written
<1> HIDE DEF new
<1>5. advice' = [advice EXCEPT ![slug[drop]] = new] /\ advice \in [Drop -> Written \cup {None}]
    BY <1>1, <1>2 DEF new, MInv, TypeOK
<1>6. /\ advice' \in [Drop -> Written \cup {None}] /\ advice'[slug[drop]] = new
      /\ \A to \in Drop : to # slug[drop] => advice'[to] = advice[to]
    BY <1>3, <1>4, <1>5
<1>7. Says'
    <2>1. Grounded(work.found, new.result)
        BY <1>4
    <2> QED BY <1>2, <1>3, <1>4, <1>6, <2>1 DEF MInv, Says
<1>8. CASE Ends("error")
    <2>1. /\ exit' = "error" /\ polls' = 0 /\ observed' = [d \in Drop |-> None] /\ ready' = {} /\ work' = None
        BY <1>8 DEF Ends
    <2>2. TypeOK'
        BY <1>1, <1>6, <2>1 DEF MInv, TypeOK
    <2> QED BY <1>7, <2>1, <2>2 DEF MInv, InWork, Follows
<1>9. CASE work' = None /\ UNCHANGED <<polls, observed, ready, exit>>
    <2>1. TypeOK'
        BY <1>1, <1>6, <1>9 DEF MInv, TypeOK
    <2>2. Follows'
        <3> SUFFICES ASSUME exit' = "running", config'.llm # "none", NEW e \in Drop,
                            observed'[e] # None, observed'[e].done # None, ~Busy(slug[e])'
                     PROVE  Paired(slug[e])'
            BY <1>1 DEF Follows
        <3>1. CASE slug[e] = slug[drop]
            <4>1. reports'[slug[e]] = [drop |-> drop, seen |-> seen] /\ advice'[slug[e]] = new
                BY <1>1, <1>2, <1>6, <3>1
            <4>2. reports'[slug[e]] \in Reported /\ new # None /\ reports'[slug[e]].drop = drop /\ reports'[slug[e]].seen = seen
                BY <1>4, <4>1, NoneIsNone DEF Reported
            <4> QED BY <1>1, <1>4, <4>1, <4>2, NoneIsNone DEF Paired
        <3>2. CASE slug[e] # slug[drop]
            <4>1. ~Busy(slug[e])
                BY <1>1, <1>2, <1>9, <3>2 DEF Busy
            <4>2. Paired(slug[e]) /\ slug[e] \in Drop
                BY <1>1, <1>9, <4>1, Destinations DEF MInv, Follows
            <4> QED BY <1>1, <1>6, <3>2, <4>2 DEF Paired
        <3> QED BY <3>1, <3>2
    <2> QED BY <1>7, <1>9, <2>1, <2>2 DEF MInv, InWork
<1> QED BY <1>1, <1>8, <1>9

\* Where a pass asks for advice: with a profile, on evidence of the drop.
LEMMA AskingWithEvidence ==
    ASSUME MInv, Working("advise") \/ Asking
    PROVE  /\ exit = "running" /\ work # None /\ work.at # "audit" /\ config.llm # "none"
           /\ work.found \in Seq(Seq(Item))
           /\ Asking => config.llm = "claude-code" /\ Permitted(work.at)
BY DEF MInv, TypeOK, Work, InWork, Working, Asking, Session, Status

\* Advice that is unavailable is written too (reason_about_acquisition).
LEMMA NoAdviceStep == MInv /\ NoAdvice => MInv'
<1> SUFFICES ASSUME MInv, NoAdvice PROVE MInv'
    OBVIOUS
<1>1. /\ Advised(Unavailable(work.found)) /\ exit = "running" /\ work # None /\ work.at # "audit"
      /\ work.found \in Seq(Seq(Item))
    BY AskingWithEvidence DEF NoAdvice
<1> QED BY <1>1, NoneIsGrounded, AdvisedStep

\* An answer is kept as far as its citations are supported (complete).
LEMMA AnswerStep == MInv /\ Answer => MInv'
<1> SUFFICES ASSUME MInv, Answer PROVE MInv'
    OBVIOUS
<1> DEFINE given == Complete(work.found, config.llm, Cites)
<1>1. /\ Advised(given) /\ exit = "running" /\ work # None /\ work.at # "audit"
      /\ work.found \in Seq(Seq(Item)) /\ config.llm \in {"claude-code", "openai"}
    BY AskingWithEvidence DEF Answer
<1>2. given \in Result /\ Grounded(work.found, given)
    BY <1>1, AnswerIsGrounded
<1> HIDE DEF given
<1> QED BY <1>1, <1>2, AdvisedStep

\* Only a permitted session is used (complete_text).
LEMMA CheckStep == MInv /\ Check => MInv'
<1> SUFFICES ASSUME MInv, Check PROVE MInv'
    OBVIOUS
<1>1. PICK session \in Session : Permitted(session) /\ work' = [work EXCEPT !.at = session]
    BY DEF Check
<1>2. /\ work # None /\ work.at = "advise" /\ config.llm = "claude-code"
      /\ UNCHANGED <<inbox, upto, slug, config, polls, observed, ready, reports, advice, exit>>
    BY DEF Check, Working, outside, written
<1>3. PICK drop \in Drop, seen \in SUBSET Version, found \in Seq(Seq(Item)) :
         work = [drop |-> drop, at |-> "advise", seen |-> seen, found |-> found]
    BY <1>2 DEF MInv, TypeOK, Work
<1>4. work' = [drop |-> drop, at |-> session, seen |-> seen, found |-> found]
    BY <1>1, <1>3
<1>5. /\ work' \in Work /\ work'.drop = work.drop /\ work'.seen = work.seen
      /\ work'.found = work.found /\ work'.at = session
    BY <1>3, <1>4 DEF Work
<1>6. work' # None
    BY <1>5, NoneIsNone
<1>7. exit = "running"
    BY DEF Check, Working
<1>8. TypeOK'
    BY <1>2, <1>5, <1>7 DEF MInv, TypeOK
<1>9. InWork'
    BY <1>1, <1>2, <1>5 DEF MInv, InWork
<1>10. Follows'
    BY <1>2, <1>5, <1>6 DEF MInv, Follows, Busy, Paired
<1> QED BY <1>2, <1>8, <1>9, <1>10 DEF MInv, Says

\* A monitor that starts knows nothing, and says nothing of what it finds written.
LEMMA RestartStep == MInv /\ Restart => MInv'
<1> SUFFICES ASSUME MInv, Restart PROVE MInv'
    OBVIOUS
<1>1. /\ config' \in Configs /\ exit' = "running" /\ exit # "running"
      /\ UNCHANGED <<inbox, upto, slug, polls, observed, ready, work, reports, advice>>
    BY DEF Restart, outside, memory, written
<1>2. observed = [d \in Drop |-> None] /\ ready = {} /\ work = None
    BY <1>1 DEF MInv, TypeOK
<1>3. TypeOK'
    BY <1>1, <1>2 DEF MInv, TypeOK
<1> QED BY <1>1, <1>2, <1>3 DEF MInv, InWork, Follows, Says

\* Every step keeps the invariant.
LEMMA NextMInv == MInv /\ [Next]_vars => MInv'
<1> SUFFICES ASSUME MInv, [Next]_vars PROVE MInv'
    OBVIOUS
<1>1. ASSUME NEW d \in Drop, PollFails(d) PROVE MInv'
    BY <1>1, EndsStep DEF PollFails
<1>2. CASE Fails \/ Interrupt \/ Finish
    BY <1>2, EndsStep DEF Fails, Interrupt, Finish, outside
<1>3. CASE UNCHANGED vars
    BY <1>3 DEF vars, outside, written, MInv, TypeOK, InWork, Follows, Busy, Paired, Says
<1> QED BY <1>1, <1>2, <1>3, ChangeStep, WithdrawStep, PollStep, TakeStep, ReportStep, NoAdviceStep,
           CheckStep, AnswerStep, RestartStep DEF Next

\* The invariant holds throughout.
LEMMA AlwaysMInv == Spec => []MInv
BY InitMInv, NextMInv, PTL DEF Spec

\* Every reachable state of the monitor is well typed, and an ended one knows
\* nothing (monitor.py:26-48, 119-128).
THEOREM TypeCorrect == Spec => []TypeOK
<1>1. MInv => TypeOK
    BY DEF MInv
<1> QED BY <1>1, AlwaysMInv, PTL

\* Advice beside reports is on those reports, for any drops, versions,
\* destinations and configurations (monitor.py:81-105).
THEOREM AdviceIsOnItsReports == Spec => []AdviceFollowsReports
<1>1. MInv => AdviceFollowsReports
    BY DEF MInv, Follows, Busy, Paired, AdviceFollowsReports
<1> QED BY <1>1, AlwaysMInv, PTL

\* The invariant gives AdviceIsGrounded.
LEMMA GroundedOfMInv == MInv => AdviceIsGrounded
<1> SUFFICES ASSUME MInv PROVE AdviceIsGrounded
    OBVIOUS
<1>1. Asking => work.at \in {"subscription", "silent"}
    <2>1. Asking => work.at \in Session /\ Permitted(work.at)
        BY AskingWithEvidence DEF Asking
    <2> QED BY <2>1, PermittedSessions
<1>2. ASSUME NEW to \in Drop, advice[to] # None
      PROVE  \E found \in {Finds[v] : v \in advice[to].seen} : Grounded(found, advice[to].result)
    BY <1>2 DEF MInv, Says
<1> QED BY <1>1, <1>2 DEF AdviceIsGrounded, Grounded

\* Each citation of Claude's advice names something selected from a version of
\* the drop, Claude is asked under a subscription only, and evidence that was
\* not sent whole is said to be cut, for any evidence, answers and limits
\* (claude_code.py:282-427, 671-834, reasoner.py:50-166, 193-229).
THEOREM AdviceCitesEvidence == Spec => []AdviceIsGrounded
BY AlwaysMInv, GroundedOfMInv, PTL

=============================================================================
