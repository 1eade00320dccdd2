---------------------------- MODULE UpdaterProofs ----------------------------
(* What holds of Updater for every number of windows, versions and blocks. *)
EXTENDS Updater, TLAPS

WinType == [pc : PCs, version : Versions \cup {NoVersion}, received : 0 .. Length,
            prepared : Versions \cup {NoVersion}]

(* A window that may still remove or rename the partial file of `v`.      *)
Owns(w, v) == win[w].pc \in {"write", "replace", "discard"} /\ win[w].version = v

(* A window in a task has a version, and while it writes nobody can take  *)
(* the file away; a window starts what it holds verified.                 *)
Busy == PCs \ {"off", "idle", "launch"}
Held(w) ==
    /\ win[w].pc \in Busy => Version(w) \in Versions
    /\ At(w, "write") => part[Version(w)] \in SUBSET Blocks
    /\ At(w, "launch") => win[w].prepared \in Versions

(* A partial file has an owner as long as no window died in a task.       *)
Owned == ~ crashed => \A v \in Versions : part[v] # NoFile => \E w \in Windows : Owns(w, v)

UInv == TypeOK /\ (\A w \in Windows : Held(w)) /\ Owned

LEMMA OffType == Off \in WinType
BY UpdaterConstants DEF Off, WinType, PCs

(* One window moves; the files of the partial names stay as they are, but *)
(* for the version it owns and gives up.                                  *)
LEMMA WindowStep ==
    ASSUME UInv, NEW w \in Windows, NEW r \in WinType, win' = [win EXCEPT ![w] = r],
           r.pc \in Busy => r.version \in Versions,
           r.pc = "write" => part'[r.version] \in SUBSET Blocks,
           r.pc = "launch" => r.prepared \in Versions,
           part' \in [Versions -> File], final' \in [Versions -> File],
           \A u \in Windows \ {w} : At(u, "write") => part'[Version(u)] \in SUBSET Blocks,
           \A v \in Versions : part'[v] # NoFile =>
              \/ crashed'
              \/ r.pc \in {"write", "replace", "discard"} /\ r.version = v
              \/ part[v] # NoFile /\ ~ Owns(w, v)
              \/ \E u \in Windows \ {w} : Owns(u, v),
           published' = published, launched' \subseteq [version : Versions, file : SUBSET Blocks],
           crashed' \in BOOLEAN, crashed => crashed'
    PROVE  UInv'
<1>1. TypeOK /\ Owned /\ win \in [Windows -> WinType]
    BY DEF UInv, TypeOK, WinType
<1>2. /\ win' \in [Windows -> WinType] /\ win'[w] = r
      /\ \A u \in Windows \ {w} : win'[u] = win[u]
    BY <1>1
<1>3. TypeOK'
    BY <1>1, <1>2 DEF TypeOK, WinType
<1>4. ASSUME NEW u \in Windows PROVE Held(u)'
  <2>1. CASE u = w
      BY <1>2, <2>1 DEF Held, At, Version
  <2>2. CASE u # w
      BY <1>2, <2>2 DEF UInv, Held, At, Version
  <2>. QED
      BY <2>1, <2>2
<1>5. Owned'
  <2>1. ASSUME NEW v \in Versions, part'[v] # NoFile, ~ crashed'
        PROVE  \E u \in Windows : Owns(u, v)'
    <3>1. CASE r.pc \in {"write", "replace", "discard"} /\ r.version = v
        BY <1>2, <3>1 DEF Owns
    <3>2. CASE part[v] # NoFile /\ ~ Owns(w, v)
      <4>1. PICK u \in Windows : Owns(u, v)
          BY <1>1, <2>1, <3>2 DEF Owned
      <4>. QED
          BY <1>2, <3>2, <4>1 DEF Owns
    <3>3. CASE \E u \in Windows \ {w} : Owns(u, v)
        BY <1>2, <3>3 DEF Owns
    <3>. QED
        BY <2>1, <3>1, <3>2, <3>3
  <2>. QED
      BY <2>1 DEF Owned
<1>. QED
    BY <1>3, <1>4, <1>5 DEF UInv

(* A window moves on, and no file with it.                                *)
LEMMA QuietStep ==
    ASSUME UInv, NEW w \in Windows, NEW r \in WinType, win' = [win EXCEPT ![w] = r],
           r.pc # "write", r.pc \in Busy => r.version \in Versions, r.pc = "launch" => r.prepared \in Versions,
           \/ ~ At(w, "write") /\ ~ At(w, "replace") /\ ~ At(w, "discard")
           \/ r.pc \in {"replace", "discard"} /\ r.version = Version(w)
           \/ crashed',
           final' \in [Versions -> File],
           published' = published, part' = part,
           launched' \subseteq [version : Versions, file : SUBSET Blocks],
           crashed' \in BOOLEAN, crashed => crashed'
    PROVE  UInv'
<1>1. part' \in [Versions -> File]
    BY DEF UInv, TypeOK
<1>2. \A u \in Windows \ {w} : At(u, "write") => part'[Version(u)] \in SUBSET Blocks
    BY DEF UInv, Held
<1>3. ASSUME NEW v \in Versions, part'[v] # NoFile
      PROVE  \/ crashed'
             \/ r.pc \in {"write", "replace", "discard"} /\ r.version = v
             \/ part[v] # NoFile /\ ~ Owns(w, v)
             \/ \E u \in Windows \ {w} : Owns(u, v)
    BY <1>3 DEF Owns, At, Version
<1>. QED
    BY <1>1, <1>2, <1>3, WindowStep

(* A window gives up, with or without the partial file.                   *)
LEMMA FailedType ==
    ASSUME UInv, NEW w \in Windows
    PROVE  LET r == [win[w] EXCEPT !.pc = "idle", !.received = 0, !.prepared = NoVersion]
           IN  /\ r \in WinType /\ r.pc = "idle"
               /\ Failed(w) => win' = [win EXCEPT ![w] = r]
<1>1. win \in [Windows -> WinType]
    BY DEF UInv, TypeOK, WinType
<1>2. 0 \in 0 .. Length /\ "idle" \in PCs
    BY UpdaterConstants DEF PCs
<1>. QED
    BY <1>1, <1>2 DEF Failed, WinType

LEMMA GotoType ==
    ASSUME UInv, NEW w \in Windows, NEW pc \in PCs
    PROVE  LET r == [win[w] EXCEPT !.pc = pc]
           IN  /\ r \in WinType /\ r.pc = pc /\ r.version = Version(w) /\ r.prepared = win[w].prepared
               /\ Goto(w, pc) => win' = [win EXCEPT ![w] = r]
<1>1. win \in [Windows -> WinType]
    BY DEF UInv, TypeOK, WinType
<1>. QED
    BY <1>1 DEF Goto, WinType, Version

LEMMA StepKeeps ==
    ASSUME UInv, NEW w \in Windows, Step(w)
    PROVE  UInv'
<1>. DEFINE given == [win[w] EXCEPT !.pc = "idle", !.received = 0, !.prepared = NoVersion]
            at(pc) == [win[w] EXCEPT !.pc = pc]
<1>0. /\ win \in [Windows -> WinType] /\ win[w] \in WinType
      /\ part \in [Versions -> File] /\ final \in [Versions -> File]
      /\ launched \subseteq [version : Versions, file : SUBSET Blocks] /\ crashed \in BOOLEAN
      /\ \A u \in Windows : At(u, "write") => Version(u) \in Versions /\ part[Version(u)] \in SUBSET Blocks
      /\ At(w, "launch") \/ Version(w) \in Versions
  <2>0. \A u \in Windows : At(u, "write") => win[u].pc \in Busy
      BY DEF At, Busy, PCs
  <2>1. At(w, "launch") \/ win[w].pc \in Busy
      BY DEF Step, Prune, Reuse, Unlink, Request, WriteBlock, CloseFile, Replace, Discard,
             Verify, Prepared, Distrust, Start, At, Busy, PCs
  <2>. QED
      BY <2>0, <2>1 DEF UInv, TypeOK, WinType, Held
<1>1. given \in WinType /\ given.pc = "idle" /\ (Failed(w) => win' = [win EXCEPT ![w] = given])
    BY FailedType
<1>2. \A pc \in PCs : /\ at(pc) \in WinType /\ at(pc).pc = pc /\ at(pc).version = Version(w)
                      /\ Goto(w, pc) => win' = [win EXCEPT ![w] = at(pc)]
    BY GotoType
<1>3. /\ {"idle", "reuse", "verify", "unlink", "request", "discard", "replace", "prepared", "distrust", "write"} \subseteq PCs
      /\ NoFile \in File /\ {} \in File /\ {} \in SUBSET Blocks
    BY DEF PCs, File
<1>. HIDE DEF given, at
<1>4. CASE Prune(w)
  <2>1. \A v \in Versions : part'[v] \in {part[v], NoFile} /\ (part'[v] # part[v] => ~ HeldByOther(w, v))
      BY <1>0, <1>4 DEF Prune
  <2>2. part' \in [Versions -> File] /\ final' \in [Versions -> File]
      BY <1>0, <1>3, <1>4 DEF Prune
  <2>3. ASSUME NEW u \in Windows \ {w}, At(u, "write") PROVE part'[Version(u)] \in SUBSET Blocks
    <3>1. HeldByOther(w, Version(u)) /\ Version(u) \in Versions
        BY <1>0, <2>3 DEF HeldByOther
    <3>2. part'[Version(u)] = part[Version(u)]
        BY <2>1, <3>1
    <3>. QED
        BY <1>0, <2>3, <3>2
  <2>4. \A v \in Versions : part'[v] # NoFile => part[v] # NoFile /\ ~ Owns(w, v)
      BY <1>4, <2>1 DEF Prune, At, Owns
  <2>5. \E r \in WinType : /\ r.pc = "idle" \/ (r.pc = "reuse" /\ r.version \in Versions)
                           /\ win' = [win EXCEPT ![w] = r]
    <3>1. Goto(w, "reuse") \/ Failed(w)
        BY <1>4 DEF Prune
    <3>. QED
        BY <1>0, <1>1, <1>2, <1>3, <1>4, <3>1 DEF Prune, At
  <2>6. /\ published' = published /\ crashed' = crashed
        /\ launched' \subseteq [version : Versions, file : SUBSET Blocks]
      BY <1>0, <1>4 DEF Prune
  <2>. QED
      BY <1>0, <2>2, <2>3, <2>4, <2>5, <2>6, WindowStep DEF Busy
<1>5. CASE Reuse(w)
    BY <1>0, <1>2, <1>3, <1>5, QuietStep DEF Reuse, At, cache, Busy
<1>6. CASE Unlink(w)
  <2>1. final' \in [Versions -> File]
      BY <1>0, <1>3, <1>6 DEF Unlink
  <2>. QED
      BY <1>0, <1>1, <1>2, <1>3, <1>6, <2>1, QuietStep DEF Unlink, At, Busy
<1>7. CASE Request(w)
  <2>1. CASE Goto(w, "discard") /\ UNCHANGED part
      BY <1>0, <1>2, <1>3, <1>7, <2>1, QuietStep DEF Request, At, Busy
  <2>2. CASE part' = [part EXCEPT ![Version(w)] = {}]
             /\ win' = [win EXCEPT ![w].pc = "write", ![w].received = 0]
    <3>. DEFINE r == [win[w] EXCEPT !.pc = "write", !.received = 0]
    <3>0. 0 \in 0 .. Length
        BY UpdaterConstants
    <3>1. r \in WinType /\ r.pc = "write" /\ r.version = Version(w) /\ win' = [win EXCEPT ![w] = r]
        BY <1>0, <1>3, <2>2, <3>0 DEF WinType, Version
    <3>2. Version(w) \in Versions
        BY <1>0, <1>7 DEF Request, At
    <3>3. /\ part' \in [Versions -> File] /\ part'[Version(w)] = {}
          /\ \A v \in Versions \ {Version(w)} : part'[v] = part[v]
        BY <1>0, <1>3, <2>2, <3>2
    <3>4. \A u \in Windows \ {w} : At(u, "write") => part'[Version(u)] \in SUBSET Blocks
        BY <1>0, <1>3, <3>3
    <3>5. \A v \in Versions : part'[v] # NoFile =>
             r.version = v \/ (part[v] # NoFile /\ ~ Owns(w, v))
        BY <3>1, <3>3 DEF Owns, Version
    <3>6. /\ published' = published /\ crashed' = crashed /\ final' = final
          /\ launched' \subseteq [version : Versions, file : SUBSET Blocks]
        BY <1>0, <1>7 DEF Request
    <3>7. r.version \in Versions /\ part'[r.version] \in SUBSET Blocks
        BY <1>3, <3>1, <3>2, <3>3
    <3>. HIDE DEF r
    <3>. QED
        BY <1>0, <3>1, <3>3, <3>4, <3>5, <3>6, <3>7, WindowStep
  <2>. QED
      BY <2>1, <2>2, <1>7 DEF Request
<1>8. CASE WriteBlock(w)
  <2>. DEFINE r == [win[w] EXCEPT !.received = @ + 1]
  <2>1. r \in WinType /\ r.pc = "write" /\ r.version = Version(w) /\ win' = [win EXCEPT ![w] = r]
        /\ r.received \in Blocks /\ win'[w].received = r.received
      BY <1>0, <1>8, UpdaterConstants DEF WriteBlock, At, WinType, Version, Blocks
  <2>2. part' = [part EXCEPT ![Version(w)] = @ \cup {r.received}]
      BY <1>8, <2>1 DEF WriteBlock
  <2>3. Version(w) \in Versions /\ part[Version(w)] \in SUBSET Blocks
      BY <1>0, <1>8 DEF WriteBlock, At
  <2>4. part' \in [Versions -> File] /\ part'[Version(w)] \in SUBSET Blocks
        /\ \A v \in Versions \ {Version(w)} : part'[v] = part[v]
      BY <1>0, <2>1, <2>2, <2>3 DEF File
  <2>5. \A u \in Windows \ {w} : At(u, "write") => part'[Version(u)] \in SUBSET Blocks
      BY <1>0, <2>4, <2>2
  <2>6. \A v \in Versions : part'[v] # NoFile =>
           \/ r.version = v
           \/ part[v] # NoFile /\ ~ Owns(w, v)
      BY <2>1, <2>4 DEF Owns, Version
  <2>7. /\ published' = published /\ crashed' = crashed /\ final' = final
        /\ launched' \subseteq [version : Versions, file : SUBSET Blocks]
      BY <1>0, <1>8 DEF WriteBlock
  <2>. QED
      BY <1>0, <2>1, <2>3, <2>4, <2>5, <2>6, <2>7, WindowStep
<1>9. CASE CloseFile(w)
    BY <1>0, <1>2, <1>3, <1>9, QuietStep DEF CloseFile, At, Busy, cache
<1>10. CASE Replace(w)
  <2>1. CASE Goto(w, "discard") /\ UNCHANGED cache
      BY <1>0, <1>2, <1>3, <1>10, <2>1, QuietStep DEF Replace, At, Busy, cache
  <2>2. CASE /\ ~ HeldByOther(w, Version(w)) /\ Goto(w, "verify")
             /\ part' = [part EXCEPT ![Version(w)] = NoFile]
             /\ final' = [final EXCEPT ![Version(w)] = part[Version(w)]]
    <3>1. Version(w) \in Versions
        BY <1>0, <1>10 DEF Replace, At
    <3>2. /\ part' \in [Versions -> File] /\ final' \in [Versions -> File]
          /\ part'[Version(w)] = NoFile
          /\ \A v \in Versions \ {Version(w)} : part'[v] = part[v]
        BY <1>0, <1>3, <2>2, <3>1
    <3>3. \A u \in Windows \ {w} : At(u, "write") => part'[Version(u)] \in SUBSET Blocks
        BY <1>0, <2>2, <3>2 DEF HeldByOther
    <3>4. \A v \in Versions : part'[v] # NoFile => part[v] # NoFile /\ ~ Owns(w, v)
        BY <3>2 DEF Owns, Version
    <3>5. /\ published' = published /\ crashed' = crashed
          /\ launched' \subseteq [version : Versions, file : SUBSET Blocks]
        BY <1>0, <1>10 DEF Replace
    <3>6. at("verify") \in WinType /\ at("verify").pc = "verify" /\ at("verify").version \in Versions
          /\ win' = [win EXCEPT ![w] = at("verify")]
        BY <1>2, <1>3, <2>2, <3>1
    <3>. QED
        BY <1>0, <3>2, <3>3, <3>4, <3>5, <3>6, WindowStep
  <2>. QED
      BY <1>10, <2>1, <2>2 DEF Replace
<1>11. CASE Discard(w)
  <2>1. win' = [win EXCEPT ![w] = given]
      BY <1>1, <1>11 DEF Discard
  <2>2. Version(w) \in Versions
      BY <1>0, <1>11 DEF Discard, At
  <2>3. /\ published' = published /\ crashed' = crashed /\ final' = final
        /\ launched' \subseteq [version : Versions, file : SUBSET Blocks]
      BY <1>0, <1>11 DEF Discard
  <2>4. CASE HeldByOther(w, Version(w))
    <3>1. part' = part
        BY <1>11, <2>4 DEF Discard
    <3>2. \A v \in Versions : part'[v] # NoFile =>
             \/ part[v] # NoFile /\ ~ Owns(w, v)
             \/ \E u \in Windows \ {w} : Owns(u, v)
        BY <2>4, <3>1 DEF HeldByOther, Owns, At, Version
    <3>. QED
        BY <1>0, <1>1, <2>1, <2>3, <3>1, <3>2, WindowStep DEF Busy
  <2>5. CASE ~ HeldByOther(w, Version(w))
    <3>1. part' = [part EXCEPT ![Version(w)] = NoFile]
        BY <1>11, <2>5 DEF Discard
    <3>2. /\ part' \in [Versions -> File] /\ part'[Version(w)] = NoFile
          /\ \A v \in Versions \ {Version(w)} : part'[v] = part[v]
        BY <1>0, <1>3, <2>2, <3>1
    <3>3. \A u \in Windows \ {w} : At(u, "write") => part'[Version(u)] \in SUBSET Blocks
        BY <1>0, <2>5, <3>1, <3>2 DEF HeldByOther
    <3>4. \A v \in Versions : part'[v] # NoFile => part[v] # NoFile /\ ~ Owns(w, v)
        BY <3>2 DEF Owns, Version
    <3>. QED
        BY <1>0, <1>1, <2>1, <2>3, <3>2, <3>3, <3>4, WindowStep DEF Busy
  <2>. QED
      BY <2>4, <2>5
<1>12. CASE Verify(w)
    BY <1>0, <1>1, <1>2, <1>3, <1>12, QuietStep DEF Verify, At, Busy, cache
<1>13. CASE Prepared(w)
  <2>. DEFINE r == [win[w] EXCEPT !.pc = "idle", !.received = 0, !.prepared = Version(w)]
  <2>0. 0 \in 0 .. Length /\ win[w].version \in Versions
      BY <1>0, <1>13, UpdaterConstants DEF Prepared, At, Version
  <2>1. r \in WinType /\ r.pc = "idle" /\ win' = [win EXCEPT ![w] = r]
      BY <1>0, <1>3, <1>13, <2>0 DEF Prepared, Version, WinType
  <2>. QED
      BY <1>0, <1>13, <2>1, QuietStep DEF Prepared, At, Busy, cache
<1>14. CASE Distrust(w)
  <2>1. final' \in [Versions -> File]
      BY <1>0, <1>3, <1>14 DEF Distrust
  <2>. QED
      BY <1>0, <1>1, <1>14, <2>1, QuietStep DEF Distrust, At, Busy
<1>15. CASE Start(w)
  <2>. DEFINE v == win[w].prepared
  <2>1. v \in Versions
      BY <1>15 DEF Start, At, UInv, Held
  <2>2. CASE final[v] = NoFile
      BY <1>0, <1>2, <1>3, <1>15, <2>2, QuietStep DEF Start, At, Busy, cache
  <2>3. CASE final[v] # NoFile
    <3>1. launched' = launched \cup {[version |-> v, file |-> final[v]]} /\ win' = [win EXCEPT ![w] = Off]
        BY <1>15, <2>3 DEF Start
    <3>2. launched' \subseteq [version : Versions, file : SUBSET Blocks]
        BY <1>0, <2>1, <2>3, <3>1 DEF File
    <3>3. Off.pc = "off" /\ Off \in WinType
        BY OffType DEF Off
    <3>. QED
        BY <1>0, <1>15, <3>1, <3>2, <3>3, QuietStep DEF Start, At, Busy, cache
  <2>. QED
      BY <2>2, <2>3
<1>. QED
    BY <1>4, <1>5, <1>6, <1>7, <1>8, <1>9, <1>10, <1>11, <1>12, <1>13, <1>14, <1>15 DEF Step

LEMMA UserKeeps ==
    ASSUME UInv, NEW w \in Windows,
           Open(w) \/ Check(w) \/ Download(w) \/ Launch(w) \/ Quit(w)
    PROVE  UInv'
<1>. DEFINE at(pc) == [win[w] EXCEPT !.pc = pc]
<1>0. /\ win \in [Windows -> WinType] /\ win[w] \in WinType /\ published \in Versions
      /\ part \in [Versions -> File] /\ final \in [Versions -> File]
      /\ launched \subseteq [version : Versions, file : SUBSET Blocks] /\ crashed \in BOOLEAN
    BY DEF UInv, TypeOK, WinType
<1>1. \A pc \in PCs : /\ at(pc) \in WinType /\ at(pc).pc = pc /\ at(pc).version = Version(w)
                      /\ at(pc).prepared = win[w].prepared
                      /\ Goto(w, pc) => win' = [win EXCEPT ![w] = at(pc)]
    BY GotoType
<1>2. {"off", "idle", "prune", "launch"} \subseteq PCs
    BY DEF PCs
<1>. HIDE DEF at
<1>3. CASE Open(w)
    BY <1>0, <1>1, <1>2, <1>3, QuietStep DEF Open, At, Busy, cache
<1>4. CASE Check(w)
  <2>. DEFINE r == [win[w] EXCEPT !.version = published]
  <2>1. r \in WinType /\ r.pc = "idle" /\ win' = [win EXCEPT ![w] = r]
      BY <1>0, <1>4 DEF Check, At, WinType
  <2>. QED
      BY <1>0, <1>4, <2>1, QuietStep DEF Check, At, Busy, cache
<1>5. CASE Download(w)
  <2>1. Version(w) \in Versions
      BY <1>0, <1>5 DEF Download, Version, WinType
  <2>. QED
      BY <1>0, <1>1, <1>2, <1>5, <2>1, QuietStep DEF Download, At, Busy, cache
<1>6. CASE Launch(w)
  <2>1. win[w].prepared \in Versions
      BY <1>0, <1>6 DEF Launch, WinType
  <2>. QED
      BY <1>0, <1>1, <1>2, <1>6, <2>1, QuietStep DEF Launch, At, Busy, cache
<1>7. CASE Quit(w)
  <2>1. Off.pc = "off" /\ Off \in WinType
      BY OffType DEF Off
  <2>. QED
      BY <1>0, <1>7, <2>1, QuietStep DEF Quit, At, Busy, cache
<1>. QED
    BY <1>3, <1>4, <1>5, <1>6, <1>7

LEMMA InitHolds == Init => UInv
<1>. SUFFICES ASSUME Init PROVE UInv
    OBVIOUS
<1>1. TypeOK
    BY OffType DEF Init, TypeOK, File, WinType
<1>2. \A w \in Windows : win[w].pc = "off"
    BY DEF Init, Off
<1>. QED
    BY <1>1, <1>2 DEF UInv, Held, Owned, Init, At, Busy

LEMMA NextKeeps == UInv /\ [Next]_vars => UInv'
<1>. SUFFICES ASSUME UInv, [Next]_vars PROVE UInv'
    OBVIOUS
<1>1. ASSUME UNCHANGED <<part, final, win, launched, crashed>>, published' \in Versions
      PROVE  UInv'
  <2>1. TypeOK'
      BY <1>1 DEF UInv, TypeOK
  <2>2. \A w \in Windows : Held(w)'
      BY <1>1 DEF UInv, Held, At, Version
  <2>3. Owned'
      BY <1>1 DEF UInv, Owned, Owns
  <2>. QED
      BY <2>1, <2>2, <2>3 DEF UInv
<1>2. CASE \E v \in Versions : Publish(v)
    BY <1>1, <1>2 DEF Publish, cache
<1>3. CASE UNCHANGED vars
    BY <1>1, <1>3 DEF vars, UInv, TypeOK
<1>. QED
    BY <1>2, <1>3, StepKeeps, UserKeeps DEF Next

LEMMA Always == Spec => []UInv
BY InitHolds, NextKeeps, PTL DEF Spec

(* The state of Updater is well typed (updater.py, the cache and tasks).  *)
THEOREM TypeCorrect == Spec => []TypeOK
<1>1. UInv => TypeOK
    BY DEF UInv
<1>. QED
    BY <1>1, Always, PTL

(* A download that failed leaves nothing: when no task runs and no window *)
(* died in one, there is no partial file, though a window cannot remove   *)
(* one that another writes (download_installer, its except clauses).      *)
THEOREM NothingIsLeft == Spec => []NoLeftovers
<1>1. UInv => NoLeftovers
  <2>. SUFFICES ASSUME UInv, \A w \in Windows : win[w].pc \in {"off", "idle"}, ~ crashed,
                       NEW v \in Versions
                PROVE  part[v] = NoFile
      BY DEF NoLeftovers
  <2>. QED
      BY DEF UInv, Owned, Owns
<1>. QED
    BY <1>1, Always, PTL

-----------------------------------------------------------------------------
(***************************************************************************)
(* What starts is a whole installer because a window that holds a verified *)
(* version is not downloading it: a single other one writes its partial    *)
(* file alone, and moves into place what it hashed.  This breaks where two *)
(* windows download a version at once that a third downloads too, or holds *)
(* as verified (Crowded).                                                  *)
(***************************************************************************)

\* a step of a window: on its way to replace the installer; verified and not yet started
Fetching(r, v) == r.pc \in {"unlink", "request", "write", "replace"} /\ r.version = v
Holding(r, v) ==
    \/ r.pc \in {"off", "idle", "launch"} /\ r.prepared = v
    \/ r.pc = "prepared" /\ r.version = v

\* two windows are downloading a version that a third is downloading or holds
Crowded ==
    \E v \in Versions : \E a, b, c \in Windows :
        /\ a # b /\ b # c /\ a # c
        /\ Fetching(win[a], v) /\ Fetching(win[b], v)
        /\ Fetching(win[c], v) \/ Holding(win[c], v)

\* There is no crowd of fewer than three windows.
LEMMA TwoAreNoCrowd ==
    ASSUME \A a, b, c \in Windows : a = b \/ b = c \/ a = c
    PROVE  ~ Crowded
BY DEF Crowded

\* What a window holds verified is signed, and nothing torn is in its place.
HeldWhole ==
    \A w \in Windows, v \in Versions : Holding(win[w], v) => v \in Trusted /\ final[v] \in {NoFile, Blocks}

\* the partial file of `v` is exactly what the window `r` is the state of has received
Alone(r, v) ==
    /\ r.pc = "write" /\ r.version = v => part[v] = 1 .. r.received
    /\ r.pc = "replace" /\ r.version = v => part[v] \in {NoFile, Blocks}

\* When the installer of `v` is whole, or a window holds it, any other is alone.
Apart ==
    \A a, b \in Windows, v \in Versions : a # b =>
        /\ final[v] = Blocks => ~ (Fetching(win[a], v) /\ Fetching(win[b], v))
        /\ final[v] = Blocks \/ Holding(win[b], v) => Alone(win[a], v)

PInv == HeldWhole /\ Apart

(* `r` is the state one window moves to, `u` another window.              *)
Fits(r, u, v) ==
    /\ Holding(win[u], v) => final'[v] \in {NoFile, Blocks}
    /\ final'[v] = Blocks => ~ (Fetching(r, v) /\ Fetching(win[u], v))
    /\ final'[v] = Blocks \/ Holding(win[u], v) =>
          /\ r.pc = "write" /\ r.version = v => part'[v] = 1 .. r.received
          /\ r.pc = "replace" /\ r.version = v => part'[v] \in {NoFile, Blocks}
    /\ final'[v] = Blocks \/ Holding(r, v) =>
          /\ win[u].pc = "write" /\ win[u].version = v => part'[v] = 1 .. win[u].received
          /\ win[u].pc = "replace" /\ win[u].version = v => part'[v] \in {NoFile, Blocks}

\* what a step of `w` may do to the files of `v`: to the partial file, when it downloads `v`
\* or removes one nobody writes; to the installer, when it removes it or replaces it
Touches(w, v) ==
    /\ \/ part'[v] = part[v]
       \/ part'[v] = NoFile /\ ~ HeldByOther(w, v)
       \/ Fetching(win[w], v)
    /\ \/ final'[v] \in {final[v], NoFile}
       \/ Fetching(win[w], v) /\ part'[v] = NoFile /\ ~ HeldByOther(w, v)

\* Two windows that take no part in a step stay apart.
LEMMA Bystanders ==
    ASSUME ~ Crowded, UInv, PInv, NEW w \in Windows, NEW a \in Windows \ {w}, NEW b \in Windows \ {w},
           a # b, win'[a] = win[a], win'[b] = win[b], NEW v \in Versions, Touches(w, v)
    PROVE  /\ final'[v] = Blocks => ~ (Fetching(win'[a], v) /\ Fetching(win'[b], v))
           /\ final'[v] = Blocks \/ Holding(win'[b], v) => Alone(win[a], v)'
<1>1. NoFile # Blocks
    BY UpdaterConstants DEF Blocks
<1>2. ASSUME final'[v] = Blocks, Fetching(win[a], v), Fetching(win[b], v)
      PROVE  FALSE
  <2>1. final[v] # Blocks
      BY <1>2 DEF PInv, Apart
  <2>2. Fetching(win[w], v)
      BY <1>1, <1>2, <2>1 DEF Touches
  <2>. QED
      BY <1>2, <2>2 DEF Crowded
<1>3. ASSUME final'[v] = Blocks \/ Holding(win[b], v), Fetching(win[a], v)
      PROVE  /\ win[a].pc = "write" => part'[v] = 1 .. win[a].received
             /\ win[a].pc = "replace" => part'[v] \in {NoFile, Blocks}
  <2>1. win[a].version = v /\ (win[a].pc = "write" => HeldByOther(w, v))
      BY <1>3 DEF Fetching, HeldByOther, At, Version
  <2>2. CASE part'[v] = NoFile /\ ~ HeldByOther(w, v)
      BY <2>1, <2>2
  <2>3. CASE ~ (part'[v] = NoFile /\ ~ HeldByOther(w, v))
    <3>1. final[v] = Blocks \/ Holding(win[b], v)
        BY <1>1, <1>3, <2>3 DEF Touches
    <3>2. ~ Fetching(win[w], v)
        BY <1>3, <3>1 DEF PInv, Apart, Crowded
    <3>3. Alone(win[a], v)
        BY <3>1 DEF PInv, Apart
    <3>. QED
        BY <2>1, <2>3, <3>2, <3>3 DEF Touches, Alone
  <2>. QED
      BY <2>2, <2>3
<1>. QED
    BY <1>2, <1>3 DEF Alone, Fetching

LEMMA PairStep ==
    ASSUME ~ Crowded, UInv, PInv, NEW w \in Windows, NEW r, win' = [win EXCEPT ![w] = r],
           \A v \in Versions : Touches(w, v),
           \A v \in Versions : Holding(r, v) => v \in Trusted /\ final'[v] \in {NoFile, Blocks},
           \A u \in Windows \ {w}, v \in Versions : Fits(r, u, v)
    PROVE  PInv'
<1>1. win'[w] = r /\ \A u \in Windows \ {w} : win'[u] = win[u]
    BY DEF UInv, TypeOK
<1>2. HeldWhole'
  <2>1. ASSUME NEW u \in Windows, NEW v \in Versions, Holding(win'[u], v)
        PROVE  v \in Trusted /\ final'[v] \in {NoFile, Blocks}
      BY <1>1, <2>1 DEF PInv, HeldWhole, Fits
  <2>. QED
      BY <2>1 DEF HeldWhole
<1>3. ASSUME NEW a \in Windows, NEW b \in Windows, NEW v \in Versions, a # b
      PROVE  /\ final'[v] = Blocks => ~ (Fetching(win'[a], v) /\ Fetching(win'[b], v))
             /\ final'[v] = Blocks \/ Holding(win'[b], v) => Alone(win[a], v)'
  <2>1. CASE a = w
      BY <1>1, <1>3, <2>1 DEF Alone, Fits
  <2>2. CASE b = w
      BY <1>1, <1>3, <2>2 DEF Alone, Fits
  <2>3. CASE a # w /\ b # w
      BY <1>1, <1>3, <2>3, Bystanders
  <2>. QED
      BY <2>1, <2>2, <2>3
<1>4. Apart'
    BY <1>3 DEF Apart
<1>. QED
    BY <1>2, <1>4 DEF PInv

(* A window moves on, and files may go, but not from under a writer.      *)
LEMMA PairQuiet ==
    ASSUME ~ Crowded, UInv, PInv, NEW w \in Windows, NEW r, win' = [win EXCEPT ![w] = r],
           r.pc # "write",
           r.pc = "replace" => /\ win[w].pc = "write" /\ win[w].received = Length
                               /\ r.version = win[w].version /\ part' = part,
           \A v \in Versions : part'[v] = part[v] \/ (part'[v] = NoFile /\ ~ HeldByOther(w, v)),
           \A v \in Versions : final'[v] \in {final[v], NoFile},
           \A v \in Versions : Fetching(r, v) => Fetching(win[w], v) \/ final'[v] # Blocks,
           \A v \in Versions : Holding(r, v) => Holding(win[w], v) \/ (final[v] = Blocks /\ v \in Trusted)
    PROVE  PInv'
<1>0. NoFile # Blocks
    BY UpdaterConstants DEF Blocks
<1>1. \A v \in Versions : Holding(r, v) => v \in Trusted /\ final'[v] \in {NoFile, Blocks}
    BY DEF PInv, HeldWhole
<1>2. ASSUME NEW u \in Windows \ {w}, NEW v \in Versions
      PROVE  Fits(r, u, v)
  <2>0. final'[v] = Blocks => final[v] = Blocks
      BY <1>0
  <2>1. Holding(win[u], v) => final'[v] \in {NoFile, Blocks}
      BY DEF PInv, HeldWhole
  <2>2. final'[v] = Blocks => ~ (Fetching(r, v) /\ Fetching(win[u], v))
      BY <2>0 DEF PInv, Apart
  <2>3. ASSUME final'[v] = Blocks \/ Holding(win[u], v), r.pc = "replace", r.version = v
        PROVE  part'[v] \in {NoFile, Blocks}
    <3>1. Alone(win[w], v)
        BY <2>0, <2>3 DEF PInv, Apart
    <3>. QED
        BY <2>3, <3>1 DEF Alone, Blocks
  <2>4. ASSUME final'[v] = Blocks \/ Holding(r, v)
        PROVE  /\ win[u].pc = "write" /\ win[u].version = v => part'[v] = 1 .. win[u].received
               /\ win[u].pc = "replace" /\ win[u].version = v => part'[v] \in {NoFile, Blocks}
    <3>1. Alone(win[u], v)
        BY <2>0, <2>4 DEF PInv, Apart
    <3>2. win[u].pc = "write" /\ win[u].version = v => part'[v] = part[v]
        BY DEF HeldByOther, At, Version
    <3>. QED
        BY <3>1, <3>2 DEF Alone
  <2>. QED
      BY <2>1, <2>2, <2>3, <2>4 DEF Fits
<1>3. \A v \in Versions : Touches(w, v)
    BY DEF Touches
<1>. QED
    BY <1>1, <1>2, <1>3, PairStep

\* what the windows and files are, and what a window in a task works on
LEMMA Typed ==
    ASSUME UInv
    PROVE  /\ win \in [Windows -> WinType] /\ part \in [Versions -> File] /\ final \in [Versions -> File]
           /\ \A w \in Windows : win[w].pc \in Busy => Version(w) \in Versions
           /\ \A w \in Windows : win[w].pc = "idle" => Version(w) \in Versions \cup {NoVersion}
           /\ \A w \in Windows : At(w, "launch") => win[w].prepared \in Versions
BY DEF UInv, TypeOK, WinType, Held, Version

LEMMA RequestApart ==
    ASSUME ~ Crowded, UInv, PInv, NEW w \in Windows, Request(w)
    PROVE  PInv'
<1>1. win[w].pc = "request" /\ Version(w) \in Versions /\ final' = final
    BY Typed DEF Request, At, Busy, PCs
<1>2. CASE Goto(w, "discard") /\ UNCHANGED part
  <2>. DEFINE r == [win[w] EXCEPT !.pc = "discard"]
  <2>1. r.pc = "discard" /\ win' = [win EXCEPT ![w] = r]
      BY <1>2, Typed DEF Goto, WinType
  <2>. HIDE DEF r
  <2>2. \A v \in Versions : ~ Fetching(r, v) /\ ~ Holding(r, v)
      BY <2>1 DEF Fetching, Holding
  <2>. QED
      BY <1>1, <1>2, <2>1, <2>2, PairQuiet
<1>3. CASE part' = [part EXCEPT ![Version(w)] = {}]
           /\ win' = [win EXCEPT ![w].pc = "write", ![w].received = 0]
  <2>. DEFINE r == [win[w] EXCEPT !.pc = "write", !.received = 0]
  <2>1. r.pc = "write" /\ r.received = 0 /\ r.version = Version(w) /\ win' = [win EXCEPT ![w] = r]
      BY <1>3, Typed DEF WinType, Version
  <2>. HIDE DEF r
  <2>2. part'[Version(w)] = {} /\ \A v \in Versions \ {Version(w)} : part'[v] = part[v]
      BY <1>1, <1>3, Typed
  <2>3. 1 .. 0 = {}
      OBVIOUS
  <2>4. \A v \in Versions : ~ Holding(r, v) /\ (Fetching(r, v) <=> v = Version(w)) /\ (Fetching(win[w], v) <=> v = Version(w))
      BY <1>1, <2>1 DEF Fetching, Holding, Version
  <2>5. ASSUME NEW u \in Windows \ {w}, NEW v \in Versions, final[v] = Blocks
        PROVE  /\ win[u].pc = "write" /\ win[u].version = v => part'[v] = 1 .. win[u].received
               /\ win[u].pc = "replace" /\ win[u].version = v => part'[v] \in {NoFile, Blocks}
    <3>1. CASE v = Version(w)
      <4>1. ~ Fetching(win[u], v)
          BY <2>4, <2>5, <3>1 DEF PInv, Apart
      <4>. QED
          BY <4>1 DEF Fetching
    <3>2. CASE v # Version(w)
        BY <2>2, <2>5, <3>2 DEF PInv, Apart, Alone
    <3>. QED
        BY <3>1, <3>2
  <2>6. \A u \in Windows \ {w}, v \in Versions : Fits(r, u, v)
      BY <1>1, <2>1, <2>2, <2>3, <2>4, <2>5 DEF Fits, PInv, HeldWhole, Apart
  <2>7. \A v \in Versions : Touches(w, v)
      BY <1>1, <2>2, <2>4 DEF Touches
  <2>. QED
      BY <2>1, <2>4, <2>6, <2>7, PairStep
<1>. QED
    BY <1>2, <1>3 DEF Request

LEMMA WriteApart ==
    ASSUME ~ Crowded, UInv, PInv, NEW w \in Windows, WriteBlock(w)
    PROVE  PInv'
<1>. DEFINE r == [win[w] EXCEPT !.received = @ + 1]
<1>1. win[w].pc = "write" /\ Version(w) \in Versions /\ final' = final /\ win[w].received \in 0 .. Length
    BY Typed DEF WriteBlock, At, Busy, PCs, WinType
<1>2. r.pc = "write" /\ r.received = win[w].received + 1 /\ r.version = Version(w)
      /\ win' = [win EXCEPT ![w] = r] /\ win'[w] = r
    BY <1>1, Typed DEF WriteBlock, WinType, Version
<1>3. part' = [part EXCEPT ![Version(w)] = @ \cup {r.received}]
    BY <1>2 DEF WriteBlock
<1>. HIDE DEF r
<1>4. part'[Version(w)] = part[Version(w)] \cup {r.received}
      /\ \A v \in Versions \ {Version(w)} : part'[v] = part[v]
    BY <1>1, <1>3, Typed
<1>5. (1 .. win[w].received) \cup {r.received} = 1 .. r.received
    BY <1>1, <1>2, UpdaterConstants
<1>6. \A v \in Versions : ~ Holding(r, v) /\ (Fetching(r, v) <=> v = Version(w)) /\ (Fetching(win[w], v) <=> v = Version(w))
    BY <1>1, <1>2 DEF Fetching, Holding, Version
<1>7. ASSUME NEW u \in Windows \ {w}, NEW v \in Versions, final[v] = Blocks
      PROVE  /\ win[u].pc = "write" /\ win[u].version = v => part'[v] = 1 .. win[u].received
             /\ win[u].pc = "replace" /\ win[u].version = v => part'[v] \in {NoFile, Blocks}
  <2>1. CASE v = Version(w)
    <3>1. ~ Fetching(win[u], v)
        BY <1>6, <1>7, <2>1 DEF PInv, Apart
    <3>. QED
        BY <3>1 DEF Fetching
  <2>2. CASE v # Version(w)
      BY <1>4, <1>7, <2>2 DEF PInv, Apart, Alone
  <2>. QED
      BY <2>1, <2>2
<1>8. ASSUME NEW u \in Windows \ {w}, NEW v \in Versions, final[v] = Blocks \/ Holding(win[u], v), r.version = v
      PROVE  part'[v] = 1 .. r.received
  <2>1. part[v] = 1 .. win[w].received
      BY <1>1, <1>2, <1>8 DEF PInv, Apart, Alone, Version
  <2>. QED
      BY <1>2, <1>4, <1>5, <1>8, <2>1
<1>9. \A u \in Windows \ {w}, v \in Versions : Fits(r, u, v)
    BY <1>1, <1>2, <1>6, <1>7, <1>8 DEF Fits, PInv, HeldWhole, Apart
<1>10. \A v \in Versions : Touches(w, v)
    BY <1>1, <1>4, <1>6 DEF Touches
<1>. QED
    BY <1>2, <1>6, <1>9, <1>10, PairStep

LEMMA ReplaceApart ==
    ASSUME ~ Crowded, UInv, PInv, NEW w \in Windows, Replace(w)
    PROVE  PInv'
<1>. DEFINE at(pc) == [win[w] EXCEPT !.pc = pc]
            v == Version(w)
<1>1. win[w].pc = "replace" /\ v \in Versions /\ NoFile # Blocks
    BY Typed, UpdaterConstants DEF Replace, At, Busy, PCs, Blocks
<1>2. /\ at("discard").pc = "discard" /\ at("verify").pc = "verify"
      /\ \A pc \in {"discard", "verify"} : Goto(w, pc) => win' = [win EXCEPT ![w] = at(pc)]
    BY Typed DEF WinType, Goto
<1>. HIDE DEF at
<1>3. \A x \in Versions, pc \in {"discard", "verify"} : ~ Fetching(at(pc), x) /\ ~ Holding(at(pc), x)
    BY <1>2 DEF Fetching, Holding
<1>4. CASE Goto(w, "discard") /\ UNCHANGED cache
    BY <1>2, <1>3, <1>4, PairQuiet DEF cache
<1>5. CASE /\ ~ HeldByOther(w, v) /\ Goto(w, "verify") /\ part[v] # NoFile
           /\ part' = [part EXCEPT ![v] = NoFile] /\ final' = [final EXCEPT ![v] = part[v]]
  <2>1. /\ part'[v] = NoFile /\ final'[v] = part[v]
        /\ \A x \in Versions \ {v} : part'[x] = part[x] /\ final'[x] = final[x]
      BY <1>1, <1>5, Typed
  <2>2. ASSUME NEW u \in Windows \ {w}, NEW x \in Versions, Holding(win[u], x)
        PROVE  final'[x] \in {NoFile, Blocks}
    <3>1. CASE x = v
        BY <1>1, <2>1, <2>2, <3>1 DEF PInv, Apart, Alone, Version
    <3>2. CASE x # v
        BY <2>1, <2>2, <3>2 DEF PInv, HeldWhole
    <3>. QED
        BY <3>1, <3>2
  <2>3. ASSUME NEW u \in Windows \ {w}, NEW x \in Versions, final'[x] = Blocks
        PROVE  /\ win[u].pc = "write" /\ win[u].version = x => part'[x] = 1 .. win[u].received
               /\ win[u].pc = "replace" /\ win[u].version = x => part'[x] \in {NoFile, Blocks}
    <3>1. CASE x = v
        BY <1>5, <2>1, <3>1 DEF HeldByOther, At, Version
    <3>2. CASE x # v
        BY <2>1, <2>3, <3>2 DEF PInv, Apart, Alone
    <3>. QED
        BY <3>1, <3>2
  <2>4. at("verify").pc = "verify" /\ win' = [win EXCEPT ![w] = at("verify")]
      BY <1>2, <1>5
  <2>. HIDE DEF v
  <2>5. \A u \in Windows \ {w}, x \in Versions : Fits(at("verify"), u, x)
      BY <1>3, <2>2, <2>3, <2>4 DEF Fits
  <2>6. \A x \in Versions : Touches(w, x)
      BY <1>1, <1>5, <2>1 DEF Touches, Fetching, Version, v
  <2>. QED
      BY <1>3, <2>4, <2>5, <2>6, PairStep
<1>. QED
    BY <1>4, <1>5 DEF Replace

LEMMA OthersApart ==
    ASSUME ~ Crowded, UInv, PInv, NEW w \in Windows,
           \/ Prune(w) \/ Reuse(w) \/ Unlink(w) \/ CloseFile(w) \/ Discard(w) \/ Verify(w)
           \/ Prepared(w) \/ Distrust(w) \/ Start(w)
           \/ Open(w) \/ Check(w) \/ Download(w) \/ Launch(w) \/ Quit(w)
    PROVE  PInv'
<1>. DEFINE at(pc) == [win[w] EXCEPT !.pc = pc]
            given == [win[w] EXCEPT !.pc = "idle", !.received = 0, !.prepared = NoVersion]
<1>0. win \in [Windows -> WinType] /\ part \in [Versions -> File] /\ final \in [Versions -> File]
      /\ NoFile # Blocks /\ NoVersion \notin Versions
      /\ (win[w].pc \in Busy => Version(w) \in Versions)
    BY Typed, UpdaterConstants DEF Blocks
<1>1. \A pc \in PCs : /\ at(pc).pc = pc /\ at(pc).version = Version(w) /\ at(pc).prepared = win[w].prepared
                      /\ Goto(w, pc) => win' = [win EXCEPT ![w] = at(pc)]
    BY Typed DEF Goto, WinType, Version
<1>2. /\ given.pc = "idle" /\ given.prepared = NoVersion
      /\ Failed(w) => win' = [win EXCEPT ![w] = given]
    BY Typed DEF Failed, WinType
<1>. HIDE DEF at, given
<1>3. \A v \in Versions : ~ Fetching(given, v) /\ ~ Holding(given, v)
    BY <1>0, <1>2 DEF Fetching, Holding
<1>4. Off.pc = "off" /\ \A v \in Versions : ~ Fetching(Off, v) /\ ~ Holding(Off, v)
    BY UpdaterConstants DEF Off, Fetching, Holding
<1>5. CASE Prune(w)
  <2>1. /\ \A v \in Versions : part'[v] = part[v] \/ (part'[v] = NoFile /\ ~ HeldByOther(w, v))
        /\ \A v \in Versions : final'[v] \in {final[v], NoFile}
      BY <1>5 DEF Prune
  <2>2. CASE Goto(w, "reuse")
    <3>1. at("reuse").pc = "reuse" /\ win' = [win EXCEPT ![w] = at("reuse")]
        BY <1>1, <2>2 DEF PCs
    <3>2. \A v \in Versions : ~ Fetching(at("reuse"), v) /\ ~ Holding(at("reuse"), v)
        BY <3>1 DEF Fetching, Holding
    <3>. QED
        BY <2>1, <3>1, <3>2, PairQuiet
  <2>3. CASE Failed(w)
      BY <1>2, <1>3, <2>1, <2>3, PairQuiet
  <2>. QED
      BY <1>5, <2>2, <2>3 DEF Prune
<1>6. CASE Reuse(w)
  <2>1. PICK pc \in {"verify", "unlink", "request"} : /\ Goto(w, pc) /\ UNCHANGED cache
                                                      /\ pc # "verify" => final[Version(w)] # Blocks
      BY <1>6 DEF Reuse, Whole
  <2>2. pc \in PCs
      BY DEF PCs
  <2>3. at(pc).pc = pc /\ at(pc).version = Version(w) /\ win' = [win EXCEPT ![w] = at(pc)]
      BY <1>1, <2>1, <2>2
  <2>4. \A v \in Versions : ~ Holding(at(pc), v) /\ (Fetching(at(pc), v) => final[v] # Blocks)
      BY <2>1, <2>3 DEF Fetching, Holding
  <2>. QED
      BY <2>1, <2>3, <2>4, PairQuiet DEF cache
<1>7. CASE Unlink(w)
  <2>0. part' = part /\ win[w].pc = "unlink" /\ Version(w) \in Versions
      BY <1>0, <1>7 DEF Unlink, At, Busy, PCs
  <2>1. CASE Failed(w) /\ UNCHANGED final
      BY <1>2, <1>3, <2>0, <2>1, PairQuiet
  <2>2. CASE final' = [final EXCEPT ![Version(w)] = NoFile] /\ Goto(w, "request")
    <3>1. /\ at("request").pc = "request" /\ at("request").version = Version(w)
          /\ win' = [win EXCEPT ![w] = at("request")]
        BY <1>1, <2>2 DEF PCs
    <3>2. \A v \in Versions : ~ Holding(at("request"), v) /\ (Fetching(at("request"), v) => Fetching(win[w], v))
        BY <2>0, <3>1 DEF Fetching, Holding, Version
    <3>3. \A v \in Versions : final'[v] \in {final[v], NoFile}
        BY <1>0, <2>0, <2>2
    <3>. QED
        BY <2>0, <3>1, <3>2, <3>3, PairQuiet
  <2>. QED
      BY <1>7, <2>1, <2>2 DEF Unlink
<1>8. CASE CloseFile(w)
  <2>1. PICK pc \in {"replace", "discard"} : /\ Goto(w, pc) /\ UNCHANGED cache /\ win[w].pc = "write"
                                             /\ pc = "replace" => win[w].received = Length
      BY <1>8 DEF CloseFile, At
  <2>2. at(pc).pc = pc /\ at(pc).version = Version(w) /\ win' = [win EXCEPT ![w] = at(pc)]
      BY <1>1, <2>1 DEF PCs
  <2>3. \A v \in Versions : ~ Holding(at(pc), v) /\ (Fetching(at(pc), v) => Fetching(win[w], v))
      BY <2>1, <2>2 DEF Fetching, Holding, Version
  <2>. QED
      BY <2>1, <2>2, <2>3, PairQuiet DEF cache, Version
<1>9. CASE Discard(w)
  <2>0. Failed(w) /\ final' = final /\ Version(w) \in Versions
      BY <1>0, <1>9 DEF Discard, At, Busy, PCs
  <2>1. \A v \in Versions : part'[v] = part[v] \/ (part'[v] = NoFile /\ ~ HeldByOther(w, v))
      BY <1>0, <1>9, <2>0 DEF Discard
  <2>. QED
      BY <1>2, <1>3, <2>0, <2>1, PairQuiet
<1>10. CASE Verify(w)
  <2>0. UNCHANGED cache
      BY <1>10 DEF Verify
  <2>1. CASE Failed(w)
      BY <1>2, <1>3, <2>0, <2>1, PairQuiet DEF cache
  <2>2. CASE \E pc \in {"distrust", "prepared"} : Goto(w, pc) /\ (pc = "prepared" => Authentic(Version(w)))
    <3>1. PICK pc \in {"distrust", "prepared"} : Goto(w, pc) /\ (pc = "prepared" => Authentic(Version(w)))
        BY <2>2
    <3>2. at(pc).pc = pc /\ at(pc).version = Version(w) /\ win' = [win EXCEPT ![w] = at(pc)]
        BY <1>1, <3>1 DEF PCs
    <3>3. \A v \in Versions : ~ Fetching(at(pc), v) /\ (Holding(at(pc), v) => final[v] = Blocks /\ v \in Trusted)
        BY <3>1, <3>2 DEF Fetching, Holding, Authentic, Whole
    <3>. QED
        BY <2>0, <3>1, <3>2, <3>3, PairQuiet DEF cache
  <2>3. (\E pc \in {"distrust", "prepared"} : Goto(w, pc) /\ (pc = "prepared" => Authentic(Version(w)))) \/ Failed(w)
    <3>1. CASE Authentic(Version(w))
        BY <1>10, <3>1 DEF Verify
    <3>2. CASE ~ Authentic(Version(w))
        BY <1>10, <3>2 DEF Verify
    <3>. QED
        BY <3>1, <3>2
  <2>. QED
      BY <2>1, <2>2, <2>3
<1>11. CASE Prepared(w)
  <2>. DEFINE r == [win[w] EXCEPT !.pc = "idle", !.received = 0, !.prepared = Version(w)]
  <2>1. r.pc = "idle" /\ r.prepared = Version(w) /\ win' = [win EXCEPT ![w] = r] /\ UNCHANGED cache
        /\ win[w].pc = "prepared"
      BY <1>0, <1>11 DEF Prepared, WinType, At
  <2>. HIDE DEF r
  <2>2. \A v \in Versions : ~ Fetching(r, v) /\ (Holding(r, v) => Holding(win[w], v))
      BY <2>1 DEF Fetching, Holding, Version
  <2>. QED
      BY <2>1, <2>2, PairQuiet DEF cache
<1>12. CASE Distrust(w)
  <2>0. Failed(w) /\ part' = part /\ \A v \in Versions : final'[v] \in {final[v], NoFile}
      BY <1>0, <1>12 DEF Distrust, At, Busy, PCs
  <2>. QED
      BY <1>2, <1>3, <2>0, PairQuiet
<1>13. CASE Goto(w, "idle") /\ At(w, "launch") /\ UNCHANGED cache
  <2>1. at("idle").pc = "idle" /\ at("idle").prepared = win[w].prepared /\ win' = [win EXCEPT ![w] = at("idle")]
      BY <1>1, <1>13 DEF PCs
  <2>2. \A v \in Versions : ~ Fetching(at("idle"), v) /\ (Holding(at("idle"), v) => Holding(win[w], v))
      BY <1>13, <2>1 DEF Fetching, Holding, At
  <2>. QED
      BY <1>13, <2>1, <2>2, PairQuiet DEF cache
<1>14. CASE win' = [win EXCEPT ![w] = Off] /\ UNCHANGED cache
    BY <1>4, <1>14, PairQuiet DEF cache
<1>15. CASE Open(w)
  <2>1. /\ at("idle").pc = "idle" /\ at("idle").prepared = win[w].prepared /\ win' = [win EXCEPT ![w] = at("idle")]
        /\ UNCHANGED cache
      BY <1>1, <1>15 DEF PCs, Open
  <2>2. win[w].pc = "off"
      BY <1>15 DEF Open, At
  <2>3. \A v \in Versions : ~ Fetching(at("idle"), v) /\ (Holding(at("idle"), v) => Holding(win[w], v))
      BY <2>1, <2>2 DEF Fetching, Holding
  <2>. QED
      BY <2>1, <2>3, PairQuiet DEF cache
<1>16. CASE Check(w)
  <2>. DEFINE r == [win[w] EXCEPT !.version = published]
  <2>1. /\ r.pc = "idle" /\ r.prepared = win[w].prepared /\ win' = [win EXCEPT ![w] = r] /\ UNCHANGED cache
        /\ win[w].pc = "idle"
      BY <1>0, <1>16 DEF Check, WinType, At
  <2>. HIDE DEF r
  <2>2. \A v \in Versions : ~ Fetching(r, v) /\ (Holding(r, v) => Holding(win[w], v))
      BY <2>1 DEF Fetching, Holding
  <2>. QED
      BY <2>1, <2>2, PairQuiet DEF cache
<1>17. CASE Download(w)
  <2>1. at("prune").pc = "prune" /\ win' = [win EXCEPT ![w] = at("prune")] /\ UNCHANGED cache
      BY <1>1, <1>17 DEF PCs, Download
  <2>2. \A v \in Versions : ~ Fetching(at("prune"), v) /\ ~ Holding(at("prune"), v)
      BY <2>1 DEF Fetching, Holding
  <2>. QED
      BY <2>1, <2>2, PairQuiet DEF cache
<1>18. CASE Launch(w)
  <2>1. /\ at("launch").pc = "launch" /\ at("launch").prepared = win[w].prepared
        /\ win' = [win EXCEPT ![w] = at("launch")] /\ UNCHANGED cache /\ win[w].pc = "idle"
      BY <1>1, <1>18 DEF PCs, Launch, At
  <2>2. \A v \in Versions : ~ Fetching(at("launch"), v) /\ (Holding(at("launch"), v) => Holding(win[w], v))
      BY <2>1 DEF Fetching, Holding
  <2>. QED
      BY <2>1, <2>2, PairQuiet DEF cache
<1>19. CASE Start(w)
    BY <1>13, <1>14, <1>19 DEF Start
<1>20. CASE Quit(w)
    BY <1>14, <1>20 DEF Quit
<1>. QED
    BY <1>5, <1>6, <1>7, <1>8, <1>9, <1>10, <1>11, <1>12, <1>15, <1>16, <1>17, <1>18, <1>19, <1>20

LEMMA NextApart == ~ Crowded /\ UInv /\ PInv /\ [Next]_vars => PInv'
<1>. SUFFICES ASSUME ~ Crowded, UInv, PInv, [Next]_vars PROVE PInv'
    OBVIOUS
<1>1. CASE UNCHANGED <<part, final, win>>
    BY <1>1 DEF PInv, HeldWhole, Apart, Alone, Fetching, Holding
<1>2. ASSUME NEW w \in Windows, Step(w) \/ Open(w) \/ Check(w) \/ Download(w) \/ Launch(w) \/ Quit(w)
      PROVE  PInv'
    BY <1>2, RequestApart, WriteApart, ReplaceApart, OthersApart DEF Step
<1>3. (\E v \in Versions : Publish(v)) \/ UNCHANGED vars => UNCHANGED <<part, final, win>>
    BY DEF Publish, cache, vars
<1>. QED
    BY <1>1, <1>2, <1>3 DEF Next

(* A window that starts an installer holds it (Launch, Start).            *)
LEMMA StartedWhole == UInv /\ PInv /\ LaunchedIsTrusted /\ [Next]_vars => LaunchedIsTrusted'
<1>. SUFFICES ASSUME UInv, PInv, LaunchedIsTrusted, [Next]_vars PROVE LaunchedIsTrusted'
    OBVIOUS
<1>1. CASE launched' = launched
    BY <1>1 DEF LaunchedIsTrusted, Whole
<1>2. ASSUME NEW w \in Windows, Start(w) PROVE LaunchedIsTrusted'
  <2>. DEFINE v == win[w].prepared
  <2>1. Holding(win[w], v) /\ v \in Versions
      BY <1>2, Typed DEF Start, At, Holding
  <2>2. v \in Trusted /\ final[v] \in {NoFile, Blocks}
      BY <2>1 DEF PInv, HeldWhole
  <2>3. launched' = launched \/ (final[v] # NoFile /\ launched' = launched \cup {[version |-> v, file |-> final[v]]})
      BY <1>2 DEF Start
  <2>. HIDE DEF v
  <2>. QED
      BY <2>2, <2>3 DEF LaunchedIsTrusted, Whole
<1>3. launched' = launched \/ \E w \in Windows : Start(w)
    BY DEF Next, Step, Prune, Reuse, Unlink, Request, WriteBlock, CloseFile, Replace, Discard, Verify,
           Prepared, Distrust, Open, Check, Download, Launch, Quit, Publish, cache, vars
<1>. QED
    BY <1>1, <1>2, <1>3

LEMMA InitApart == Init => PInv /\ LaunchedIsTrusted
BY UpdaterConstants DEF Init, Off, PInv, HeldWhole, Apart, Alone, Fetching, Holding, LaunchedIsTrusted, Blocks

(* As long as no two windows are downloading the very version that a      *)
(* third one downloads or holds as verified, what starts is a whole        *)
(* installer the publisher signed, whatever windows download, publish,     *)
(* prune and crash in, for any number of windows, versions and blocks      *)
(* (launch_prepared_update).                                               *)
THEOREM UncrowdedStartWhole == Spec /\ [](~ Crowded) => []LaunchedIsTrusted
<1>1. ~ Crowded /\ UInv /\ PInv /\ [Next]_vars => PInv'
    BY NextApart
<1>. QED
    BY <1>1, Always, InitApart, StartedWhole, PTL DEF Spec

(* And a window at rest keeps what it verified: no other one's download   *)
(* leaves a torn file behind that name (os.replace).                       *)
THEOREM UncrowdedKeepWhole == Spec /\ [](~ Crowded) => []PreparedStaysWhole
<1>1. ~ Crowded /\ UInv /\ PInv /\ [Next]_vars => PInv'
    BY NextApart
<1>2. UInv /\ PInv => PreparedStaysWhole
  <2>1. ASSUME UInv, PInv, NEW w \in Windows, At(w, "idle"), win[w].prepared # NoVersion
        PROVE  final[win[w].prepared] \in {NoFile, Blocks}
    <3>1. win[w].prepared \in Versions
        BY <2>1, Typed DEF WinType
    <3>. QED
        BY <2>1, <3>1 DEF PInv, HeldWhole, Holding, At
  <2>. QED
      BY <2>1 DEF PreparedStaysWhole
<1>. QED
    BY <1>1, <1>2, Always, InitApart, PTL DEF Spec
=============================================================================
