------------------------------- MODULE Updater -------------------------------
(***************************************************************************)
(* Update downloads (src/relic_auditor/updater.py): windows of one user    *)
(* that prepare and launch installers over one cache directory.            *)
(*                                                                         *)
(* A step is what happens between two uses of the cache: the final file    *)
(* and the `.part` of a version.  The rules of the file system are         *)
(* Windows', where updates run: a file that another process holds open may *)
(* be opened and truncated again, and neither moved nor deleted.  Abstract:*)
(* an installer is a sequence of Blocks, a file the set of blocks that are *)
(* right in it, so that a hole left by a truncation is a missing block;    *)
(* publishing, the network and Authenticode are external.                  *)
(***************************************************************************)
EXTENDS Integers, FiniteSets

CONSTANTS Windows,   \* desktop processes
          Versions,  \* newer versions whose signed manifest may be published
          Trusted,   \* those whose installer the pinned publisher signed
          Length,    \* blocks of an installer
          NoFile,    \* what is at a path where no file is
          NoVersion

ASSUME UpdaterConstants ==
    /\ Trusted \subseteq Versions
    /\ Length \in Nat \ {0}
    /\ NoVersion \notin Versions
    /\ \A file \in SUBSET (1 .. Length) : file # NoFile

Blocks == 1 .. Length
File == {NoFile} \cup SUBSET Blocks

VARIABLES published, \* the version of the stable manifest
          part,      \* per version, its file `.part`
          final,     \* per version, its installer in the cache
          win,       \* per window: its step, the manifest it found, blocks received,
                     \* the version it holds verified
          launched,  \* installers started: the version asked for and the file's blocks
          crashed    \* whether a window ever died in the middle of a task

vars == <<published, part, final, win, launched, crashed>>
cache == <<part, final>>

Off == [pc |-> "off", version |-> NoVersion, received |-> 0, prepared |-> NoVersion]

Init ==
    /\ published \in Versions
    /\ part = [v \in Versions |-> NoFile]
    /\ final = [v \in Versions |-> NoFile]
    /\ win = [w \in Windows |-> Off]
    /\ launched = {}
    /\ crashed = FALSE

At(w, pc) == win[w].pc = pc
Goto(w, pc) == win' = [win EXCEPT ![w].pc = pc]
Version(w) == win[w].version

\* the handle is open between `open("wb")` and the end of the with block
HeldByOther(w, v) == \E u \in Windows \ {w} : At(u, "write") /\ Version(u) = v

\* size and SHA-256 of a file against the manifest
Whole(file) == file = Blocks
\* Windows' verdict: a complete file, signed by the pinned publisher
Authentic(v) == Whole(final[v]) /\ v \in Trusted

\* An exception ends prepare_update, and the window forgets what it had prepared.
Failed(w) == win' = [win EXCEPT ![w].pc = "idle", ![w].received = 0, ![w].prepared = NoVersion]

-----------------------------------------------------------------------------
Publish(v) ==
    /\ published' = v
    /\ UNCHANGED <<cache, win, launched, crashed>>

Open(w) ==
    /\ At(w, "off")
    /\ Goto(w, "idle")
    /\ UNCHANGED <<published, cache, launched, crashed>>

\* fetch_update_manifest succeeded and the user asks for the download
Check(w) ==
    /\ At(w, "idle")
    /\ win' = [win EXCEPT ![w].version = published]
    /\ UNCHANGED <<published, cache, launched, crashed>>

Download(w) ==
    /\ At(w, "idle") /\ Version(w) # NoVersion
    /\ Goto(w, "prune")
    /\ UNCHANGED <<published, cache, launched, crashed>>

(***************************************************************************)
(* _remove_superseded_installers: every other version's files go, unless   *)
(* one of them is held, which raises after some were removed.              *)
(***************************************************************************)
Prune(w) ==
    /\ At(w, "prune")
    /\ LET others == Versions \ {Version(w)}
           held   == {v \in others : HeldByOther(w, v)}
       IN  \/ /\ held = {}
              /\ part' = [v \in Versions |-> IF v \in others THEN NoFile ELSE part[v]]
              /\ final' = [v \in Versions |-> IF v \in others THEN NoFile ELSE final[v]]
              /\ Goto(w, "reuse")
           \/ /\ held # {}
              /\ \E p \in SUBSET (others \ held), f \in SUBSET others :
                    /\ part' = [v \in Versions |-> IF v \in p THEN NoFile ELSE part[v]]
                    /\ final' = [v \in Versions |-> IF v \in f THEN NoFile ELSE final[v]]
              /\ Failed(w)
    /\ UNCHANGED <<published, launched, crashed>>

\* Mutant: a file that is there is taken for the installer, whatever is in it.
ReuseAnything(w) ==
    /\ At(w, "reuse")
    /\ Goto(w, IF final[Version(w)] # NoFile THEN "prepared" ELSE "request")
    /\ UNCHANGED <<published, cache, launched, crashed>>

\* download_installer: a whole installer is reused, any other is removed
Reuse(w) ==
    /\ At(w, "reuse")
    /\ Goto(w, IF Whole(final[Version(w)]) THEN "verify"
               ELSE IF final[Version(w)] # NoFile THEN "unlink" ELSE "request")
    /\ UNCHANGED <<published, cache, launched, crashed>>

\* the file it found broken, or what another window has put there since
Unlink(w) ==
    /\ At(w, "unlink")
    /\ IF final[Version(w)] = NoFile
       THEN Failed(w) /\ UNCHANGED final
       ELSE final' = [final EXCEPT ![Version(w)] = NoFile] /\ Goto(w, "request")
    /\ UNCHANGED <<published, part, launched, crashed>>

\* a request that fails, or a response whose `.part` is opened and truncated
Request(w) ==
    /\ At(w, "request")
    /\ \/ /\ part' = [part EXCEPT ![Version(w)] = {}]
          /\ win' = [win EXCEPT ![w].pc = "write", ![w].received = 0]
       \/ Goto(w, "discard") /\ UNCHANGED part
    /\ UNCHANGED <<published, final, launched, crashed>>

\* a block beyond the declared size ends the download (CloseFile)
WriteBlock(w) ==
    /\ At(w, "write") /\ win[w].received < Length
    /\ win' = [win EXCEPT ![w].received = @ + 1]
    /\ part' = [part EXCEPT ![Version(w)] = @ \cup {win'[w].received}]
    /\ UNCHANGED <<published, final, launched, crashed>>

\* Mutant: neither the size nor the digest of what was received is compared.
CloseFileUnread(w) ==
    /\ At(w, "write")
    /\ Goto(w, "replace") \/ Goto(w, "discard")
    /\ UNCHANGED <<published, cache, launched, crashed>>

\* the stream ends: with the declared bytes, or too soon, too late or with others
CloseFile(w) ==
    /\ At(w, "write")
    /\ \/ win[w].received = Length /\ Goto(w, "replace")
       \/ Goto(w, "discard")
    /\ UNCHANGED <<published, cache, launched, crashed>>

(***************************************************************************)
(* os.replace: the digest compared before it is of the bytes received, and *)
(* what it moves is what the file then holds.                              *)
(***************************************************************************)
Replace(w) ==
    /\ At(w, "replace")
    /\ LET v == Version(w)
       IN  IF part[v] = NoFile \/ HeldByOther(w, v)
           THEN Goto(w, "discard") /\ UNCHANGED cache
           ELSE /\ final' = [final EXCEPT ![v] = part[v]]
                /\ part' = [part EXCEPT ![v] = NoFile]
                /\ Goto(w, "verify")
    /\ UNCHANGED <<published, launched, crashed>>

\* Mutants: the partial file is tried until it can be removed, or is left.
DiscardPatiently(w) ==
    /\ At(w, "discard")
    /\ ~ HeldByOther(w, Version(w))
    /\ part' = [part EXCEPT ![Version(w)] = NoFile]
    /\ Failed(w)
    /\ UNCHANGED <<published, final, launched, crashed>>
DiscardNothing(w) ==
    /\ At(w, "discard")
    /\ Failed(w)
    /\ UNCHANGED <<published, cache, launched, crashed>>

\* the except clauses: unlink the partial file, which may itself raise
Discard(w) ==
    /\ At(w, "discard")
    /\ IF HeldByOther(w, Version(w)) THEN UNCHANGED part
       ELSE part' = [part EXCEPT ![Version(w)] = NoFile]
    /\ Failed(w)
    /\ UNCHANGED <<published, final, launched, crashed>>

\* prepare_update: the publisher decides, or the verification itself fails
Verify(w) ==
    /\ At(w, "verify")
    /\ \/ /\ final[Version(w)] # NoFile
          /\ Goto(w, IF Authentic(Version(w)) THEN "prepared" ELSE "distrust")
       \/ Failed(w)
    /\ UNCHANGED <<published, cache, launched, crashed>>

Prepared(w) ==
    /\ At(w, "prepared")
    /\ win' = [win EXCEPT ![w].pc = "idle", ![w].received = 0,
                          ![w].prepared = Version(w)]
    /\ UNCHANGED <<published, cache, launched, crashed>>

Distrust(w) ==
    /\ At(w, "distrust")
    /\ final' = [final EXCEPT ![Version(w)] = NoFile]
    /\ Failed(w)
    /\ UNCHANGED <<published, part, launched, crashed>>

\* launch_prepared_update: size, SHA-256 and publisher once more, then the start
Launch(w) ==
    /\ At(w, "idle") /\ win[w].prepared # NoVersion
    /\ Authentic(win[w].prepared)
    /\ Goto(w, "launch")
    /\ UNCHANGED <<published, cache, launched, crashed>>

Start(w) ==
    /\ At(w, "launch")
    /\ LET v == win[w].prepared
       IN  IF final[v] = NoFile
           THEN Goto(w, "idle") /\ UNCHANGED launched
           ELSE /\ launched' = launched \cup {[version |-> v, file |-> final[v]]}
                /\ win' = [win EXCEPT ![w] = Off]
    /\ UNCHANGED <<published, cache, crashed>>

\* the window is closed between tasks, or dies in one
Quit(w) ==
    /\ ~ At(w, "off")
    /\ win' = [win EXCEPT ![w] = Off]
    /\ crashed' = (crashed \/ ~ At(w, "idle"))
    /\ UNCHANGED <<published, cache, launched>>

Step(w) ==
    \/ Prune(w) \/ Reuse(w) \/ Unlink(w) \/ Request(w) \/ WriteBlock(w) \/ CloseFile(w)
    \/ Replace(w) \/ Discard(w) \/ Verify(w) \/ Prepared(w) \/ Distrust(w) \/ Start(w)

Next ==
    \/ \E v \in Versions : Publish(v)
    \/ \E w \in Windows : Step(w) \/ Open(w) \/ Check(w) \/ Download(w) \/ Launch(w) \/ Quit(w)

(***************************************************************************)
(* A task is a thread that keeps running.  Nobody has to publish, to ask   *)
(* for a download or to quit.                                              *)
(***************************************************************************)
Fairness == \A w \in Windows : WF_vars(Step(w))

Spec == Init /\ [][Next]_vars /\ Fairness

-----------------------------------------------------------------------------
PCs == {"off", "idle", "prune", "reuse", "unlink", "request", "write", "replace",
        "discard", "verify", "prepared", "distrust", "launch"}

TypeOK ==
    /\ published \in Versions
    /\ part \in [Versions -> File]
    /\ final \in [Versions -> File]
    /\ win \in [Windows -> [pc : PCs, version : Versions \cup {NoVersion},
                            received : 0 .. Length,
                            prepared : Versions \cup {NoVersion}]]
    /\ launched \subseteq [version : Versions, file : SUBSET Blocks]
    /\ crashed \in BOOLEAN

\* Whatever windows, publications and crashes do to the cache between the checks
\* and the start, the installer started is a whole one, signed by the publisher
\* (docs/updater.md, client gates 8 and 9): two windows keep to it, three do not.
LaunchedIsTrusted ==
    \A run \in launched : Whole(run.file) /\ run.version \in Trusted

\* A window at rest never holds as verified an installer that is in the cache and torn:
\* no other window's download may reach the file behind a verified name.
PreparedStaysWhole ==
    \A w \in Windows :
        LET v == win[w].prepared
        IN  At(w, "idle") /\ v # NoVersion => final[v] \in {NoFile, Blocks}

\* When every task has ended and none died, no partial file is left in the cache, though
\* a window may be unable to remove the one another is writing.
NoLeftovers ==
    (\A w \in Windows : win[w].pc \in {"off", "idle"}) /\ ~ crashed =>
        \A v \in Versions : part[v] = NoFile

\* Every task ends, whatever another window holds.
TasksEnd ==
    \A w \in Windows : win[w].pc \notin {"off", "idle"} ~> win[w].pc \in {"off", "idle"}

\* docs/updater.md:51-52 says that a download is "atomically renamed only after size and
\* SHA-256 match": what appears under an installer's name is a whole installer.
\* Violated: MCUpdaterRename.cfg.
RenamedIsWhole ==
    [][\A v \in Versions : final'[v] \in {final[v], NoFile, Blocks}]_vars
=============================================================================
