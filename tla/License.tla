------------------------------ MODULE License ------------------------------
(***************************************************************************)
(* Signed plan licences (src/relic_auditor/licensing.py): one token in the *)
(* operating system's credential vault, one random installation id in a    *)
(* file, and the processes that read and replace them: command-line runs,  *)
(* which load the entitlement first and then do one `relic license`        *)
(* command, and desktop windows, which load it once at launch and keep it. *)
(*                                                                         *)
(* A step is what happens between two uses of shared state: the vault, the *)
(* id file and its fixed temporary name, the licensing service.  Abstract: *)
(* a token is its claims and whether its signature is by a pinned key;     *)
(* time is a counter; the licensing service and the issuer are external.   *)
(* Bounds: MaxTime on the clock, MaxIssued on tokens, DeviceIds on fresh   *)
(* installation ids (a uuid4 is never drawn twice).                        *)
(***************************************************************************)
EXTENDS Integers, FiniteSets

CONSTANTS Windows,      \* desktop windows
          Commands,     \* command-line runs
          DeviceIds,    \* installation ids uuid4 can yield
          NoId, NoToken, \* an absent id, an absent token
          Provisioned,  \* whether production keys are pinned (licensing.py:42)
          Terms,        \* the dates licences are issued with: when the window opens,
                        \* and how long the window and the subscription last
          MaxTime, MaxIssued

ASSUME LicenseConstants ==
    /\ Windows \cap Commands = {}
    /\ NoId \notin DeviceIds
    /\ Provisioned \in BOOLEAN
    /\ MaxTime \in Nat /\ MaxIssued \in Nat
    /\ Terms \subseteq [delay : 0 .. 1, window : 0 .. MaxTime, term : 0 .. MaxTime]

Procs == Windows \cup Commands
Times == 0 .. 2 * MaxTime + 1
Paid == {"pro", "premium"}

Token == [signed : BOOLEAN, device : DeviceIds, tier : Paid,
          from : Times, until : Times, term : Times]

Entitlement == [tier : Paid \cup {"free"}, until : Times]
FREE_ENTITLEMENT == [tier |-> "free", until |-> 0]

VARIABLES now,      \* the clock of this machine
          issued,   \* tokens the issuer and the licensing service have signed
          told,     \* installation ids a user was shown
          vault,    \* the token in the credential vault
          idFile,   \* the id in the file `installation-id`
          idTemp,   \* the id in `installation-id.tmp`
          drawn,    \* ids drawn by uuid4 so far
          proc      \* per process: where it is and what it holds

vars == <<now, issued, told, vault, idFile, idTemp, drawn, proc>>
files == <<idFile, idTemp, drawn>>

Idle == [pc |-> "off", cmd |-> "none", id |-> NoId, token |-> NoToken,
         held |-> FREE_ENTITLEMENT]

Init ==
    /\ now = 0 /\ issued = {} /\ told = {}
    /\ vault = NoToken
    /\ idFile = NoId /\ idTemp = NoId /\ drawn = {}
    /\ proc = [p \in Procs |-> Idle]

At(p, pc) == proc[p].pc = pc
Move(p, r) == proc' = [proc EXCEPT ![p] = r]

\* Mutants: the signature or the installation is not looked at.
VerifiedUnsigned(t, device) ==
    t.device = device /\ t.from <= now /\ t.until <= t.term /\ now <= t.until
VerifiedAnywhere(t, device) ==
    t.signed /\ t.from <= now /\ t.until <= t.term /\ now <= t.until

(***************************************************************************)
(* verify_license_token: the signature, the installation, the dates.       *)
(***************************************************************************)
Verified(t, device) ==
    /\ t.signed
    /\ t.device = device
    /\ t.from <= now
    /\ t.until <= t.term
    /\ now <= t.term
    /\ now <= t.until

Granted(t) == [tier |-> t.tier, until |-> t.until]

(***************************************************************************)
(* How a command ends: a command-line run exits, a window goes back to its *)
(* event loop with the entitlement it holds.                               *)
(***************************************************************************)
Ready(p) ==
    [proc[p] EXCEPT !.pc = "ready", !.cmd = "none", !.id = NoId, !.token = NoToken]

Rested(p, held) ==
    IF p \in Windows
    THEN [Ready(p) EXCEPT !.held = held]
    ELSE Idle

Finish(p, held) == Move(p, Rested(p, held))
Fail(p) == Finish(p, proc[p].held)

(***************************************************************************)
(* Every process begins with load_cached_entitlement.  Whatever goes wrong *)
(* there leaves it on Free.                                                *)
(***************************************************************************)
Start(p) ==
    /\ At(p, "off")
    /\ Move(p, [Idle EXCEPT !.pc = "load", !.cmd = "load"])
    /\ UNCHANGED <<now, issued, told, vault, files>>

LoadVault(p) ==
    /\ At(p, "load")
    /\ \/ /\ vault # NoToken
          /\ Move(p, [proc[p] EXCEPT !.pc = "id", !.token = vault])
       \/ \* no token, or the vault is unavailable
          Move(p, Ready(p))
    /\ UNCHANGED <<now, issued, told, vault, files>>

\* Mutant: a stored id may be taken for an invalid one.
ReadIdAnew(p) ==
    /\ At(p, "id")
    /\ \E d \in DeviceIds \ drawn :
          /\ drawn' = drawn \cup {d}
          /\ Move(p, [proc[p] EXCEPT !.pc = "write id", !.id = d])
    /\ UNCHANGED <<now, issued, told, vault, idFile, idTemp>>

(***************************************************************************)
(* installation_id: return the stored id, or draw one, write it to the     *)
(* temporary name and move it over the file.  The process goes on with     *)
(* the id it drew, whatever the file then holds.                           *)
(***************************************************************************)
ReadId(p) ==
    /\ At(p, "id")
    /\ \/ /\ idFile # NoId
          /\ Move(p, [proc[p] EXCEPT !.pc = "identified", !.id = idFile])
          /\ UNCHANGED drawn
       \/ /\ idFile = NoId
          /\ \E d \in DeviceIds \ drawn :
                /\ drawn' = drawn \cup {d}
                /\ Move(p, [proc[p] EXCEPT !.pc = "write id", !.id = d])
    /\ UNCHANGED <<now, issued, told, vault, idFile, idTemp>>

WriteId(p) ==
    /\ At(p, "write id")
    /\ idTemp' = proc[p].id
    /\ Move(p, [proc[p] EXCEPT !.pc = "replace id"])
    /\ UNCHANGED <<now, issued, told, vault, idFile, drawn>>

ReplaceId(p) ==
    /\ At(p, "replace id")
    /\ idTemp # NoId
    /\ idFile' = idTemp
    /\ idTemp' = NoId
    /\ Move(p, [proc[p] EXCEPT !.pc = "identified"])
    /\ UNCHANGED <<now, issued, told, vault, drawn>>

\* Mutant: the process waits for its temporary file.
LoseIdWaits(p) ==
    /\ At(p, "replace id") /\ idTemp = NoId
    /\ UNCHANGED vars

(***************************************************************************)
(* os.replace raises when another process has already moved the temporary  *)
(* file: loading then yields Free, any other command fails.                *)
(***************************************************************************)
LoseId(p) ==
    /\ At(p, "replace id")
    /\ idTemp = NoId
    /\ IF proc[p].cmd = "load" THEN Move(p, Ready(p)) ELSE Fail(p)
    /\ UNCHANGED <<now, issued, told, vault, files>>

LoadVerify(p) ==
    /\ At(p, "identified") /\ proc[p].cmd = "load"
    /\ LET t == proc[p].token
       IN  Move(p, [Ready(p) EXCEPT !.held =
              IF Verified(t, proc[p].id) THEN Granted(t) ELSE FREE_ENTITLEMENT])
    /\ UNCHANGED <<now, issued, told, vault, files>>

(***************************************************************************)
(* The commands.  `import` is given a file: an issued token, or one        *)
(* somebody edited, whose signature no longer verifies.                    *)
(***************************************************************************)
Offered ==
    issued \cup {[t EXCEPT !.signed = FALSE, !.tier = "premium"] : t \in issued}

Begin(p, cmd, pc, t) == Move(p, [proc[p] EXCEPT !.pc = pc, !.cmd = cmd, !.token = t])

Import(p) ==
    /\ At(p, "ready")
    /\ \E t \in Offered : Begin(p, "import", "id", t)
    /\ UNCHANGED <<now, issued, told, vault, files>>

\* `license device`, and "Copy installation ID"
Device(p) ==
    /\ At(p, "ready")
    /\ Begin(p, "device", "id", NoToken)
    /\ UNCHANGED <<now, issued, told, vault, files>>

\* activate and refresh both ask for the id first, and only a command line offers them
Online(p) ==
    /\ At(p, "ready") /\ p \in Commands
    /\ \E cmd \in {"activate", "refresh"} : Begin(p, cmd, "id", NoToken)
    /\ UNCHANGED <<now, issued, told, vault, files>>

ShowId(p) ==
    /\ At(p, "identified") /\ proc[p].cmd = "device"
    /\ told' = told \cup {proc[p].id}
    /\ Fail(p)
    /\ UNCHANGED <<now, issued, vault, files>>

\* deactivate_license: the vault may refuse, and then nothing changed
Deactivate(p) ==
    /\ At(p, "ready")
    /\ \/ /\ vault' = NoToken
          /\ Finish(p, FREE_ENTITLEMENT)
       \/ /\ Fail(p)
          /\ UNCHANGED vault
    /\ UNCHANGED <<now, issued, told, files>>

\* any other command, or closing the window
Leave(p) ==
    /\ At(p, "ready")
    /\ Move(p, Idle)
    /\ UNCHANGED <<now, issued, told, vault, files>>

(***************************************************************************)
(* activate_license and refresh_license: stop when no production key is    *)
(* pinned; refresh needs a cached token; then a request over the network.  *)
(***************************************************************************)
Request(p) ==
    /\ At(p, "identified") /\ proc[p].cmd \in {"activate", "refresh"}
    /\ \/ /\ Provisioned
          /\ proc[p].cmd = "refresh" => vault # NoToken
          /\ Move(p, [proc[p] EXCEPT !.pc = "asked"])
       \/ \* not provisioned, nothing to refresh, or the vault is unavailable
          Fail(p)
    /\ UNCHANGED <<now, issued, told, vault, files>>

\* the service's answer: a signed token, or a failure of any kind
Answer(p) ==
    /\ At(p, "asked")
    /\ \/ \E t \in issued :
             Move(p, [proc[p] EXCEPT !.pc = "offered", !.token = t])
       \/ Fail(p)
    /\ UNCHANGED <<now, issued, told, vault, files>>

Verify(p) ==
    /\ \/ At(p, "offered")
       \/ At(p, "identified") /\ proc[p].cmd = "import"
    /\ IF Verified(proc[p].token, proc[p].id)
       THEN Move(p, [proc[p] EXCEPT !.pc = "store"])
       ELSE Fail(p)
    /\ UNCHANGED <<now, issued, told, vault, files>>

\* the vault takes the token, or refuses and keeps the one it has
Store(p) ==
    /\ At(p, "store")
    /\ \/ /\ vault' = proc[p].token
          /\ Finish(p, Granted(proc[p].token))
       \/ /\ Fail(p)
          /\ UNCHANGED vault
    /\ UNCHANGED <<now, issued, told, files>>

(***************************************************************************)
(* Outside the program: the clock, the issuer and the licensing service.   *)
(* A token may start in the issuer's present, which may be this machine's  *)
(* future, and the service chooses its window and its term.                *)
(***************************************************************************)
Tick ==
    /\ now < MaxTime
    /\ now' = now + 1
    /\ UNCHANGED <<issued, told, vault, files, proc>>

Issue ==
    /\ Cardinality(issued) < MaxIssued
    /\ \E d \in told, tier \in Paid, k \in Terms :
          LET from == now + k.delay
          IN  issued' = issued \cup
                {[signed |-> TRUE, device |-> d, tier |-> tier,
                  from |-> from, until |-> from + k.window, term |-> from + k.term]}
    /\ UNCHANGED <<now, told, vault, files, proc>>

Step(p) ==
    \/ LoadVault(p) \/ ReadId(p) \/ WriteId(p) \/ ReplaceId(p) \/ LoseId(p)
    \/ LoadVerify(p) \/ ShowId(p) \/ Request(p) \/ Answer(p) \/ Verify(p) \/ Store(p)

Ask(p) ==
    \/ Start(p) \/ Import(p) \/ Device(p) \/ Online(p) \/ Deactivate(p) \/ Leave(p)

Next ==
    \/ \E p \in Procs : Step(p) \/ Ask(p)
    \/ Tick
    \/ Issue

(***************************************************************************)
(* A process that is running a command keeps running.  Nothing obliges a   *)
(* user to give one, an issuer to sign or the clock to advance in a run.   *)
(***************************************************************************)
Fairness == \A p \in Procs : WF_vars(Step(p))

Spec == Init /\ [][Next]_vars /\ Fairness

-----------------------------------------------------------------------------
PCs == {"off", "load", "id", "write id", "replace id", "identified", "ready",
        "asked", "offered", "store"}
Cmds == {"none", "load", "import", "device", "activate", "refresh"}

TypeOK ==
    /\ now \in 0 .. MaxTime
    /\ issued \subseteq Token
    /\ told \subseteq DeviceIds
    /\ vault \in Token \cup {NoToken}
    /\ idFile \in DeviceIds \cup {NoId}
    /\ idTemp \in DeviceIds \cup {NoId}
    /\ drawn \subseteq DeviceIds
    /\ proc \in [Procs -> [pc : PCs, cmd : Cmds, id : DeviceIds \cup {NoId},
                           token : Token \cup {NoToken}, held : Entitlement]]

\* A process takes up a paid plan only if the issuer signed it for the installation id
\* that process read and it has begun: whatever file it was offered, whatever other
\* processes did to the vault and to the id meanwhile (verify_license_token).
HeldIsGranted ==
    [][ \A p \in Procs :
          LET plan == proc'[p].held
          IN  plan \notin {proc[p].held, FREE_ENTITLEMENT} =>
                \E t \in issued :
                    /\ Granted(t) = plan
                    /\ t.device = proc[p].id
                    /\ t.from <= now /\ t.until <= t.term ]_vars

\* The vault never holds a token that failed verification: a refused file or answer
\* leaves the active licence alone (import_license_file, "Invalid imports leave the
\* active license untouched").
VaultIsTrusted ==
    vault # NoToken =>
        /\ vault \in issued
        /\ vault.from <= now /\ vault.until <= vault.term

\* Once the processes that found no installation id have finished creating one, the id
\* stored then is the id for ever: no licence is orphaned by a later start, whichever of
\* the first starts won (installation_id).
IdStays ==
    \A d \in DeviceIds :
        [](/\ idFile = d
           /\ \A p \in Procs : ~ At(p, "write id") /\ ~ At(p, "replace id")
           => [](idFile = d))

\* Every command ends: a lost temporary file, an unavailable vault or a service that
\* answers badly is an error or Free, never a process that hangs.
CommandsEnd ==
    \A p \in Procs :
        proc[p].pc \notin {"off", "ready"} ~> proc[p].pc \in {"off", "ready"}
=============================================================================
