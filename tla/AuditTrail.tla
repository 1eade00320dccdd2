---------------------------- MODULE AuditTrail ----------------------------
(* What the ledger of a managed build session promises its reader:        *)
(* the entries tell a legal story.  An action is queued before it is      *)
(* started, is started only under a recorded grant of every capability it *)
(* asked for, is never started again once completed, and ends at most     *)
(* once per start; a session that was cancelled or handed over as a       *)
(* candidate starts and queues nothing more, and a candidate has every    *)
(* queued action completed.  Supervisor implements this specification.    *)
EXTENDS Integers

CONSTANTS Actions,      \* the proposals a session may queue
          NoAction,     \* stands for "no run is open"
          Capability,
          Caps          \* the capabilities each action asks for

VARIABLES opened,       \* the session_created entry is there
          queued,       \* actions with an action_queued entry
          granted,      \* the capabilities of the latest recorded grant
          running,      \* the action whose run the trail has not closed
          done,         \* actions with an action_completed entry
          closing       \* "open", "cancelled" or "candidate"

trail == <<opened, queued, granted, running, done, closing>>

TrailInit ==
    /\ opened = FALSE
    /\ queued = {}
    /\ granted = [a \in Actions |-> {}]
    /\ running = NoAction
    /\ done = {}
    /\ closing = "open"

Open ==
    /\ ~opened
    /\ opened' = TRUE
    /\ UNCHANGED <<queued, granted, running, done, closing>>

Queue(a) ==
    /\ opened
    /\ closing = "open"
    /\ a \notin queued
    /\ queued' = queued \cup {a}
    /\ UNCHANGED <<opened, granted, running, done, closing>>

\* A new grant replaces the earlier one, and may be narrower.
Grant(a, C) ==
    /\ C \subseteq Caps[a]
    /\ closing = "open"
    /\ granted' = [granted EXCEPT ![a] = C]
    /\ UNCHANGED <<opened, queued, running, done, closing>>

\* A run whose end could not be recorded may be followed by another start.
Start(a) ==
    /\ closing = "open"
    /\ a \in queued \ done
    /\ Caps[a] \subseteq granted[a]
    /\ running' = a
    /\ UNCHANGED <<opened, queued, granted, done, closing>>

Complete(a) ==
    /\ running = a
    /\ closing = "open"
    /\ done' = done \cup {a}
    /\ running' = NoAction
    /\ UNCHANGED <<opened, queued, granted, closing>>

Fail(a) ==
    /\ running = a
    /\ closing = "open"
    /\ running' = NoAction
    /\ UNCHANGED <<opened, queued, granted, done, closing>>

CancelRun(a) ==
    /\ running = a
    /\ running' = NoAction
    /\ closing' = "cancelled"
    /\ UNCHANGED <<opened, queued, granted, done>>

CancelSession ==
    /\ opened
    /\ closing = "open"
    /\ closing' = "cancelled"
    /\ UNCHANGED <<opened, queued, granted, running, done>>

HandOver ==
    /\ opened
    /\ closing = "open"
    /\ queued \subseteq done
    /\ closing' = "candidate"
    /\ UNCHANGED <<opened, queued, granted, running, done>>

TrailNext ==
    \/ Open \/ CancelSession \/ HandOver
    \/ \E a \in Actions :
          \/ Queue(a) \/ Start(a) \/ Complete(a) \/ Fail(a) \/ CancelRun(a)
          \/ \E C \in SUBSET Capability : Grant(a, C)

TrailSpec == TrailInit /\ [][TrailNext]_trail
===========================================================================
