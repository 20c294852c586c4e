---------------------------- MODULE AbortSignals ----------------------------
(***************************************************************************)
(* The in-process abort signals of one session (backend/session/status.py): *)
(* the session's slot, the event of each registered run, and the stop that *)
(* is remembered when no run holds a signal.  The calls come from          *)
(* reservation (agent/driver.py), the loop's cleanup (agent/loop.py), new  *)
(* work (api/sessions.py, session/session.py), the interactive stop        *)
(* (session/abort.py), question revocation (question/runtime.py), the      *)
(* lease, hold and budget checks of the run itself (agent/driver.py,       *)
(* assistant/) and the shutdown of the process (main.py).                  *)
(*                                                                         *)
(* Abstractions.  Every function runs without an await, so it is one step. *)
(* Run r owns event r.  An event that get_abort_signal creates with no run *)
(* behind it is "idle": nobody waits on it.  A remembered stop is kept as  *)
(* the time it has left; an expired entry acts like none.                  *)
(***************************************************************************)
EXTENDS Naturals

CONSTANTS
  PendingTTL,  \* PENDING_ABORT_TTL, in clock ticks
  MaxRuns      \* bound on runs of the session in this process

ASSUME SignalAssumption == PendingTTL \in Nat \ {0} /\ MaxRuns \in Nat

VARIABLES
  newest,    \* the last run that registered, 0 before the first
  open,      \* runs in _run_signals: registered and not cleaned up
  occupied,  \* _abort_signals has an entry for the session
  holder,    \* the run whose event is in the slot; 0 for an idle event
  raised,    \* runs whose event is set
  pending,   \* time left of the entry in _pending_aborts
  meant      \* time left of a stop that a starting run should honour (history)

vars == <<newest, open, occupied, holder, raised, pending, meant>>

Runs == 1 .. MaxRuns

Init ==
  /\ newest = 0 /\ open = {}
  /\ occupied = FALSE /\ holder = 0
  /\ raised = {}
  /\ pending = 0 /\ meant = 0

\* The run a stop pressed now is about, if there is one.
Current == newest \in open

-----------------------------------------------------------------------------
\* register_run: a new event in the slot, set when a stop is waiting for a run.
\* The mutated form leaves the remembered stop behind.
RegisterKeepsPending ==
  /\ newest < MaxRuns
  /\ newest' = newest + 1
  /\ open' = open \cup {newest'}
  /\ occupied' = TRUE /\ holder' = newest'
  /\ raised' = IF pending > 0 THEN raised \cup {newest'} ELSE raised
  /\ meant' = 0
  /\ UNCHANGED pending

RegisterRun ==
  /\ newest < MaxRuns
  /\ newest' = newest + 1
  /\ open' = open \cup {newest'}
  /\ occupied' = TRUE /\ holder' = newest'
  /\ raised' = IF pending > 0 THEN raised \cup {newest'} ELSE raised
  /\ pending' = 0 /\ meant' = 0

\* abort_run: signal exactly one run.  The mutated form signals the slot.  A
\* run's own checks set the same event without the look-up (RunLease.abort).
AbortSlot(r) ==
  /\ r \in open
  /\ raised' = raised \cup ({holder} \cap Runs)
  /\ UNCHANGED <<newest, open, occupied, holder, pending, meant>>

AbortRun(r) ==
  /\ r \in open
  /\ raised' = raised \cup {r}
  /\ UNCHANGED <<newest, open, occupied, holder, pending, meant>>

\* trigger_abort, with the event get_abort_signal creates for an empty slot.
TriggerAbort ==
  /\ pending' = IF occupied THEN pending ELSE PendingTTL
  /\ occupied' = TRUE
  /\ holder' = IF occupied THEN holder ELSE 0
  /\ raised' = IF occupied /\ holder \in Runs THEN raised \cup {holder} ELSE raised
  /\ meant' = IF Current THEN meant ELSE PendingTTL
  /\ UNCHANGED <<newest, open>>

\* abort_all: the shutdown signals the slots there are and remembers nothing.
AbortAll ==
  /\ occupied
  /\ raised' = raised \cup ({holder} \cap Runs)
  /\ UNCHANGED <<newest, open, occupied, holder, pending, meant>>

\* discard_pending_abort: the user asked for new work.
DiscardPendingAbort ==
  /\ pending' = 0 /\ meant' = 0
  /\ UNCHANGED <<newest, open, occupied, holder, raised>>

\* clear_abort with the finishing run's own event.  The mutated form empties
\* the slot whoever holds it.
ClearWhoeverHolds(r) ==
  /\ r \in open
  /\ open' = open \ {r}
  /\ occupied' = FALSE /\ holder' = 0
  /\ raised' = raised \ {r}
  /\ UNCHANGED <<newest, pending, meant>>

ClearAbort(r) ==
  /\ r \in open
  /\ open' = open \ {r}
  /\ IF occupied /\ holder = r
       THEN occupied' = FALSE /\ holder' = 0 /\ raised' = raised \ {r}
       ELSE UNCHANGED <<occupied, holder, raised>>
  /\ UNCHANGED <<newest, pending, meant>>

\* The age of a remembered stop, as the time it has left.
LessUnchecked(n) == n - 1

Less(n) == IF n = 0 THEN 0 ELSE n - 1

Tick ==
  /\ pending' = Less(pending)
  /\ meant' = Less(meant)
  /\ UNCHANGED <<newest, open, occupied, holder, raised>>

Next ==
  \/ RegisterRun
  \/ \E r \in Runs : AbortRun(r) \/ ClearAbort(r)
  \/ TriggerAbort \/ AbortAll
  \/ DiscardPendingAbort
  \/ Tick

Spec == Init /\ [][Next]_vars

-----------------------------------------------------------------------------
(* Properties *)

\* The variables keep their types, and only registered runs are known.
TypeOK ==
  /\ newest \in 0 .. MaxRuns
  /\ open \subseteq 1 .. newest
  /\ occupied \in BOOLEAN
  /\ holder \in 0 .. newest
  /\ raised \subseteq 1 .. newest
  /\ pending \in 0 .. PendingTTL
  /\ meant \in 0 .. PendingTTL

\* While the newest run has not cleaned up, its event is the one in the slot:
\* trigger_abort reaches it, whatever older runs that wind down clean up.
NewestReachable == Current => occupied /\ holder = newest

\* A run starts stopped only if the user pressed stop after the previous run
\* was over, since the last request for new work and within the time limit;
\* and one such press stops one run.
StartsStoppedOnlyIfMeant == newest' # newest /\ newest' \in raised' => meant > 0

NoAmbush == [][StartsStoppedOnlyIfMeant]_vars

\* What the docstring of trigger_abort says: with no run registered, the stop
\* is remembered for the run that is about to start.
StartsStoppedIfMeant == newest' # newest /\ meant > 0 => newest' \in raised'

\* Known gap, README section 5.
StopRemembered == [][StartsStoppedIfMeant]_vars
=============================================================================
