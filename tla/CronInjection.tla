---------------------------- MODULE CronInjection ----------------------------
(***************************************************************************)
(* What becomes of the result of a cron run (backend/cron/executor.py,     *)
(* injector.py): the executor records it and posts it into the notify      *)
(* conversation if that is idle; a result that found it busy waits for the *)
(* flush at the end of the conversation's turn (backend/agent/loop.py).    *)
(*                                                                         *)
(* One conversation and the runs that report to it.  A transaction is one  *)
(* step.  Compaction, texts, logs and the webhook's content are left out.  *)
(***************************************************************************)
EXTENDS Naturals

CONSTANTS
  Runs,          \* rows of cron_runs of the conversation
  MaxInterrupts  \* bound on restarts of other replicas, timeouts and failures

VARIABLES
  status,      \* [Runs -> CronRun.status; "none" before the row exists]
  silent,      \* [Runs -> the result text is NO_REPLY]
  injected,    \* [Runs -> CronRun.injected]
  at,          \* [Runs -> where the executor of the run is]
  turn,        \* the conversation's loop
  list,        \* runs the flush has read and not handled yet
  interrupts,  \* restarts, timeouts and failures so far
  posted       \* [Runs -> pairs of messages in the conversation] (history)

vars == <<status, silent, injected, at, turn, list, interrupts, posted>>

Places == {"none", "running", "recorded", "injecting", "delivering", "over"}

Init ==
  /\ status = [x \in Runs |-> "none"]
  /\ silent \in [Runs -> BOOLEAN]
  /\ injected = [x \in Runs |-> FALSE]
  /\ at = [x \in Runs |-> "none"]
  /\ turn = "idle"
  /\ list = {}
  /\ interrupts = 0
  /\ posted = [x \in Runs |-> 0]

Goes(x, place) == at' = [at EXCEPT ![x] = place]

\* _create_run_entry
CreateRunEntry(x) ==
  /\ at[x] = "none"
  /\ status' = [status EXCEPT ![x] = "running"]
  /\ Goes(x, "running")
  /\ UNCHANGED <<silent, injected, turn, list, interrupts, posted>>

SucceedAloud(x) ==
  /\ at[x] = "running"
  /\ status' = [status EXCEPT ![x] = "ok"]
  /\ Goes(x, "recorded")
  /\ UNCHANGED <<silent, injected, turn, list, interrupts, posted>>

\* The run succeeded: _update_run_entry, a silent one as consumed.
Succeed(x) ==
  /\ at[x] = "running"
  /\ status' = [status EXCEPT ![x] = "ok"]
  /\ injected' = [injected EXCEPT ![x] = @ \/ silent[x]]
  /\ Goes(x, IF silent[x] THEN "over" ELSE "recorded")
  /\ UNCHANGED <<silent, turn, list, interrupts, posted>>

FailUnknown(x) ==
  /\ at[x] = "running"
  /\ status' = [status EXCEPT ![x] = "failed"]
  /\ Goes(x, "over")
  /\ UNCHANGED <<silent, injected, turn, list, interrupts, posted>>

\* An error, or a desktop that is not ready (skipped).
Fail(x) ==
  /\ at[x] = "running"
  /\ \E s \in {"error", "skipped"} : status' = [status EXCEPT ![x] = s]
  /\ Goes(x, "over")
  /\ UNCHANGED <<silent, injected, turn, list, interrupts, posted>>

\* wait_for cancels the executor wherever it is; the handler records an error.
TimeOut(x) ==
  /\ at[x] \in Places \ {"none", "over"}
  /\ interrupts < MaxInterrupts
  /\ status' = [status EXCEPT ![x] = "error"]
  /\ Goes(x, "over")
  /\ interrupts' = interrupts + 1
  /\ UNCHANGED <<silent, injected, turn, list, posted>>

\* _mark_interrupted_runs of a replica that starts.
MarkInterruptedRuns ==
  /\ interrupts < MaxInterrupts
  /\ status' = [x \in Runs |-> IF status[x] = "running" THEN "error" ELSE status[x]]
  /\ interrupts' = interrupts + 1
  /\ UNCHANGED <<silent, injected, at, turn, list, posted>>

\* try_inject_result: the session's status decides.
TryInject(x) ==
  /\ at[x] = "recorded"
  /\ Goes(x, IF turn = "idle" THEN "injecting" ELSE "delivering")
  /\ UNCHANGED <<status, silent, injected, turn, list, interrupts, posted>>

CommitTwice(x) ==
  /\ posted' = [posted EXCEPT ![x] = IF @ < 2 THEN @ + 1 ELSE @]
  /\ injected' = [injected EXCEPT ![x] = TRUE]

\* _commit_injection: both messages and the flag, unless the flag is set.
CommitInjection(x) ==
  IF injected[x] THEN UNCHANGED <<injected, posted>>
  ELSE /\ posted' = [posted EXCEPT ![x] = @ + 1]
       /\ injected' = [injected EXCEPT ![x] = TRUE]

\* The exception handlers around an injection.
Fails ==
  /\ interrupts < MaxInterrupts /\ interrupts' = interrupts + 1
  /\ UNCHANGED <<injected, posted>>

\* _do_inject, which may fail and leaves the result pending then.
DoInject(x) ==
  /\ at[x] = "injecting"
  /\ (CommitInjection(x) /\ UNCHANGED interrupts) \/ Fails
  /\ Goes(x, "delivering")
  /\ UNCHANGED <<status, silent, turn, list>>

\* _dispatch_delivery
Deliver(x) ==
  /\ at[x] = "delivering"
  /\ Goes(x, "over")
  /\ UNCHANGED <<status, silent, injected, turn, list, interrupts, posted>>

-----------------------------------------------------------------------------
(* The conversation's turns. *)

StartTurn ==
  /\ turn = "idle" /\ turn' = "running"
  /\ UNCHANGED <<status, silent, injected, at, list, interrupts, posted>>

NothingPending == {}

Pending == {x \in Runs : status[x] = "ok" /\ ~injected[x]}

\* flush_pending_cron_results reads the pending rows once; a revoked run
\* skips the flush.
ReadPending ==
  /\ turn = "running"
  /\ turn' = "flushing"
  /\ list' = Pending
  /\ UNCHANGED <<status, silent, injected, at, interrupts, posted>>

RevokedTurn ==
  /\ turn = "running" /\ interrupts < MaxInterrupts
  /\ turn' = "flushing"
  /\ interrupts' = interrupts + 1
  /\ UNCHANGED <<status, silent, injected, at, list, posted>>

FlushResult(x) ==
  IF silent[x] THEN injected' = [injected EXCEPT ![x] = TRUE] /\ UNCHANGED posted
  ELSE CommitInjection(x)

Flush(x) ==
  /\ turn = "flushing" /\ x \in list
  /\ list' = list \ {x}
  /\ (FlushResult(x) /\ UNCHANGED interrupts) \/ Fails
  /\ UNCHANGED <<status, silent, at, turn>>

\* Finalization and the release that makes the session idle.
EndTurn ==
  /\ turn = "flushing" /\ list = {}
  /\ turn' = "idle"
  /\ UNCHANGED <<status, silent, injected, at, list, interrupts, posted>>

ExecutorStep(x) == Succeed(x) \/ Fail(x) \/ TryInject(x) \/ DoInject(x) \/ Deliver(x)

LoopStep == ReadPending \/ (\E x \in Runs : Flush(x)) \/ EndTurn

Next ==
  \/ \E x \in Runs : CreateRunEntry(x) \/ ExecutorStep(x) \/ TimeOut(x)
  \/ MarkInterruptedRuns
  \/ StartTurn \/ RevokedTurn \/ LoopStep

Spec == Init /\ [][Next]_vars

\* Executions and turns that began come to their end; nobody has to talk to
\* the conversation again.
FairSpec == Spec /\ WF_vars(LoopStep) /\ \A x \in Runs : WF_vars(ExecutorStep(x))

-----------------------------------------------------------------------------
TypeOK ==
  /\ status \in [Runs -> {"none", "running", "ok", "error", "skipped"}]
  /\ silent \in [Runs -> BOOLEAN]
  /\ injected \in [Runs -> BOOLEAN]
  /\ at \in [Runs -> Places]
  /\ turn \in {"idle", "running", "flushing"}
  /\ list \subseteq Runs
  /\ interrupts \in 0 .. MaxInterrupts
  /\ posted \in [Runs -> 0 .. 2]

\* A result is posted at most once, though the executor that saw the session
\* idle and the flush of a turn that began since both hold it.
PostedOnce == \A x \in Runs : posted[x] <= 1

\* A silent result reaches no conversation by either way, even when a restart
\* or a timeout rewrote its row in between.
SilentStaysSilent == \A x \in Runs : silent[x] => posted[x] = 0

\* In a conversation that is used again, every result that is recorded as ok
\* and not silent is posted, unless a timeout turns its row into an error.
PostedWhenUsed ==
  \A x \in Runs : status[x] = "ok" ~> (injected[x] \/ status[x] # "ok")

\* A result that finds the session busy "will be flushed when the session
\* becomes IDLE" (injector.py:21-22): it does not wait for another turn.
\* Known gap, README section 5.
QueuedIsFlushed ==
  \A x \in Runs : (status[x] = "ok" /\ at[x] = "over") ~> (injected[x] \/ status[x] # "ok")
=============================================================================
