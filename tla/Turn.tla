-------------------------------- MODULE Turn --------------------------------
(***************************************************************************)
(* A turn's tool calls under the session's abort signals: the event that   *)
(* register_run made for a run (session/status.py) is the one that the     *)
(* processor hands to run_ordered_tool_calls (agent/processor.py), and the *)
(* run clears it when its loop is over (agent/loop.py).  One model step of *)
(* one run is followed; the runs before and after it clear and register    *)
(* signals around it.  All of it is one event loop: a signal moves only    *)
(* while the scheduler awaits.                                             *)
(***************************************************************************)
EXTENDS AbortSignals, Sequences

CONSTANTS
  Mine,            \* the run whose step is followed
  N, MaxParallel   \* of ToolScheduler

ASSUME TurnAssumption == Mine \in Runs /\ N \in Nat /\ MaxParallel \in Nat \ {0}

VARIABLES
  pc, base, last, parallel, started, aborted, failed, slot, body, log, safe, ran, alone,
  signalled   \* a signal was for this run: "yes", "no", or "may": a stop before it registered (history)

step == <<pc, base, last, parallel, started, aborted, failed, slot, body, log, safe, ran, alone>>
turn == <<vars, step, signalled>>

\* The event of the run is the scheduler's.
Tools == INSTANCE ToolScheduler WITH abort <- Mine \in raised

TurnInit == Init /\ Tools!Init /\ signalled = "no"

StepOver == pc \in {"done", "raised"}

\* The model is still streaming: the scheduler has not been called.
Streaming == pc = "outer" /\ started = 0

InStep(A) == Mine \in open /\ UNCHANGED <<vars, signalled>> /\ A

\* The loop's finally clears the event only when the step is over.
AtAwait(A) ==
  /\ Mine \notin open \/ StepOver \/ Streaming \/ Tools!Awaiting
  /\ A
  /\ Mine \in open \ open' => StepOver
  /\ UNCHANGED step

\* A stop for the session, and a shutdown, are about its newest run.
Press ==
  /\ AtAwait(TriggerAbort)
  /\ signalled' = IF newest = Mine /\ Mine \in open THEN "yes" ELSE signalled

Shutdown ==
  /\ AtAwait(AbortAll)
  /\ signalled' = IF newest = Mine /\ Mine \in open THEN "yes" ELSE signalled

\* Everything else that stops one run: its exact stop, its revocation, and its
\* own checks of the lease, of a hold and of the budget.
SignalRun(r) ==
  /\ AtAwait(AbortRun(r))
  /\ signalled' = IF r = Mine THEN "yes" ELSE signalled

Register ==
  /\ AtAwait(RegisterRun)
  /\ signalled' = IF newest' = Mine /\ meant > 0 THEN "may" ELSE signalled

Quietly(A) == AtAwait(A) /\ UNCHANGED signalled

TurnNext ==
  \/ InStep(Tools!Coordinator)
  \/ InStep(Tools!PreparationEnds)
  \/ InStep(Tools!Raises)
  \/ InStep(Tools!RaisesPairing)
  \/ \E c \in Tools!Calls : InStep(Tools!BodyEnds(c)) \/ InStep(Tools!Reclassify(c))
  \/ Register \/ Press \/ Shutdown
  \/ \E r \in Runs : SignalRun(r) \/ Quietly(ClearAbort(r))
  \/ Quietly(DiscardPendingAbort)
  \/ Quietly(Tick)

\* The event loop runs the coordinator, and the deadline ends every body.  No
\* deadline ends a preparation: it may wait for a person.
TurnSpec ==
  /\ TurnInit /\ [][TurnNext]_turn
  /\ WF_turn(InStep(Tools!Coordinator))
  /\ \A c \in Tools!Calls : WF_turn(InStep(Tools!BodyEnds(c)))

-----------------------------------------------------------------------------
\* Types of the step, and no more bodies at once than the pool admits.
StepTypeOK == Tools!TypeOK /\ signalled \in {"no", "may", "yes"}

\* Results become visible in the order of the model's calls, whatever order
\* the bodies end in and wherever groups, stops and failures fall.
CommittedInOrder == Tools!CommittedInOrder

\* What is committed is what happened: a call reported as aborted before
\* dispatch never had a body started, one reported with a value or a timeout
\* had; and a call is not reported while its body still runs.
CommittedIsTrue == Tools!CommittedIsTrue

\* An exclusive call is a barrier: its body overlaps with no other, although
\* calls are reclassified while others run.
ExclusiveIsAlone == Tools!ExclusiveIsAlone

\* The scheduler never leaves a started body behind, returning or raising,
\* and when it returns every call of the step has exactly one result.
LeavesNothingOpen == Tools!LeavesNothingOpen

\* A call is reported as aborted only if a signal was for this run: a user's
\* stop, its revocation, a lost lease, a hold, a spent budget, the shutdown.  A
\* signal for the run before or after it, or a stop that was taken back or is
\* too old, cuts nothing.
AbortedWasSignalled ==
  (\E k \in 1 .. Len(log) : log[k][2] = "aborted") => signalled # "no"

\* The step of a run at every moment: at most MaxParallel bodies, exclusive
\* ones alone; results in the model's order and true, those of an
\* abort included; nothing open and nothing missing at the end.
StepIsSound ==
  /\ TypeOK /\ StepTypeOK
  /\ CommittedInOrder /\ CommittedIsTrue /\ AbortedWasSignalled
  /\ ExclusiveIsAlone /\ LeavesNothingOpen

\* After a signal for the run no tool body starts any more, whatever the run
\* before it clears and also when the signal came during a preparation.
StopHalts == [][signalled = "yes" => ran' = ran]_turn

\* The step of a run ends, signalled or not, unless one of its preparations
\* waits for ever: nothing but its reply ends the wait for a permission.
StepEnds == Mine \in open ~> (StepOver \/ [](pc = "prepare"))
=============================================================================
