------------------------------ MODULE Subagents ------------------------------
(***************************************************************************)
(* Child agents started by the Task tool (agent/subagent_runtime.py,        *)
(* tool/task.py and the child half of agent/recovery.py), for one           *)
(* continuable child of one parent session.                                 *)
(*                                                                          *)
(* Accepting work commits a trigger message in the child, an activation and *)
(* a waiting outbox together.  The tool call that accepted it and the       *)
(* recovery workers then compete to dispatch it: claim the activation for a *)
(* short time, reserve the child's driver, bind the two, run, and complete  *)
(* the outbox.  Every arrow is a transaction of its own, every process may  *)
(* stop or stall between two of them, and an interrupt may arrive at any    *)
(* time.  The result is put into the parent's Task part.                    *)
(*                                                                          *)
(* The driver is the one of AgentDriver, here reduced to what the protocol  *)
(* asks of it.  A one-shot child is one that gets no follow-up.             *)
(***************************************************************************)
EXTENDS Naturals, FiniteSets

CONSTANTS Activations,    \* bound on the activations: the spawn and follow-ups
          Workers,        \* tasks of the processes: tool calls, recovery passes
          None,
          MaxInterrupts,  \* bound on interrupts
          MaxCrashes,     \* bound on processes that stop
          MaxStalls,      \* bound on leases and claims lost by a live holder
          MaxFailures     \* bound on runs that fail before they start

ASSUME SubagentsAssumption ==
    /\ Activations \in Nat \ {0}
    /\ None \notin Workers

VARIABLES
    act,      \* the activation rows
    desc,     \* the descriptor: generation, active activation, interrupt marks
    outbox,   \* [state, outcome] of every activation
    drv,      \* the driver row of the child
    status,   \* the status of the child session
    reply,    \* how the turn of every trigger ended in the child's transcript
    worker,   \* where each worker is and what it holds
    aborts,   \* abort requests an interrupter has yet to send, each for one generation
    parent,   \* whether the parent run lives, and its newest message
    shown,    \* activations whose result is in the parent's Task part
    ran,      \* generations that entered execution, for every trigger
    spent,    \* how often each bounded event has happened
    torn      \* what came in between a check and the steps that rely on it (history)

vars == <<act, desc, outbox, drv, status, reply, worker, aborts, parent, shown, ran, spent, torn>>

Acts == 1..Activations
Outcomes == {"succeeded", "interrupted", "outcome_unknown", "error"}    \* TERMINAL_OUTCOMES
NoRecord == [phase |-> "idle", gen |-> 0, trigger |-> 0]
Idle == [at |-> "idle", a |-> 0, gen |-> 0, tool |-> FALSE, record |-> NoRecord]
Passing == {"unknown", "blocks", "pending", "take", "rebind", "repair", "fix"}
Holding == {"bind", "undo", "fail", "start", "answer", "release", "rebind", "fix"}

Init ==
    /\ act = [a \in Acts |-> [state |-> "none", owner |-> None, live |-> FALSE, gen |-> 0]]
    /\ desc = [gen |-> 0, active |-> 0, requested |-> 0, applied |-> 0]
    /\ outbox = [a \in Acts |-> [state |-> "none", outcome |-> "waiting"]]
    /\ drv = [phase |-> "idle", gen |-> 0, trigger |-> 0, live |-> FALSE, abort |-> FALSE]
    /\ status = "idle"
    /\ reply = [a \in Acts |-> "none"]
    /\ worker = [w \in Workers |-> Idle]
    /\ aborts = {} /\ shown = {}
    /\ parent = [live |-> TRUE, tail |-> 0]
    /\ ran = [a \in Acts |-> {}]
    /\ spent = [interrupt |-> 0, crash |-> 0, stall |-> 0, fail |-> 0]
    /\ torn = {}

Spend(kind, bound) == spent[kind] < bound /\ spent' = [spent EXCEPT ![kind] = @ + 1]
Goto(w, at) == worker' = [worker EXCEPT ![w].at = at]
Leave(w) == worker' = [worker EXCEPT ![w] = Idle]

\* A tool call that lost the work to somebody else waits for the outbox; a
\* recovery worker goes on with its pass.
Yield(w) == IF worker[w].tool THEN Goto(w, "wait") ELSE Leave(w)

\* Windows of the protocol: between the check of a claim and the reservation
\* of the child, and between the check of a reserved child and its rebinding.
Window == [dispatch |-> {"reserve"}, takeover |-> {"take", "rebind"}]

\* A step that a worker inside the window has not seen.
Tears(window) ==
    torn' = IF \E w \in Workers : worker[w].at \in Window[window]
              THEN torn \cup {window} ELSE torn

-----------------------------------------------------------------------------
(* Shared transactions.                                                     *)

Interrupted(a) == desc.requested = a
Open(a) == act[a].state \in {"accepted", "claimed", "bound"}

\* _complete_locked: activation, outbox and descriptor together.
Complete(a, outcome) ==
    /\ act' = [act EXCEPT ![a].state = "completed", ![a].live = FALSE]
    /\ outbox' = [outbox EXCEPT ![a] = [state |-> "ready", outcome |-> outcome]]

\* Mutant: the descriptor goes on pointing at what is completed.
StillActive(a, applied) == desc' = [desc EXCEPT !.applied = IF applied THEN a ELSE @]

\* The descriptor half of it, with the interrupt marked as applied or not.
Settled(a, applied) ==
    desc' = [desc EXCEPT !.active = IF @ = a THEN 0 ELSE @,
                         !.applied = IF applied THEN a ELSE @]

\* The claim this worker was given is still the one in the row.
HoldsClaim(w) ==
    LET row == act[worker[w].a] IN row.state = "claimed" /\ row.owner = w /\ row.live

\* abandon_claim: give an unbound claim back, expired or not.
Abandon(w) ==
    LET a == worker[w].a IN
    IF act[a].state = "claimed" /\ act[a].owner = w
      THEN act' = [act EXCEPT ![a].state = "accepted", ![a].owner = None, ![a].live = FALSE]
      ELSE UNCHANGED act

\* The driver row still carries this worker's generation under a live lease.
Owns(w) == drv.phase # "idle" /\ drv.gen = worker[w].gen /\ drv.live

\* release: exactly this live generation, with the status of the session.
Release(w, result) ==
    IF Owns(w)
      THEN /\ drv' = [drv EXCEPT !.phase = "idle", !.live = FALSE, !.abort = FALSE]
           /\ status' = result
      ELSE UNCHANGED <<drv, status>>

\* _result_from_transcript without a forced outcome.
Transcript(a) == IF status = "idle" /\ reply[a] = "stop" THEN "succeeded" ELSE "error"

-----------------------------------------------------------------------------
(* Accepting work.                                                          *)

\* accept_spawn and accept_follow_up, by the tool call that will dispatch it.
\* A child that ended in an error is acknowledged once its driver is idle.
Accept(w) ==
    LET a == desc.gen + 1 IN
    /\ a \in Acts /\ worker[w] = Idle /\ parent.live
    /\ \A v \in Workers : ~worker[v].tool
    /\ desc.active = 0 /\ Tears("dispatch")
    /\ status = "idle" \/ (status = "error" /\ drv.phase = "idle")
    /\ status' = "idle"
    /\ act' = [act EXCEPT ![a].state = "accepted"]
    /\ outbox' = [outbox EXCEPT ![a].state = "waiting"]
    /\ desc' = [gen |-> a, active |-> a, requested |-> 0, applied |-> 0]
    /\ parent' = [parent EXCEPT !.tail = a]
    /\ worker' = [worker EXCEPT ![w] = [Idle EXCEPT !.at = "claim", !.a = a, !.tool = TRUE]]
    /\ UNCHANGED <<drv, reply, aborts, shown, ran, spent>>

-----------------------------------------------------------------------------
(* Dispatching it: _dispatch_activation of the tool call, and               *)
(* resume_claimable_subagent_activations of a recovery pass.                *)

\* Mutant: a claim that ran out is nobody's.
ClaimableOnce(a) == act[a].state = "accepted"

Claimable(a) == act[a].state = "accepted" \/ (act[a].state = "claimed" /\ ~act[a].live)

\* _claim_activation_locked: an interrupted activation is completed instead.
Take(w, a) ==
    \/ /\ Claimable(a) /\ ~Interrupted(a)
       /\ act' = [act EXCEPT ![a].state = "claimed", ![a].owner = w, ![a].live = TRUE]
       /\ worker' = [worker EXCEPT ![w].at = "check", ![w].a = a]
       /\ UNCHANGED <<outbox, desc>>
    \/ /\ Claimable(a) /\ Interrupted(a)
       /\ Complete(a, "interrupted") /\ Settled(a, TRUE)
       /\ Yield(w)

ToolClaims(w) ==
    LET a == worker[w].a IN
    /\ worker[w].at = "claim"
    /\ \/ Take(w, a)
       \/ ~Claimable(a) /\ Goto(w, "wait") /\ UNCHANGED <<act, outbox, desc>>
    /\ UNCHANGED <<drv, status, reply, aborts, parent, shown, ran, spent, torn>>

ScannerClaims(w) ==
    /\ worker[w] = Idle /\ \E a \in Acts : Take(w, a)
    /\ UNCHANGED <<drv, status, reply, aborts, parent, shown, ran, spent, torn>>

\* claim_is_dispatchable, and abandon_claim when it is not.
Check(w) ==
    /\ worker[w].at = "check"
    /\ \/ /\ HoldsClaim(w) /\ desc.active = worker[w].a /\ ~Interrupted(worker[w].a)
          /\ Goto(w, "reserve") /\ UNCHANGED act
       \/ /\ ~(HoldsClaim(w) /\ desc.active = worker[w].a /\ ~Interrupted(worker[w].a))
          /\ Abandon(w) /\ Yield(w)
    /\ UNCHANGED <<desc, outbox, drv, status, reply, aborts, parent, shown, ran, spent, torn>>

\* reserve_run of the child for this trigger.  A live run or an expired marker
\* of another generation keeps the driver, and the claim is given back.
Reserve(w) ==
    /\ worker[w].at = "reserve"
    /\ \/ /\ drv.phase = "idle"
          /\ drv' = [phase |-> "reserved", gen |-> drv.gen + 1, trigger |-> worker[w].a,
                     live |-> TRUE, abort |-> FALSE]
          /\ status' = "busy"
          /\ worker' = [worker EXCEPT ![w].at = "bind", ![w].gen = drv.gen + 1]
          /\ UNCHANGED act
       \/ /\ drv.phase # "idle"
          /\ Abandon(w) /\ Yield(w) /\ UNCHANGED <<drv, status>>
    /\ UNCHANGED <<desc, outbox, reply, aborts, parent, shown, ran, spent, torn>>

Bound(w) ==
    /\ act' = [act EXCEPT ![worker[w].a] = [@ EXCEPT !.state = "bound", !.live = FALSE,
                                                     !.gen = worker[w].gen]]
    /\ Goto(w, "start") /\ UNCHANGED <<outbox, desc>>

\* Mutant: whoever reserved the child binds it.
BindAny(w) ==
    /\ worker[w].at = "bind" /\ Owns(w) /\ Bound(w)
    /\ UNCHANGED <<drv, status, reply, aborts, parent, shown, ran, spent, torn>>

\* bind_claimed_activation: an expired or lost claim binds nothing, an
\* interrupt completes the activation, and a driver that is no longer the
\* reserved one is an error.
Bind(w) ==
    /\ worker[w].at = "bind"
    /\ \/ ~HoldsClaim(w) /\ Goto(w, "undo") /\ UNCHANGED <<act, outbox, desc>>
       \/ /\ HoldsClaim(w) /\ Interrupted(worker[w].a)
          /\ Complete(worker[w].a, "interrupted") /\ Settled(worker[w].a, TRUE)
          /\ Goto(w, "undo")
       \/ HoldsClaim(w) /\ ~Interrupted(worker[w].a) /\ Owns(w) /\ Bound(w)
       \/ /\ HoldsClaim(w) /\ ~Interrupted(worker[w].a) /\ ~Owns(w)
          /\ Goto(w, "fail") /\ UNCHANGED <<act, outbox, desc>>
    /\ UNCHANGED <<drv, status, reply, aborts, parent, shown, ran, spent, torn>>

\* _release_failed_start, and _release_recovery_status of a recovery pass.
Undo(w) ==
    /\ worker[w].at = "undo"
    /\ Release(w, "error") /\ Yield(w)
    /\ UNCHANGED <<act, desc, outbox, reply, aborts, parent, shown, ran, spent, torn>>

\* After an error the tool call fails and leaves its claim to expire; a
\* recovery pass abandons it.
Fail(w) ==
    /\ worker[w].at = "fail"
    /\ Release(w, "error") /\ Leave(w)
    /\ IF worker[w].tool THEN UNCHANGED act ELSE Abandon(w)
    /\ UNCHANGED <<desc, outbox, reply, aborts, parent, shown, ran, spent, torn>>

-----------------------------------------------------------------------------
(* Running the child: run_loop, under _run_child or _run_recovered_prompt.  *)

\* set_phase("running")
Start(w) ==
    /\ worker[w].at = "start" /\ Owns(w)
    /\ drv' = [drv EXCEPT !.phase = "running"]
    /\ ran' = [ran EXCEPT ![worker[w].a] = @ \cup {worker[w].gen}]
    /\ Goto(w, "answer")
    /\ UNCHANGED <<act, desc, outbox, status, reply, aborts, parent, shown, spent, torn>>

\* A run that cannot start leaves its reservation as an expired marker
\* (preserve_for_recovery); the tool call it belongs to fails.
StartFails(w) ==
    /\ worker[w].at = "start" /\ Owns(w) /\ Spend("fail", MaxFailures)
    /\ drv' = [drv EXCEPT !.live = FALSE]
    /\ Leave(w)
    /\ UNCHANGED <<act, desc, outbox, status, reply, aborts, parent, shown, ran, torn>>

\* The turn ends: with an answer, or with an error or a stop.
Answer(w) ==
    /\ worker[w].at = "answer" /\ Owns(w)
    /\ \E end \in {"stop", "bad"} : reply' = [reply EXCEPT ![worker[w].a] = end]
    /\ Goto(w, "release")
    /\ UNCHANGED <<act, desc, outbox, drv, status, aborts, parent, shown, ran, spent, torn>>

Finish(w) ==
    /\ worker[w].at = "release" /\ Owns(w)
    /\ Release(w, IF reply[worker[w].a] = "stop" THEN "idle" ELSE "error")
    /\ Goto(w, "complete")
    /\ UNCHANGED <<act, desc, outbox, reply, aborts, parent, shown, ran, spent, torn>>

\* A run that lost its lease ends quietly (LeaseLostError in run_loop).
Lost(w) ==
    /\ worker[w].at \in {"start", "answer", "release"} /\ ~Owns(w)
    /\ Goto(w, "complete")
    /\ UNCHANGED <<act, desc, outbox, drv, status, reply, aborts, parent, shown, ran, spent, torn>>

\* activation_completion_disposition, for the tool call.
Disposition(w) ==
    LET a == worker[w].a IN
    IF act[a].state = "bound" /\ act[a].gen = worker[w].gen /\ drv.gen = worker[w].gen
      THEN CASE drv.phase = "idle" -> Transcript(a)
             [] drv.phase = "reserved" -> "wait"
             [] OTHER -> "outcome_unknown"
      ELSE "wait"

\* The tool call completes the activation, or waits for who does.  The fences
\* of complete_activation are the conditions of its disposition.
ToolCompletes(w) ==
    LET a == worker[w].a IN
    /\ worker[w].at = "complete" /\ worker[w].tool
    /\ \/ Disposition(w) # "wait" /\ Complete(a, Disposition(w)) /\ Settled(a, FALSE)
       \/ Disposition(w) = "wait" /\ UNCHANGED <<act, desc, outbox>>
    /\ Goto(w, "wait")
    /\ UNCHANGED <<drv, status, reply, aborts, parent, shown, ran, spent, torn>>

\* complete_activation_for_child: a recovered run is completed from the
\* transcript, with no look at the phase its driver is in.
RecoveredCompletes(w) ==
    LET a == worker[w].a IN
    /\ worker[w].at = "complete" /\ ~worker[w].tool
    /\ \/ /\ act[a].state = "bound" /\ act[a].gen = worker[w].gen /\ drv.gen = worker[w].gen
          /\ Complete(a, Transcript(a)) /\ Settled(a, FALSE)
       \/ /\ ~(act[a].state = "bound" /\ act[a].gen = worker[w].gen /\ drv.gen = worker[w].gen)
          /\ UNCHANGED <<act, desc, outbox>>
    /\ Leave(w)
    /\ UNCHANGED <<drv, status, reply, aborts, parent, shown, ran, spent, torn>>

\* wait_for_outbox: the result becomes the result of the parent's tool call.
ToolReturns(w) ==
    LET a == worker[w].a IN
    /\ worker[w].at = "wait" /\ outbox[a].state # "waiting"
    /\ shown' = shown \cup {a}
    /\ Leave(w)
    /\ UNCHANGED <<act, desc, outbox, drv, status, reply, aborts, parent, ran, spent, torn>>

-----------------------------------------------------------------------------
(* A recovery pass over the child's expired driver, from its snapshot.      *)

\* One recovery pass at a time in a process; two processes may overlap.
Joins ==
    torn' = IF \E w \in Workers : worker[w].at \in Passing THEN torn \cup {"passes"} ELSE torn

\* Mutant: every expired run is replayed.
SnapshotToReplay(w) ==
    /\ worker[w] = Idle /\ drv.phase # "idle" /\ ~drv.live
    /\ Joins
    /\ worker' = [worker EXCEPT ![w] =
            [Idle EXCEPT !.at = "blocks", !.a = drv.trigger,
                         !.record = [phase |-> drv.phase, gen |-> drv.gen, trigger |-> drv.trigger]]]
    /\ UNCHANGED <<act, desc, outbox, drv, status, reply, aborts, parent, shown, ran, spent>>

Snapshot(w) ==
    /\ worker[w] = Idle /\ drv.phase # "idle" /\ ~drv.live
    /\ Joins
    /\ worker' = [worker EXCEPT ![w] =
            [Idle EXCEPT !.at = IF drv.phase = "reserved" THEN "blocks" ELSE "unknown",
                         !.a = drv.trigger,
                         !.record = [phase |-> drv.phase, gen |-> drv.gen, trigger |-> drv.trigger]]]
    /\ UNCHANGED <<act, desc, outbox, drv, status, reply, aborts, parent, shown, ran, spent>>

\* The record's run is the one the activation has, or the first it gets, and
\* the child's driver has not moved on.
Ambiguous(w) ==
    LET row == act[worker[w].a] IN
    /\ row.state \in {"claimed", "bound"}
    /\ row.gen \in {0, worker[w].record.gen} /\ drv.gen = worker[w].record.gen

\* Mutant: a run that had started is taken for a success.
UnknownSucceeds(w) ==
    LET a == worker[w].a IN
    /\ worker[w].at = "unknown"
    /\ \/ /\ Ambiguous(w)
          /\ Complete(a, "succeeded") /\ Settled(a, FALSE)
       \/ ~Ambiguous(w) /\ UNCHANGED <<act, desc, outbox>>
    /\ Goto(w, "repair")
    /\ UNCHANGED <<drv, status, reply, aborts, parent, shown, ran, spent, torn>>

\* recover_subagent_outboxes, for a run that had started: its outcome is
\* unknown and it is not run again.
Unknown(w) ==
    LET a == worker[w].a IN
    /\ worker[w].at = "unknown"
    /\ \/ /\ Ambiguous(w)
          /\ Complete(a, "outcome_unknown") /\ Settled(a, FALSE)
       \/ ~Ambiguous(w) /\ UNCHANGED <<act, desc, outbox>>
    /\ Goto(w, "repair")
    /\ UNCHANGED <<drv, status, reply, aborts, parent, shown, ran, spent, torn>>

\* recover_subagent_outboxes, for a child that released its driver.
IdleScan ==
    /\ \E a \in Acts :
         /\ act[a].state = "bound" /\ drv.phase = "idle" /\ act[a].gen = drv.gen
         /\ Complete(a, Transcript(a)) /\ Settled(a, FALSE)
    /\ UNCHANGED <<drv, status, reply, worker, aborts, parent, shown, ran, spent, torn>>

\* activation_blocks_reserved_replay
Blocks(w) ==
    /\ worker[w].at = "blocks"
    /\ Goto(w, IF Open(worker[w].a) THEN "pending" ELSE "repair")
    /\ UNCHANGED <<act, desc, outbox, drv, status, reply, aborts, parent, shown, ran, spent, torn>>

\* Mutant: an interrupt is left to the run that is resumed.
PendingLater(w) ==
    /\ worker[w].at = "pending" /\ Goto(w, "take")
    /\ UNCHANGED <<act, desc, outbox, drv, status, reply, aborts, parent, shown, ran, spent, torn>>

\* activation_interrupt_pending: the record says the child was only reserved,
\* so an interrupted activation is completed here.
Pending(w) ==
    LET a == worker[w].a IN
    /\ worker[w].at = "pending"
    /\ \/ /\ Open(a) /\ Interrupted(a)
          /\ Complete(a, "interrupted") /\ Settled(a, TRUE) /\ Goto(w, "repair")
       \/ ~(Open(a) /\ Interrupted(a)) /\ Goto(w, "take") /\ UNCHANGED <<act, outbox, desc>>
    /\ UNCHANGED <<drv, status, reply, aborts, parent, shown, ran, spent, torn>>

\* The marker of the snapshot is still there, expired.
Exact(w) ==
    /\ drv.phase = worker[w].record.phase /\ drv.gen = worker[w].record.gen
    /\ drv.trigger = worker[w].record.trigger /\ ~drv.live

\* reserve_recovered_run
TakeOver(w, phase) ==
    \/ /\ Exact(w)
       /\ drv' = [drv EXCEPT !.phase = phase, !.gen = @ + 1, !.live = TRUE, !.abort = FALSE]
       /\ worker' = [worker EXCEPT ![w].at = IF phase = "reserved" THEN "rebind" ELSE "fix",
                                   ![w].gen = drv.gen + 1]
       /\ status' = "busy"
    \/ ~Exact(w) /\ Leave(w) /\ UNCHANGED <<drv, status>>

TakeReserved(w) ==
    /\ worker[w].at = "take" /\ TakeOver(w, "reserved")
    /\ UNCHANGED <<act, desc, outbox, reply, aborts, parent, shown, ran, spent, torn>>

Rebindable(w) ==
    LET row == act[worker[w].a] IN
    /\ ~Interrupted(worker[w].a)
    /\ row.gen = 0 \/ row.gen = worker[w].record.gen

\* bind_recovered_activation.  An activation that ended meanwhile leaves the
\* new marker to be repaired; whatever does not match releases the child.
Rebind(w) ==
    LET a == worker[w].a IN
    /\ worker[w].at = "rebind" /\ Tears("dispatch")
    /\ \/ /\ Owns(w) /\ ~Open(a)
          /\ drv' = [drv EXCEPT !.live = FALSE] /\ status' = "error"
          /\ worker' = [worker EXCEPT ![w].at = "repair", ![w].record.gen = worker[w].gen]
          /\ UNCHANGED act
       \/ /\ Owns(w) /\ Open(a) /\ Rebindable(w)
          /\ act' = [act EXCEPT ![a] = [state |-> "bound", owner |-> w, live |-> FALSE,
                                        gen |-> worker[w].gen]]
          /\ Goto(w, "start") /\ UNCHANGED <<drv, status>>
       \/ /\ ~Owns(w) \/ (Open(a) /\ ~Rebindable(w))
          /\ Release(w, "error") /\ Leave(w) /\ UNCHANGED act
    /\ UNCHANGED <<desc, outbox, reply, aborts, parent, shown, ran, spent>>

\* repair_interrupted_session of the child: take the marker over ...
Repair(w) ==
    /\ worker[w].at = "repair" /\ TakeOver(w, "finalizing")
    /\ UNCHANGED <<act, desc, outbox, reply, aborts, parent, shown, ran, spent, torn>>

\* ... close the turn it left open, and release.
Fix(w) ==
    /\ worker[w].at = "fix"
    /\ reply' = IF Owns(w) /\ reply[worker[w].a] = "none"
                  THEN [reply EXCEPT ![worker[w].a] = "bad"] ELSE reply
    /\ Release(w, "error") /\ Leave(w)
    /\ UNCHANGED <<act, desc, outbox, aborts, parent, shown, ran, spent, torn>>

-----------------------------------------------------------------------------
(* Interrupts.                                                              *)

\* interrupt_subagent, asked for by the parent or by the stop of its tool
\* call: commit the request, and remember whom to abort.
Interrupt ==
    LET a == desc.active IN
    /\ a # 0 /\ Spend("interrupt", MaxInterrupts) /\ Tears("takeover")
    /\ desc' = [desc EXCEPT !.requested = a]
    /\ aborts' = IF act[a].state = "bound" THEN aborts \cup {[a |-> a, gen |-> act[a].gen]} ELSE aborts
    /\ UNCHANGED <<act, outbox, drv, status, reply, worker, parent, shown, ran>>

\* Mutant: what is bound is completed like what has not started.
ConsumeAny ==
    LET a == desc.active IN
    /\ a # 0 /\ Interrupted(a) /\ desc.applied # a
    /\ Complete(a, "interrupted") /\ Settled(a, TRUE) /\ UNCHANGED aborts
    /\ UNCHANGED <<drv, status, reply, worker, parent, shown, ran, spent, torn>>

\* consume_interrupt_requests: what has not started is completed, what is
\* bound is aborted.
Consume ==
    LET a == desc.active IN
    /\ a # 0 /\ Interrupted(a) /\ desc.applied # a
    /\ \/ /\ act[a].state \in {"accepted", "claimed"}
          /\ Complete(a, "interrupted") /\ Settled(a, TRUE) /\ UNCHANGED aborts
       \/ /\ act[a].state = "bound" /\ [a |-> a, gen |-> act[a].gen] \notin aborts
          /\ aborts' = aborts \cup {[a |-> a, gen |-> act[a].gen]} /\ UNCHANGED <<act, outbox, desc>>
    /\ UNCHANGED <<drv, status, reply, worker, parent, shown, ran, spent, torn>>

\* request_abort of that exact generation, and _mark_interrupt_applied.
Abort(target) ==
    /\ target \in aborts /\ aborts' = aborts \ {target}
    /\ IF drv.phase # "idle" /\ drv.live /\ drv.gen = target.gen
         THEN /\ drv' = [drv EXCEPT !.abort = TRUE]
              /\ desc' = [desc EXCEPT !.applied = IF Interrupted(target.a) THEN target.a ELSE @]
         ELSE UNCHANGED <<drv, desc>>
    /\ UNCHANGED <<act, outbox, status, reply, worker, parent, shown, ran, spent, torn>>

-----------------------------------------------------------------------------
(* The parent.                                                              *)

\* The parent run ends, having said more after the Task, or not.
ParentEnds ==
    /\ parent.live /\ parent.tail # 0 /\ \A w \in Workers : ~worker[w].tool
    /\ \E more \in BOOLEAN : parent' = [live |-> FALSE, tail |-> IF more THEN 0 ELSE parent.tail]
    /\ UNCHANGED <<act, desc, outbox, drv, status, reply, worker, aborts, shown, ran, spent, torn>>

\* Somebody writes to the parent session and a new run begins.
ParentResumes ==
    /\ ~parent.live /\ desc.gen < Activations
    /\ parent' = [live |-> TRUE, tail |-> 0]
    /\ UNCHANGED <<act, desc, outbox, drv, status, reply, worker, aborts, shown, ran, spent, torn>>

\* Mutant: results are acknowledged, and never put into the part.
DeliverShown(a) ==
    /\ outbox[a].state = "ready" /\ ~parent.live
    /\ a \in shown
    /\ outbox' = [outbox EXCEPT ![a].state = "delivered"]
    /\ UNCHANGED <<act, desc, drv, status, reply, worker, aborts, parent, shown, ran, spent, torn>>

\* ready_subagent_parent_sessions and apply_ready_subagent_outboxes_locked: a
\* result the parent has is acknowledged, one whose Task is the newest message
\* of an idle parent is put there, any other is left alone.
Deliver(a) ==
    /\ outbox[a].state = "ready" /\ ~parent.live
    /\ a \in shown \/ parent.tail = a
    /\ shown' = shown \cup {a}
    /\ outbox' = [outbox EXCEPT ![a].state = "delivered"]
    /\ UNCHANGED <<act, desc, drv, status, reply, worker, aborts, parent, ran, spent, torn>>

-----------------------------------------------------------------------------
(* Faults.                                                                  *)

Crash(w) ==
    /\ worker[w] # Idle /\ Spend("crash", MaxCrashes) /\ Tears("takeover")
    /\ Leave(w)
    /\ parent' = IF worker[w].tool THEN [parent EXCEPT !.live = FALSE] ELSE parent
    /\ UNCHANGED <<act, desc, outbox, drv, status, reply, aborts, shown, ran>>

\* The claim of a worker that is gone runs out, and that of a slow one.
ClaimExpires(a) ==
    /\ act[a].state = "claimed" /\ act[a].live
    /\ IF worker[act[a].owner].a = a
         THEN Spend("stall", MaxStalls) /\ Tears("dispatch") ELSE UNCHANGED <<spent, torn>>
    /\ act' = [act EXCEPT ![a].live = FALSE]
    /\ UNCHANGED <<desc, outbox, drv, status, reply, worker, aborts, parent, shown, ran>>

LeaseExpires ==
    /\ drv.phase # "idle" /\ drv.live
    /\ IF \E w \in Workers : worker[w].gen = drv.gen /\ worker[w].at \in Holding
         THEN Spend("stall", MaxStalls) /\ Tears("takeover") ELSE UNCHANGED <<spent, torn>>
    /\ drv' = [drv EXCEPT !.live = FALSE]
    /\ UNCHANGED <<act, desc, outbox, status, reply, worker, aborts, parent, shown, ran>>

-----------------------------------------------------------------------------
Dispatch(w) == ToolClaims(w) \/ Check(w) \/ Reserve(w) \/ Bind(w) \/ Undo(w) \/ Fail(w)
Run(w) ==
    \/ Start(w) \/ Answer(w) \/ Finish(w) \/ Lost(w)
    \/ ToolCompletes(w) \/ RecoveredCompletes(w) \/ ToolReturns(w)
Pass(w) ==
    \/ Unknown(w) \/ Blocks(w) \/ Pending(w) \/ TakeReserved(w) \/ Rebind(w)
    \/ Repair(w) \/ Fix(w)

Next ==
    \/ \E w \in Workers :
         \/ Accept(w) \/ ScannerClaims(w) \/ Dispatch(w) \/ Run(w) \/ StartFails(w)
         \/ Snapshot(w) \/ Pass(w) \/ Crash(w)
    \/ IdleScan \/ Interrupt \/ Consume \/ \E target \in aborts : Abort(target)
    \/ ParentEnds \/ ParentResumes
    \/ \E a \in Acts : Deliver(a) \/ ClaimExpires(a)
    \/ LeaseExpires

Spec == Init /\ [][Next]_vars

\* Processes go on with what they are at, and the leases of those that are
\* gone run out.  A recovery pass takes every scan in turn; its snapshot finds
\* an expired driver again and again, and so gets to it.
Fairness ==
    /\ \A w \in Workers : WF_vars(Dispatch(w)) /\ WF_vars(Run(w)) /\ WF_vars(Pass(w))
    /\ SF_vars(\E w \in Workers : Snapshot(w))
    /\ WF_vars(\E w \in Workers : ScannerClaims(w))
    /\ WF_vars(IdleScan) /\ WF_vars(Consume) /\ WF_vars(\E target \in aborts : Abort(target))
    /\ \A a \in Acts : WF_vars(Deliver(a)) /\ WF_vars(ClaimExpires(a) /\ UNCHANGED spent)
    /\ WF_vars(LeaseExpires /\ UNCHANGED spent) /\ WF_vars(ParentEnds)

FairSpec == Spec /\ Fairness

-----------------------------------------------------------------------------
\* The shape of the state.  Only the newest activation can be open.
TypeOK ==
    /\ act \in [Acts -> [state : {"none", "accepted", "claimed", "bound", "completed"},
                         owner : Workers \cup {None}, live : BOOLEAN, gen : Nat]]
    /\ outbox \in [Acts -> [state : {"none", "waiting", "ready", "delivered"},
                            outcome : {"waiting"} \cup Outcomes]]
    /\ desc \in [gen : 0..Activations, active : 0..Activations,
                 requested : 0..Activations, applied : 0..Activations]
    /\ status \in {"idle", "busy", "error"} /\ torn \subseteq {"dispatch", "takeover", "passes"}
    /\ \A a \in Acts : /\ Open(a) <=> desc.active = a
                       /\ (act[a].state = "completed") <=> outbox[a].state \in {"ready", "delivered"}

\* A trigger enters execution under one generation at most, whatever claims,
\* reservations and recovered markers race for it.
RunsOnce == \A a \in Acts : Cardinality(ran[a]) <= 1

\* Nothing is started for an activation whose outcome is out: not by a worker
\* that held an old claim, not by the replay of an old reservation.  (Unless
\* the child was taken over in between: see Window.)
NoStartAfterOutcome ==
    [][\A a \in Acts : torn = {} /\ outbox[a].state \in {"ready", "delivered"}
                          => ran'[a] = ran[a]]_vars

\* A success that is reported was run and answered, by this activation's turn.
SuccessIsAnswered ==
    \A a \in Acts : outbox[a].outcome = "succeeded" => reply[a] = "stop" /\ ran[a] # {}

\* An activation reported as interrupted before it started never starts, as
\* long as recovery passes of two processes do not overlap.
InterruptedNeverRan ==
    \A a \in Acts : torn = {} /\ outbox[a].outcome = "interrupted" => ran[a] = {}

\* Every accepted activation gets an outcome, through crashes, stalls, failed
\* starts and interrupts, if none of them falls into a window of the protocol.
Settles ==
    \A a \in Acts : act[a].state = "accepted" ~> (act[a].state = "completed" \/ torn # {})

\* An interrupt that is committed comes to an end under the same condition:
\* the activation is completed.
InterruptSettles ==
    \A a \in Acts :
        desc.requested = a ~> (desc.requested # a \/ act[a].state = "completed" \/ torn # {})

\* A result whose Task stays the newest message of its parent reaches it.
ResultShown ==
    \A a \in Acts : outbox[a].state = "ready" /\ parent.tail = a ~> a \in shown \/ parent.tail # a

\* What is reported of an activation is what happened to it, and it happened
\* once.
ReportIsTrue == TypeOK /\ RunsOnce /\ SuccessIsAnswered /\ InterruptedNeverRan

\* Accepted and interrupted activations are completed, and the parent sees it.
Completes == Settles /\ InterruptSettles /\ ResultShown
=============================================================================
