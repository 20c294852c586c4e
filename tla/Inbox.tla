------------------------------- MODULE Inbox -------------------------------
(***************************************************************************)
(* The durable inbox of one session (agent/inbox.py): input is accepted,   *)
(* claimed and materialised as a message at a step boundary, its files are *)
(* delivered, the model runs, and the claim is settled.  Every write of a  *)
(* worker is fenced by its driver generation (RunFence); between two of    *)
(* its transactions the worker may die, the user may cancel, a card may    *)
(* appear, and recovery (agent/recovery.py) may take the session over.     *)
(*                                                                         *)
(* One worker is modelled: every transaction of an older one is refused by *)
(* the fence.  `trigger' names the turn by the item whose message began    *)
(* it.  Two leases guard a run, the driver's (live) and the execution      *)
(* row's (ticket, ticketLive); they run out in either order.               *)
(***************************************************************************)
EXTENDS Naturals, Sequences, FiniteSets, SequencesExt

CONSTANTS
  Items,          \* agent_inbox_item ids
  Kind,           \* [Items -> Kinds]: delivery mode and origin
  Attached,       \* items that carry attachments
  MaxStepBatch,   \* MAX_STEP_BATCH
  MaxAttempts,    \* MAX_DURABLE_DELIVERY_ATTEMPTS
  MaxGeneration,  \* bound on driver generations
  MaxFaults,      \* bound on worker deaths
  None

Kinds == {"human", "platform", "report", "steer", "inject"}

ASSUME KindAssumption ==
  /\ Kind \in [Items -> Kinds]
  /\ Attached \subseteq Items
  /\ None \notin Items
  /\ {MaxStepBatch, MaxAttempts, MaxGeneration, MaxFaults} \subseteq Nat

VARIABLES
  generation, live,    \* the session's driver row, as RunFence sees it
  phase,               \* agent_driver_state.phase
  trigger,             \* agent_driver_state.trigger_message_id
  ticket, ticketLive,  \* session_execution: the run (its driver generation) and lease
  card,                \* a pending card, or a saved answer, owns the next turn
  item,                \* the inbox rows and their messages
  queue,               \* items in created_at order
  messages,            \* materialised user messages in created_at order
  task,                \* the live worker's next transaction
  plan, from,          \* a recovery worker's purpose and the generation it repairs
  verdict,             \* the worker's delivery bookkeeping
  faults               \* worker deaths so far

driver == <<generation, live, phase, trigger>>
execution == <<ticket, ticketLive, card>>
worker == <<task, plan, from, verdict>>
inboxVars == <<driver, execution, item, queue, messages, worker, faults>>

F == INSTANCE RunFence

Outcomes == {"none", "ran", "recovered", "delivery_error", "not_run", "canceled"}
NeverRan == {"delivery_error", "not_run"}

Row == [state: {"new", "accepted", "claimed", "settled", "canceled"},
        gen: 0..MaxGeneration,               \* generation that claims it
        turn: Items \cup {None},             \* turn_id
        attempts: 0..MaxAttempts,            \* delivery_attempts
        error: {"none", "retryable", "fatal"},  \* delivery_last_error
        again: 0..MaxAttempts,               \* attachment.delivery_failed events of its turn
        gone: BOOLEAN,                       \* its asset was deleted
        delivered: BOOLEAN,                  \* its files are in the sandbox
        expired: BOOLEAN,                    \* claim_expires_at has passed
        reply: {"none", "open", "tools", "done"},  \* assistant messages under its message
        seen: BOOLEAN,                       \* the model was given its message
        ranBy: 0..MaxGeneration,             \* generation that ran the turn it began
        outcome: Outcomes]

Blank == [state |-> "new", gen |-> 0, turn |-> None, attempts |-> 0, error |-> "none",
          again |-> 0, gone |-> FALSE, delivered |-> FALSE, expired |-> FALSE,
          reply |-> "none", seen |-> FALSE, ranBy |-> 0, outcome |-> "none"]

Pcs == {"none", "claim", "deliver", "delivered", "start", "refused", "boot", "boundary",
        "stepDeliver", "stepDelivered", "step", "stream", "final", "settle", "finish", "leave",
        "rebind", "unclaimed", "repair", "resettle", "answered"}

NoVerdict == [i \in Items |-> "none"]

InboxInit ==
  /\ F!Init
  /\ phase = "idle" /\ trigger = None
  /\ ticket = 0 /\ ticketLive = FALSE /\ card = FALSE
  /\ item = [i \in Items |-> Blank]
  /\ queue = <<>> /\ messages = <<>>
  /\ task = "none" /\ plan = "none" /\ from = 0 /\ verdict = NoVerdict
  /\ faults = 0

-----------------------------------------------------------------------------
(* Selections.                                                             *)

NextTurn(i) == Kind[i] \in {"human", "platform", "report"}
NextStep(i) == ~NextTurn(i)
Human(i) == Kind[i] \in {"human", "steer"}

\* The items of S in the order of s.
Among(s, S) ==
  LET f[n \in 0..Len(s)] ==
        IF n = 0 THEN <<>>
        ELSE IF s[n] \in S THEN Append(f[n - 1], s[n]) ELSE f[n - 1]
  IN f[Len(s)]

State(s) == {i \in Items : item[i].state = s}
Claimed(g) == {i \in State("claimed") : item[i].gen = g}
Oldest(S) == Among(queue, State("accepted") \cap S)
First(s, n) == SubSeq(s, 1, IF Len(s) < n THEN Len(s) ELSE n)
LastOf(s, S) == Last(Among(s, S))

\* _selected_boundary_rows: what one boundary takes, in message order.
SelectedRows(includeNextTurn) ==
  LET steps == First(Oldest({i \in Items : NextStep(i)}), MaxStepBatch)
      turns == First(Oldest({i \in Items : NextTurn(i)}), 1)
      answer == First(Oldest({i \in Items : Kind[i] = "human"}), 1)
  IN IF \E i \in State("claimed") : Kind[i] = "report" THEN <<>>
     ELSE IF card THEN (IF includeNextTurn THEN answer ELSE <<>>)
     ELSE IF ~includeNextTurn \/ turns = <<>> THEN steps
     ELSE IF Kind[turns[1]] # "report" THEN steps \o turns
     ELSE IF steps = <<>> THEN turns ELSE steps

\* run_has_claimed_turn
TurnClosed == Claimed(generation) # {} \/ trigger # None

\* _has_waking_input
Waking ==
  \E i \in State("accepted") :
    IF card THEN Kind[i] = "human" ELSE Kind[i] # "inject"

\* The user messages the model is given: never-ran input is excluded.
Surface == Among(messages, {i \in Items : item[i].outcome \notin NeverRan})

-----------------------------------------------------------------------------
(* Input and its environment.                                              *)

\* accept_inbox_item; a repeated client id finds the row and changes nothing.
Accept(i) ==
  /\ item[i].state = "new"
  /\ item' = [item EXCEPT ![i].state = "accepted"]
  /\ queue' = Append(queue, i)
  /\ UNCHANGED <<driver, execution, messages, worker, faults>>

CancelAny(S) ==
  item' = [i \in Items |-> IF i \in S /\ item[i].state # "new"
                             THEN [item[i] EXCEPT !.state = "canceled", !.outcome = "canceled"]
                             ELSE item[i]]

\* cancel_inbox_items: only what is still accepted.
CancelRows(S) ==
  item' = [i \in Items |-> IF i \in S /\ item[i].state = "accepted"
                             THEN [item[i] EXCEPT !.state = "canceled", !.outcome = "canceled"]
                             ELSE item[i]]

CancelItems(S) ==
  /\ CancelRows(S)
  /\ UNCHANGED <<driver, execution, queue, messages, worker, faults>>

\* The owner deletes an asset that is attached to queued or claimed input.
DeleteAsset(i) ==
  /\ i \in Attached /\ ~item[i].gone /\ item[i].state \in {"accepted", "claimed"}
  /\ item' = [item EXCEPT ![i].gone = TRUE]
  /\ UNCHANGED <<driver, execution, queue, messages, worker, faults>>

\* CLAIM_SECONDS pass; a claim is never renewed.
ClaimExpires(i) ==
  /\ item[i].state = "claimed" /\ ~item[i].expired
  /\ item' = [item EXCEPT ![i].expired = TRUE]
  /\ UNCHANGED <<driver, execution, queue, messages, worker, faults>>

\* question.ask: by the run that owns the execution row.  One that lost its
\* driver lease can still ask; it then stops, and finish_run frees the row.
Ask ==
  LET current == live /\ ticket = generation IN
  /\ ticketLive /\ ~card /\ (current => task = "stream")
  /\ card' = TRUE
  /\ ticket' = IF current THEN ticket ELSE 0
  /\ ticketLive' = current
  /\ UNCHANGED <<driver, item, queue, messages, worker, faults>>

\* The card is answered and resumed, expires, or is cancelled.
CardGone ==
  /\ card
  /\ card' = FALSE
  /\ UNCHANGED <<driver, ticket, ticketLive, item, queue, messages, worker, faults>>

\* The execution lease of a run whose worker is gone runs out.
TicketExpires ==
  /\ ticketLive /\ ~(live /\ ticket = generation)
  /\ ticketLive' = FALSE
  /\ UNCHANGED <<driver, ticket, card, item, queue, messages, worker, faults>>

\* _recover_expired_run
RecoverExpiredRun ==
  /\ ticket # 0 /\ ~ticketLive
  /\ ticket' = 0
  /\ UNCHANGED <<driver, ticketLive, card, item, queue, messages, worker, faults>>

\* cancel_session: the run's execution and the cards of its turn are revoked.
CancelSession ==
  /\ ticket # 0
  /\ ticket' = 0 /\ ticketLive' = FALSE /\ card' = FALSE
  /\ UNCHANGED <<driver, item, queue, messages, worker, faults>>

-----------------------------------------------------------------------------
(* What a worker's transactions share.  At(p): the worker of the live      *)
(* generation is about to run p; an older one is refused by the fence.     *)

At(p) == F!Holds(generation) /\ task = p

Idle == task' = "none" /\ plan' = "none" /\ from' = 0 /\ verdict' = NoVerdict

\* release: the driver row is idle again.
Release == F!End /\ phase' = "idle" /\ trigger' = None /\ Idle

\* preserve_for_recovery: the marker stays, expired.
Preserve == F!End /\ UNCHANGED <<phase, trigger>> /\ Idle

Settled(r, outcome) == [r EXCEPT !.state = "settled", !.outcome = outcome, !.expired = FALSE]

\* settle_claimed_inbox_items: what this generation claimed.
SettleClaims(outcome) ==
  item' = [i \in Items |-> IF i \in Claimed(generation) THEN Settled(item[i], outcome)
                                                         ELSE item[i]]

\* close_never_ran_locked: with close, a reply under the last of S ends the turn.
CloseNeverRan(S, outcome, close) ==
  item' = [i \in Items |->
             IF i \notin S THEN item[i]
             ELSE [Settled(item[i], outcome) EXCEPT
                     !.reply = IF close /\ i = LastOf(queue, S) THEN "done" ELSE @]]

\* latest_turn_input_locked
LatestTurnInput ==
  LastOf(messages, {trigger} \cup {i \in State("claimed") \cup State("settled") :
                                     item[i].turn = trigger /\ item[i].outcome \notin NeverRan})

\* Tail repair closes replies that an older run left open.
TailClosed ==
  [i \in Items |-> IF item[i].reply = "open" THEN [item[i] EXCEPT !.reply = "done"]
                                             ELSE item[i]]

-----------------------------------------------------------------------------
(* Wake and boundary.                                                      *)

\* _reserve_and_claim, first half: input that may run, and reserve_run.
Wake ==
  /\ phase = "idle" /\ Waking
  /\ F!Begin
  /\ phase' = "reserved" /\ trigger' = None /\ task' = "claim"
  /\ UNCHANGED <<execution, item, queue, messages, plan, from, verdict, faults>>

Broken(rows) == {i \in Range(rows) : i \in Attached /\ item[i].gone}

\* claim_inbox_boundary's retry: the broken rows are cancelled, the rest tried again.
CancelBroken(rows) ==
  /\ Broken(rows) # {}
  /\ CancelRows(Broken(rows))
  /\ UNCHANGED <<driver, execution, queue, messages, worker, faults>>

\* _claim_inbox_boundary_once: messages, claims and trigger in one transaction.
Materialise(rows, next) ==
  LET mine == Claimed(generation)
      turn == IF mine # {} THEN item[CHOOSE i \in mine : TRUE].turn
              ELSE IF trigger # None THEN trigger ELSE Last(rows)
  IN /\ rows # <<>> /\ Broken(rows) = {}
     /\ item' = [i \in Items |->
                   IF i \in Range(rows)
                     THEN [item[i] EXCEPT !.state = "claimed", !.gen = generation,
                                          !.turn = turn, !.expired = FALSE]
                     ELSE item[i]]
     /\ messages' = messages \o rows
     /\ trigger' = turn
     /\ verdict' = [i \in Items |-> IF i \in Range(rows) THEN "todo" ELSE "none"]
     /\ task' = next
     /\ UNCHANGED <<generation, live, phase, queue, plan, from, faults>>

\* Outside a run a person's message supersedes cards and the run (invalidate_locked).
Supersede(rows) ==
  IF \E i \in Range(rows) : Human(i)
    THEN ticket' = 0 /\ ticketLive' = FALSE /\ card' = FALSE
    ELSE UNCHANGED execution

ClaimWoken ==
  LET rows == SelectedRows(TRUE) IN
  /\ At("claim")
  /\ \/ CancelBroken(rows)
     \/ Materialise(rows, "deliver") /\ Supersede(rows)
     \/ /\ rows = <<>> /\ task' = "leave"
        /\ UNCHANGED <<driver, execution, item, queue, messages, plan, from, verdict, faults>>

ClaimStep ==
  LET rows == SelectedRows(~TurnClosed) IN
  /\ At("boundary") /\ ticket = generation
  /\ \/ CancelBroken(rows)
     \/ Materialise(rows, "stepDeliver") /\ UNCHANGED execution
     \/ /\ rows = <<>> /\ task' = "step"
        /\ UNCHANGED <<driver, execution, item, queue, messages, plan, from, verdict, faults>>

-----------------------------------------------------------------------------
(* Delivery: item by item, each result in a transaction of its own.        *)

With(v) == {i \in Items : verdict[i] = v}
Undelivered == Among(queue, With("todo"))
Delivering == F!Holds(generation) /\ task \in {"deliver", "stepDeliver"} /\ Undelivered # <<>>

\* terminal_delivery_failure_code: an earlier pass already proved it terminal.
Spent(i) == item[i].error = "fatal" \/ item[i].attempts >= MaxAttempts

\* Nothing to transfer, or nothing left to try.
SkipDelivery ==
  LET i == Head(Undelivered)
  IN /\ Delivering
     /\ i \notin Attached \/ Spent(i)
     /\ verdict' = [verdict EXCEPT ![i] = IF i \in Attached THEN "terminal" ELSE "run"]
     /\ UNCHANGED <<driver, execution, item, queue, messages, task, plan, from, faults>>

\* deliver_asset_ids and _record_delivery_success or _record_delivery_failure.
DeliverItem(result) ==
  LET i == Head(Undelivered)
      attempt == item[i].attempts + 1
  IN /\ Delivering
     /\ i \in Attached /\ ~Spent(i)
     /\ item[i].gone => result = "fatal"
     /\ item' = [item EXCEPT ![i] =
                   IF result = "ok"
                     THEN [@ EXCEPT !.delivered = TRUE, !.error = "none"]
                     ELSE [@ EXCEPT !.attempts = attempt, !.error = result]]
     /\ verdict' = [verdict EXCEPT ![i] =
                      IF result = "ok" THEN "run"
                      ELSE IF result = "fatal" \/ attempt >= MaxAttempts THEN "terminal"
                      ELSE "pending"]
     /\ UNCHANGED <<driver, execution, queue, messages, task, plan, from, faults>>

UnfinishedNever == FALSE

\* DeliveryResult.pending: a file failed and may be tried again.
Unfinished == With("pending") # {}

\* _settle_delivery_failures; nothing left of the boundary closes its turn.
SettleDelivery ==
  /\ F!Holds(generation) /\ task \in {"deliver", "stepDeliver"} /\ Undelivered = <<>>
  /\ CloseNeverRan(With("terminal"), "delivery_error",
                   With("run") = {} /\ ~Unfinished)
  /\ task' = IF task = "deliver" THEN "delivered" ELSE "stepDelivered"
  /\ UNCHANGED <<driver, execution, queue, messages, plan, from, verdict, faults>>

\* A pending file keeps the marker for recovery; nothing runnable ends the run.
ConcludeDelivery ==
  /\ At("delivered")
  /\ IF Unfinished
       THEN Preserve
       ELSE /\ task' = IF With("run") = {} THEN "leave" ELSE "start"
            /\ verdict' = NoVerdict
            /\ UNCHANGED <<driver, plan, from>>
  /\ UNCHANGED <<execution, item, queue, messages, faults>>

\* Within a run a pending file fails the run, which also ends its execution.
ConcludeStepDelivery ==
  /\ At("stepDelivered")
  /\ IF Unfinished
       THEN /\ Preserve
            /\ ticket' = IF ticket = generation THEN 0 ELSE ticket
            /\ ticketLive' = (ticketLive /\ ticket # generation)
       ELSE /\ task' = "step" /\ verdict' = NoVerdict
            /\ UNCHANGED <<driver, plan, from, ticket, ticketLive>>
  /\ UNCHANGED <<card, item, queue, messages, faults>>

-----------------------------------------------------------------------------
(* The run.                                                                *)

Worker(p, q) ==
  /\ At(p) /\ task' = q
  /\ UNCHANGED <<generation, live, trigger, queue, messages, plan, from, verdict, faults>>

\* start_run refuses while a card or an unexpired run of this turn is there.
StartRun ==
  LET admitted == ~card /\ ~ticketLive IN
  /\ Worker("start", IF admitted THEN "boot" ELSE "refused")
  /\ ticket' = IF admitted THEN generation ELSE ticket
  /\ ticketLive' = (admitted \/ ticketLive)
  /\ UNCHANGED <<phase, card, item>>

\* settle_refused_claims
SettleRefused ==
  /\ Worker("refused", "leave")
  /\ CloseNeverRan(Claimed(generation), "not_run", TRUE)
  /\ UNCHANGED <<phase, execution>>

EnterRunning ==
  /\ Worker("boot", "boundary")
  /\ phase' = "running"
  /\ UNCHANGED <<execution, item>>

\* Build the context, and call the model unless the last input is answered.
Step ==
  LET closed == TailClosed
      over == Surface = <<>> \/ closed[Last(Surface)].reply = "done"
  IN /\ Worker("step", IF over THEN "final" ELSE "stream")
     /\ item' = IF over THEN closed
                ELSE [i \in Items |->
                        [closed[i] EXCEPT
                           !.seen = @ \/ i \in Range(Surface),
                           !.ranBy = IF i = trigger THEN generation ELSE @,
                           !.reply = IF i = Last(Surface) /\ @ = "none" THEN "open" ELSE @]]
     /\ UNCHANGED <<phase, execution>>

\* The provider step ends: tool calls lead to another boundary unless one asked.
StepDone(finish) ==
  /\ Worker("stream", IF finish = "tools" /\ ~card THEN "boundary" ELSE "final")
  /\ ticket = generation
  /\ card => finish = "tools"
  /\ item' = [item EXCEPT ![Last(Surface)].reply = finish]
  /\ UNCHANGED <<phase, execution>>

\* A stop, or a revoked execution, seen at a boundary: the turn is closed.
AbortTurn ==
  /\ Worker("boundary", "final")
  /\ item' = [item EXCEPT ![LatestTurnInput].reply = "done"]
  /\ UNCHANGED <<phase, execution>>

EnterFinalizing ==
  /\ Worker("final", "settle")
  /\ phase' = "finalizing"
  /\ UNCHANGED <<execution, item>>

SettleRun ==
  /\ Worker("settle", "finish")
  /\ SettleClaims("ran")
  /\ UNCHANGED <<phase, execution>>

\* finish_run: only the run that still owns the execution row.
FinishRun ==
  /\ Worker("finish", "leave")
  /\ ticket' = IF ticket = generation THEN 0 ELSE ticket
  /\ ticketLive' = (ticketLive /\ ticket # generation)
  /\ UNCHANGED <<phase, card, item>>

Leave ==
  /\ At("leave") /\ Release
  /\ UNCHANGED <<execution, item, queue, messages, faults>>

\* RunRevoked while a step is in flight: released, its claims untouched.
Revoked ==
  /\ At("stream") /\ ticket # generation /\ Release
  /\ UNCHANGED <<execution, item, queue, messages, faults>>

\* The process dies, its lease lapses, or a failed run preserves its marker.
Dies ==
  /\ faults < MaxFaults
  /\ Preserve
  /\ faults' = faults + 1
  /\ UNCHANGED <<execution, item, queue, messages>>

-----------------------------------------------------------------------------
(* Recovery.                                                               *)

TakeOver(p, why, g) ==
  /\ F!Begin
  /\ phase' = p /\ plan' = why /\ from' = g /\ task' = "rebind"
  /\ UNCHANGED <<execution, item, queue, messages, verdict, faults>>

ReplayableRun == phase \in {"reserved", "running"} /\ trigger # None

\* A wake that never crossed the running boundary.
Replayable == phase = "reserved" /\ trigger # None

\* Every other row that is not idle and whose lease is gone.
Repairable == phase # "idle" /\ ~Replayable

\* resume_reserved_prompts with _trigger_state: an unanswered wake is replayed.
RecoverPrompt ==
  LET mine == Claimed(generation)
      inputs == IF mine = {} THEN {trigger} ELSE mine
      answered == item[LastOf(messages, inputs)].reply # "none"
  IN /\ Replayable
     /\ IF answered THEN TakeOver("finalizing", "settle", generation)
        ELSE TakeOver("reserved", IF inputs \cap Attached = {} THEN "replay" ELSE "redeliver",
                      generation)
     /\ UNCHANGED trigger

\* repair_interrupted_session
RecoverRun ==
  /\ Repairable
  /\ TakeOver("finalizing", "repair", generation)
  /\ UNCHANGED trigger

\* settle_orphaned_claims: an answered claim beside an idle driver.
RecoverOrphans(g) ==
  /\ phase = "idle"
  /\ \E i \in Claimed(g) : item[i].expired
  /\ \E i \in Claimed(g) : item[i].reply \in {"tools", "done"}
  /\ TakeOver("finalizing", "orphan", g)
  /\ trigger' = None

\* _settle_unstarted_claims: expired, no run, no reply at all; no generation.
SettleUnstarted(g) ==
  /\ phase = "idle" /\ ticket = 0
  /\ Claimed(g) # {} /\ \A i \in Claimed(g) : item[i].expired /\ item[i].reply = "none"
  /\ CloseNeverRan(Claimed(g), "not_run", TRUE)
  /\ UNCHANGED <<driver, execution, queue, messages, worker, faults>>

\* rebind_recovered_claims, and what each recovery does with the claims.
Rebind ==
  LET rows == Claimed(from) IN
  /\ At("rebind")
  /\ item' = [i \in Items |-> IF i \in rows
                                THEN [item[i] EXCEPT !.gen = generation, !.expired = FALSE]
                                ELSE item[i]]
  /\ task' = CASE plan = "replay" -> "start"
             [] plan = "redeliver" -> IF rows = {} THEN "unclaimed" ELSE "deliver"
             [] plan = "repair" -> "repair"
             [] OTHER -> "answered"
  /\ verdict' = [i \in Items |-> IF plan = "redeliver" /\ i \in rows THEN "todo" ELSE "none"]
  /\ plan' = "none" /\ from' = 0
  /\ UNCHANGED <<driver, execution, queue, messages, faults>>

\* A failed rebind of a replay releases the takeover.
RebindFails ==
  /\ At("rebind") /\ plan \in {"replay", "redeliver", "settle"}
  /\ faults < MaxFaults /\ faults' = faults + 1
  /\ Release
  /\ UNCHANGED <<execution, item, queue, messages>>

\* deliver_unclaimed_attachments: the trigger's files, with a budget of its own.
DeliverUnclaimed(result) ==
  LET attempt == item[trigger].again + 1
      ended == result = "fatal" \/ attempt >= MaxAttempts
  IN /\ At("unclaimed") /\ item[trigger].again < MaxAttempts
     /\ item[trigger].gone => result = "fatal"
     /\ CASE result = "ok" ->
               /\ item' = [item EXCEPT ![trigger].delivered = TRUE]
               /\ task' = "start" /\ UNCHANGED <<driver, plan, from, verdict>>
          [] result # "ok" /\ ended ->
               /\ item' = [item EXCEPT ![trigger].again = MaxAttempts,
                                       ![LatestTurnInput].reply = "done"]
               /\ task' = "leave" /\ UNCHANGED <<driver, plan, from, verdict>>
          [] OTHER -> item' = [item EXCEPT ![trigger].again = attempt] /\ Preserve
     /\ UNCHANGED <<execution, queue, messages, faults>>

\* An earlier pass already closed the turn.
UnclaimedClosed ==
  /\ Worker("unclaimed", "leave") /\ item[trigger].again >= MaxAttempts
  /\ UNCHANGED <<phase, execution, item>>

\* The messages of turn t that tail repair groups: those the model may see, and
\* all of them when the model may see none (model_turn_members).
Members(t) ==
  LET turn == {i \in Range(messages) : item[i].turn = t}
      shown == turn \cap Range(Surface)
  IN IF shown = {} THEN turn ELSE shown

\* repair_canonical_tail_locked: the trigger's turn, or every turn without one,
\* ends in a terminal reply.  A turn whose members no longer hold the trigger,
\* because its delivery failed, is passed over.
Repair ==
  /\ Worker("repair", "resettle")
  /\ item' = [i \in Items |->
                LET users == Members(item[i].turn) IN
                IF /\ i \in users /\ trigger \in users \cup {None}
                   /\ i = LastOf(messages, users) \/ item[i].reply = "open"
                  THEN [item[i] EXCEPT !.reply = "done"] ELSE item[i]]
  /\ UNCHANGED <<phase, execution>>

\* _recovered_terminal_message_id: what was claimed needs a terminal reply
\* under the last of it.
RecoveredTerminal ==
  LET mine == Claimed(generation)
  IN mine # {} => item[LastOf(messages, mine)].reply = "done"

Resettle ==
  /\ Worker("resettle", "leave") /\ RecoveredTerminal
  /\ SettleClaims("recovered")
  /\ UNCHANGED <<phase, execution>>

\* Otherwise it raises: nothing is settled and the marker stays recoverable.
ResettleRaises ==
  /\ At("resettle") /\ ~RecoveredTerminal
  /\ Preserve
  /\ UNCHANGED <<execution, item, queue, messages, faults>>

\* An answered wake or orphan is settled with the reply its scan found.
SettleAnswered ==
  /\ Worker("answered", "leave")
  /\ SettleClaims("recovered")
  /\ UNCHANGED <<phase, execution>>

-----------------------------------------------------------------------------
Environment ==
  \/ \E i \in Items : Accept(i) \/ DeleteAsset(i)
  \/ \E S \in SUBSET Items : CancelItems(S)
  \/ Ask \/ CardGone \/ CancelSession \/ Dies \/ RebindFails

Clocks ==
  \/ \E i \in Items : ClaimExpires(i)
  \/ TicketExpires \/ RecoverExpiredRun

Results == {"ok", "retryable", "fatal"}

Deliver ==
  \/ SkipDelivery \/ SettleDelivery \/ ConcludeDelivery \/ ConcludeStepDelivery
  \/ \E r \in Results : DeliverItem(r) \/ DeliverUnclaimed(r)
  \/ UnclaimedClosed

Run ==
  \/ ClaimWoken \/ ClaimStep
  \/ StartRun \/ SettleRefused \/ EnterRunning
  \/ Step \/ AbortTurn \/ EnterFinalizing
  \/ \E f \in {"tools", "done"} : StepDone(f)
  \/ SettleRun \/ FinishRun \/ Leave \/ Revoked
  \/ Rebind \/ Repair \/ Resettle \/ ResettleRaises \/ SettleAnswered

Recover ==
  \/ Wake \/ RecoverPrompt \/ RecoverRun
  \/ \E g \in 1..MaxGeneration : RecoverOrphans(g) \/ SettleUnstarted(g)

InboxNext == Environment \/ Clocks \/ Deliver \/ Run \/ Recover

InboxSpec == InboxInit /\ [][InboxNext]_inboxVars

(* A worker that does not die takes its next transaction, the model's      *)
(* answers end, leases and claims lapse in real time, and the periodic     *)
(* recovery pass (recovery_service) keeps running each of its scans.       *)
Fairness ==
  /\ WF_inboxVars(Deliver \/ Run) /\ WF_inboxVars(Clocks) /\ WF_inboxVars(Recover)
  /\ SF_inboxVars(StepDone("done"))

FairSpec == InboxSpec /\ Fairness

-----------------------------------------------------------------------------
InboxTypeOK ==
  /\ generation \in 0..MaxGeneration /\ live \in BOOLEAN
  /\ phase \in {"idle", "reserved", "running", "finalizing"}
  /\ trigger \in Items \cup {None}
  /\ ticket \in 0..MaxGeneration /\ ticketLive \in BOOLEAN /\ card \in BOOLEAN
  /\ item \in [Items -> Row]
  /\ queue \in Seq(Items) /\ messages \in Seq(Items)
  /\ task \in Pcs /\ from \in 0..MaxGeneration
  /\ plan \in {"none", "replay", "redeliver", "settle", "repair", "orphan"}
  /\ verdict \in [Items -> {"none", "todo", "run", "terminal", "pending"}]
  /\ faults \in 0..MaxFaults

\* Every claimed or settled input was materialised as exactly one message and
\* cancelled input as none, however cancelling and claiming interleave and
\* however often recovery takes the claim over.
MessagesMatchRows ==
  /\ IsInjective(messages)
  /\ Range(messages) = State("claimed") \cup State("settled")

\* A logical turn consumes at most one next-turn item, and a task report runs
\* in a turn of its own: across step boundaries, takeovers and replays.
TurnShape ==
  \A t \in Items :
    LET members == {i \in Items : item[i].turn = t} IN
    /\ Cardinality({i \in members : NextTurn(i)}) <= 1
    /\ (\E i \in members : Kind[i] = "report") => Cardinality(members) = 1

\* Strict delivery: while the model runs, the files of every input this
\* generation claimed are in the sandbox.
FilesBeforeModel ==
  task = "stream" => \A i \in Claimed(generation) \cap Attached : item[i].delivered

\* Input settled for a failed delivery was never shown to the model: not by
\* the run that claimed it, nor by one before or after the failure.
FailedDeliveryUnseen ==
  \A i \in Items : item[i].outcome = "delivery_error" => ~item[i].seen

\* A wake is replayed only if it never crossed the running boundary: at most
\* one generation calls the model for a turn.
OneGenerationRunsTurn ==
  [][At("step") /\ task' = "stream" => item[trigger].ranBy \in {0, generation}]_inboxVars

\* What a revoked step leaves: a claim beside an idle driver whose reply is
\* still open, which neither orphan scan settles until another run repairs it.
LeftOpen(i) ==
  /\ phase = "idle" /\ item[i].state = "claimed"
  /\ \E j \in Claimed(item[i].gen) : item[j].reply = "open"

\* What a death leaves that no repair ends: the run of a turn that goes on
\* without its trigger, whose delivery failed (agent_event_log.py:2716-2723).
Unanchored ==
  /\ ~live /\ phase \in {"running", "finalizing"}
  /\ trigger # None /\ trigger \notin Members(trigger)

\* Accepted waking input ends settled or canceled, through deaths of its
\* worker, failing deliveries and refusals; only a card holds platform input
\* back, only a revoked step leaves a claim to the next run, and only a turn
\* that lost its trigger to a failed delivery and then its worker holds the
\* session.
Converges ==
  \A i \in Items :
    (item[i].state = "accepted" /\ Kind[i] # "inject")
      ~> \/ item[i].state \in {"settled", "canceled"}
         \/ LeftOpen(i) \/ Unanchored
         \/ card /\ Kind[i] # "human"

\* Rows, messages and turns agree: each input became one message of one turn.
InputKept == InboxTypeOK /\ MessagesMatchRows /\ TurnShape

\* The model sees an input with its files, or not at all.
FilesRespected == FilesBeforeModel /\ FailedDeliveryUnseen

\* Accepted input is dealt with, and its turn is run by one generation only.
SettledOnce == OneGenerationRunsTurn /\ Converges

\* "Independent periodic convergence for durable Agent work": no claim stays.
\* Known gap, README section 5.
ClaimsConverge ==
  \A i \in Items : item[i].state = "claimed" ~> item[i].state = "settled"

\* "It was not sent to the model": what a row settled as not run tells its user.
\* Known gap, README section 5.
NeverRanUnseen ==
  \A i \in Items : item[i].outcome \in NeverRan => ~item[i].seen

\* "Running the model without those declared files would be a false success":
\* no claimed input of the turn, of any generation, lacks its files.
\* Known gap, README section 5.
TurnFilesBeforeModel ==
  task = "stream" =>
    \A i \in State("claimed") \cap Attached : item[i].turn = trigger => item[i].delivered

\* "A claimed attachment failed transiently and remains recoverable": it is
\* not settled while it may still be tried again.
\* Known gap, README section 5.
TransientRemainsRecoverable ==
  \A i \in Items :
    item[i].state = "settled" /\ item[i].error = "retryable"
      => item[i].attempts >= MaxAttempts

\* "A pending card (or an answer about to resume it) owned the turn" whenever
\* start_run refuses a claimed generation.
\* Known gap, README section 5.
RefusedForCard == [][At("start") /\ task' = "refused" => card]_inboxVars
=============================================================================
