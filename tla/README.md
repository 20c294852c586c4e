# OpenBox: a TLA+ verification project

OpenBox is a platform that executes AI agents: a user's prompts drive an agent
loop that calls models and tools, and the tools act on sandboxes, cloud
desktops and paid providers. This project models the part of its backend whose
mistakes cost something outside a single request: who may run a session, who
may send a request, what happens to input, answers, child agents, scheduled
jobs, money, desktops and memories when processes race, stall or die. It
consists of TLA+ modules translated from the source, TLC configurations for
small instances, and TLAPS proofs for every value of the parameters.
`PROJECT.json` maps every definition to the lines it models.

## 1. The system

The kernel (`backend/agent`, `backend/session`, `docs/AGENT_KERNEL_ARCHITECTURE.md`)
is a pipeline over one relational database shared by several API processes:

    durable inbox -> single-session driver lease -> loop -> tool calls
       ^   ^                  |                      |        |
       |   |                  |                      |        +-> effect ledger -> providers, desktops
       |   answers, reports   |                      +-> cards, child agents
       cron results           +-- recovery pass (every ~15 s) over everything a dead process left

Beside it run the cron scheduler, billing with its payment gateway, the worker
that gives a paying workspace its desktop, and the memory workers. None of them
talks to another in memory across processes: they meet in rows of the database,
under leases that can run out while their holder still believes in them.

| component | state | operations | interacts with | what is hard | what makes it correct |
|---|---|---|---|---|---|
| agent driver (`agent/driver.py`) | one row per session: generation, phase, owner, trigger, lease deadline, stop request; in memory a `RunLease`, its monitor task, the abort event | reserve, renew, poll, check, set phase, bind trigger, release, preserve, take over, settle a stop | API, loop, recovery, stops, every fenced write | leases expire under a running owner; processes die; stops race replacements; quota counts live rows | one live generation per session; no lost marker; no replay of dispatched work; stops hit only their run |
| stop of a turn (`session/abort.py`) | where one request stands | snapshot, exact stop, wait, settlement | driver, question runtime | the run may be replaced between any two steps | the bookkeeping lands directly behind the stopped run |
| abort signals (`session/status.py`) | slot, events, remembered stop | register, trigger, revoke, discard, clear | driver, loop, stop | an old run cleans up after a new one started | the newest run can be stopped; no run starts stopped by accident |
| tool scheduler (`agent/tool_scheduler.py`) | groups, slots and bodies of one step | prepare, start, settle, commit, abort | loop, abort signals | bodies end in any order; stops and failures in the middle | true results in the model's order, nothing left running |
| effect ledger (`agent/effect_ledger.py`) | one row per external effect: state, origin run, counters, claim and deadline | prepare, claim, submit, check, accept, settle, record unknown, reconcile, defer, acknowledge | tools, driver fence, recovery | nothing is exactly-once; the worker may die on either side of the send | a request leaves at most once; "not sent" is true; every effect is settled |
| recovery (`agent/recovery.py`) | records read at the start of a pass | snapshot, replay, repair, settle | driver, inbox, ledger, children | acts on stale records, dies half-way | marker taken over exactly once |
| inbox (`agent/inbox.py`) | input items and their messages | accept, claim at a boundary, deliver files, settle, cancel, rebind | driver, loop, question runtime, recovery | a run dies between claim and settlement | no input lost or doubled, no model run without its files |
| question runtime (`question/`) | execution row (turn, run, lease, resume flag), cards | start, heartbeat, ask, answer, expire, invalidate, resume | driver, loop | the run that asked may still be alive; the worker that resumes may die | an answer reaches a run once |
| subagents (`agent/subagent_runtime.py`, `tool/task.py`) | activations, descriptor, outbox | accept, claim, bind, run, complete, interrupt, deliver | driver, parent transcript | dispatched by several processes; parent and child die independently | run by one generation, reported truly, shown to the parent |
| cron (`cron/`) | `running_at`, `next_run_at`, error counters; run rows with an injected flag | collect, claim, execute, apply, sweep, recover; inject, flush | agent loop | several replicas, stuck runs, restarts | one run of a job at a time, each result posted once |
| billing (`billing/`) | orders, terms, allowances, request caps, usage events | create, settle, refund, cancel, expire; purchase, grant; guard, charge | gateways, activation, media tools | repeated, reordered and lost receipts; late writes | money moves once and is never lost |
| desktop activation (`sandbox/desktop_activation.py`) | activation row under a lease, desktop row | claim, buy, adopt, renew, grant, suspend | cloud provider, billing | purchases with unknown outcome, a cloud that lags | one machine, one purchase per month, access as paid |
| memory (`memory/`) | extraction jobs and cursor; index outbox and state | enqueue, claim, commit, fail, replay; deliver, sweep, compare | sessions, vector index | late workers, an index without a fence | cursor without holes, nothing stale stored, purges true |
| event log, sessions, permissions, bus, assistant control, voice, trajectory, tools, API, clients | see `PROJECT.json` | | | mostly data and I/O | |

## 2. Plan and status

Done, in this order: RunFence, AgentDriver, EffectLedger, AbortSignals (with
proofs); ToolScheduler, Turn and Inbox (with proofs); QuestionRuntime (with
proofs); Subagents (with proofs); CronJobs and CronInjection (with proofs);
Payments, Subscriptions and CreditCap (with proofs); DesktopActivation (with
proofs); MemoryJobs and MemoryIndex (with proofs). Which theorems exist is in section 6.

Still worth doing: the sequence numbers and fences of the event log, and the
desktop control leases of the assistant, in this order of value.

## 3. Modules

Each module's header says which files it models; actions carry the names of the
functions they model. Three conventions hold throughout. A database transaction
is one step, and so is a function that does not await; whatever lies between two
transactions is a step boundary at which any other actor may move. A deadline is
kept as the time left to it (or as "live" / "not live" where only that matters),
so time passes without bound in a finite state space. A process that takes no
more steps is a silent process; `Crash` forgets its memory and leaves the rows.
Variables marked history serve properties only and guard nothing, with one
exception: `exempt` in AgentDriver also guards `PreserveBegin`, where it stands
for the run's knowledge that it is the settlement of a stop (`abort.py:284`).

**RunFence.** What a driver row promises to the tables it fences: `generation`
grows by one at a `Begin`, only over a row that is not live, and `End` is final.
`Holds(g)` is what `assert_run_fence_locked` checks. AgentDriver implements it
(checked by TLC and proved), EffectLedger and Inbox are composed with it.

**AgentDriver.** `driver[s]` is the `agent_driver_state` row, `lease[s][g]` the
`RunLease` object of generation g (phase of its life, owner, abort event with
its cause, time left on the transport receipt), `activity[w][s]` the process's
`_activities`, `markers[w]` the records of its recovery pass and `stop[p]` the
position of one `abort_session_turn`. `release`, `preserve` and the stop, which
have steps outside a transaction, are split there. A commit may fail
(`ReleaseFails`, `PreserveEnd(.., FALSE)`, `MonitorFails`). A `run_id` is minted
with its generation and is represented by it. All sessions belong to one user,
because the quota is per user. Left out: the renewal `assert_current` makes for an
object without a monitor (`driver.py:659`), `Session.status`, deletion of a
session, the non-exact `request_abort`, the branch of `abort_session_turn` for
sessions without a row, the stop of assistant reports.

**EffectLedger.** One `external_effects` row, with the workers that got a claim
on it (`worker[c]`, c the claim generation). A dispatch worker is claimed,
submitted (across the durable send boundary), checked (past
`assert_effect_dispatchable`, the request not gone yet) or refused; a recovery
worker follows the branch its snapshot selected. `adapter` is chosen at the
start: the desktop adapters (no reconciler, resource fence), one whose
reconciler needs a handle, one whose reconciler does not (image generation).
The adapter interface allows the second; no reconciler of the repository needs a
handle today, and what is found with it is found with the desktop adapters too.
`SettleDispatch` asks for a submitted row, `settle_effect` for any that is not
terminal: an operation that ends without having sent anything
(`runtime_operation.py:236`) is not modelled as a settlement of its own.
The desktop's resource fence only refuses, so `Refuse` may happen at every
check; its own rows are not modelled. `Submit` may commit without the worker
learning of it. `SettleUnsent` is allowed to a worker whose submit was not
acknowledged, a superset of what the code does.

**AbortSignals, ToolScheduler, Turn.** The three dictionaries of
`session/status.py` for one session; `run_ordered_tool_calls` for one model
step, with every await a step boundary; and Turn, which composes them: the event
that `register_run` made for the run `Mine` is the scheduler's abort event, and
runs before and after `Mine` register, are signalled and clean up around it. A
signal for the session is a user's stop (`Press`) or the shutdown (`Shutdown`,
`main.py:353`); a signal for one run (`SignalRun`) is its exact stop or its
revocation, a lease it lost (`driver.py:472`, 498, 663, 716, 744), a hold
(`scheduling.py:130`) or its budget (`budget.py:55`). `meant` (a stop pressed when
no run was on, not taken back since) and `signalled` are history. All three live
on one event loop, so signals move only while the scheduler awaits. A preparation
may wait for a permission, and nothing but its reply ends that wait
(`PreparationEnds`).

**Inbox.** The inbox rows and messages of one session, one worker (an older
one's transactions are refused by the fence), the driver row as RunFence sees
it, and the execution row's ticket. Kinds of input differ in whether they wake
the session and where they may be claimed. Two leases guard a run, the driver's
and the execution row's; they run out in either order. The repair of a dead run's
turn (`Repair`) looks at the messages the model may see (`Members`); the
settlement behind it needs a terminal reply under what was claimed and otherwise
raises and keeps the marker (`ResettleRaises`).

**QuestionRuntime.** `session_execution` (turn, run, lease, origin, progress,
resume intent), the cards, the loops of the runs and the continuation workers.
The driver only keeps two loops from being reserved at once. Plain sessions: the
assistant's detached cards and held tasks are left out. An expired card is
closed and applied at once, which is one way a saved intent may end without a
run (section 5). Any number of dispatchers apply answers and start runs; `fresh`
(the workers since whose application no run started) and `astray` (answers whose
intent an overtaken worker's run consumed) are history. The check that an answer
is still wanted may refuse it (`GuardFails`). The reservation and the invalidation
of a user's message (`session.py:1314`) are one step.

**Subagents.** One continuable child of one parent: activation rows,
descriptor, outbox, the child's driver, and workers that are tool calls or
recovery passes. The torn windows between two transactions of one operation are
steps; a process runs one recovery pass at a time. `torn` records that a crash,
an interrupt or a lost claim fell into a window for which the code has no repair
(section 5); the liveness property excepts those behaviours. Three pairs of
transactions are one step each: the read of the transcript and the completion
(`ToolCompletes`, `IdleScan`), and the two writes of an unknown outcome
(`Unknown`); a tool call that was stopped while it waits leaves by `Crash` only.

**CronJobs, CronInjection.** Replicas that collect, claim, execute and apply,
over rows of jobs of one user; one tick of the clock is long against a database
step. The database may fail in a claim, before or after its commit, and in the
application of a result: a tick then drops what it has claimed, a result is
lost, and a marker stays without a run (`orphans`, history). `resume_all` and
the recovery of a startup, several transactions each, are one step.
CronInjection follows the results into one conversation, where the executor, the
flush at the end of a turn, timeouts and restarts meet.

**Payments, Subscriptions, CreditCap.** Orders of one payer against a gateway
that repeats, delays, reorders and loses its notifications; prepaid terms,
allowances and operators under one lock; the paid media steps of a session
against the cap of a request. Payments extends Subscriptions: a settled
subscription order adds its term in the same transaction. Amounts are whole
credits. A prompt is sent in two steps, the look at an idle session (`BeginSend`)
and the cap (`SetCap`), between which other prompts may be sent and turns start;
`crossed` (history) says that a cap was replaced while the session was busy.

**DesktopActivation.** The activation row under its lease, the desktop row, the
cloud (external) and requests in flight, which outlive their sender. `world`
fixes for a behaviour what holds of the cloud: `prompt`, whether a request is
over before the lease of its sender ends, and
`lags`, which of the cloud's answers may not show a new machine yet. A worker is
cancelled when its lease is lost (`Heartbeat`), but also by a stop of the process
or a failed renewal while the lease is its own (`Cancelled`), and then gives it
back with its request under way; `faults.left` counts those. Whatever looks at or
revokes a machine first verifies its tag (`Verified`). The save and the look
before a suspension are one step, a throttled request is not repeated. Time
passes in months; channel attempt ids are recycled once nobody refers to them.

**MemoryJobs, MemoryIndex.** Extraction jobs of one branch with their cursor;
the index outbox of one memory, the index (external, no fence of its own), the
pass that finishes deletions and the one that compares. One index generation;
the sweep's grace period is taken to be longer than a write that is still under
lease; finished outbox rows nobody refers to are reused. The snapshot and the row
of a failed delivery (`outbox.py:256`) are one step, and access to a memory that
is lost does not come back (`outbox.py:118`). `stale` (history) says that the
comparing pass queued a repair that SQL had left behind. An extraction may also
end in an error of its own (`Raise`).

**MC modules.** MCAgentDriver, MCEffectLedger, MCInbox, MCQuestionRuntime,
MCSubagents, MCCron, MCBilling, MCDesktopActivation and MCMemory give instances.
Where one run covers several questions, a variable `scene` (`part` in MCCron),
fixed at the start, says which part of the constants a behaviour uses; the other
parts stay in their initial state, so that a scene is explored completely.

## 4. Runs

All runs complete; every action and disjunct of the next-state relations fires
in a passing run. Every property has a mutant, a plausible wrong version of one
definition, which TLC shows to violate it. Properties are conjunctions of named
parts where the parts are about one thing.

| run | instance | checks |
|---|---|---|
| agent_driver | 1 session, 2 processes, 1 message, 1 stop, 2 generations, lease 3, heartbeat 1, 1 crash | LeaseKept (types, receipts within the lease, dispatch window), RecoveredOnce (markers kept, no replay of dispatched work), ImplementsRunFence, RunsEnd (liveness: markers recovered, stops end runs) |
| agent_stop | 2 sessions, 2 processes, 1 stop, 3 generations, limit 1, 1 crash | QuotaHolds, StopHitsItsRun, SettlementFollowsItsRun |
| effect_ledger | 1 row of each adapter, 2 dispatch claims, 2 reconcile attempts, 1 recovery failure, 2 runs | SendSafe (sent once, unsent is true, sent by its origin), RecoveryInBounds (after the run, bounded queries), TerminalKept, Concluded (liveness) |
| effect_terminal_send | 1 dispatch claim, 1 reconcile attempt | TerminalNeverSends, **violated** |
| turn | 3 calls, pool of 2, 3 runs, remembered stop of 1 tick | StepIsSound, NewestReachable, NoAmbush, StopHalts, StepEnds (liveness) |
| inbox | a message with a file, a steer, a report; batch 2, 2 delivery attempts, 1 death | InputKept, FilesRespected, SettledOnce (with liveness) |
| question | 2 cards, 1 with a deadline, 2 dispatchers, 2 inputs, 1 fault | AnswerKept, AnswerResumes (liveness) |
| subagents | 2 activations, 2 workers, 1 each of interrupt, crash, stall, failure | ReportIsTrue, NoStartAfterOutcome, Completes (liveness) |
| cron | 2 replicas, 2 jobs, capacity 1, 1 crash or database error; 2 results | RunsInBounds, ResultsPostedOnce, StaysOff, NothingWaits (liveness) |
| billing | 5 scenes: 2 orders, 2 calls, 2 plans, 1 operator; 3 requests, 2 shots, 1 composition, 1 image | MoneyKept, TermsKept, CapKept, NothingTakenBack, RefreshedIsCredited (liveness) |
| activation | 3 scenes: 2 workers, 2 machines, 1 pooled, 2 months, 1 crash or cancellation | PaidForOnce, AccessAgrees, KeptAndServed (with liveness) |
| memory | 6 scenes: 2 turns, 2 workers; 3 revisions, 3 outbox rows | CursorSound, IndexSound, LateIsHarmless, SettlesInTheEnd (liveness) |

**Why the bounds suffice.** Two generations, claims, runs, activations or
workers are the old one and its successor, which is what nearly every hazard is
about; the settlement of a stop needs a third generation, the run that gets in
between. A lease of three ticks and a heartbeat of one is the smallest instance
with a margin that is not the whole lease. One crash suffices for each hazard,
since what a process leaves behind is a row like any other. The proofs remove
the bounds for the properties of section 6. What the instances leave out:

- agent_stop explores the corners of its instance that `Corners` names, with
  symmetry over sessions (no liveness in that run); agent_driver has either a
  second generation or a stop.
- inbox: the report comes into sessions without faults (`Calm`). SettledOnce
  excepts the claim of a run revoked in mid-step and a turn without its trigger
  (section 5).
- subagents: two bounded events, one if there is a follow-up (`Budget`).
- cron: with one job, two requests of users and one crash or database error,
  after which there is no second request; with two jobs, one manual run and
  neither crash nor error. OneRunAtATime and CapacityHolds are about replicas
  none of which restarts (section 5). NothingWaits asks for a conversation that
  is used again.
- billing: the cap is checked in one process, with one poller, without faults,
  overruns or images (scene cap); with them only single charging and refusal
  are claimed (scene charges).
- activation: renewal and race run in the vaguest world, the liveness part and
  cancellation in the exact one (scene access).
- memory: settling leaves out, by name, the three operations that settle a job
  and leave the cursor alone (section 5). The comparing pass runs beside one
  worker, of which a call may fail (scan), and beside two (repairs); delivery and
  purge are without it. The proof of IndexSound has no such restriction.

**Fairness.** AgentDriver: the database clock runs; a monitor polls while its
object is open; a run that was signalled or is settling reaches its next
boundary; recovery passes repeat. Nothing is assumed of reservations, commits or
of runs nobody stopped. EffectLedger: the clock runs, recovery passes repeat and
carry their claim through, runs and provider calls end (the heartbeat runs
inside the tool's timeout). Turn: the event loop runs the coordinator and the
deadline ends every body; nothing is assumed of preparations, which may wait for
a permission for ever (`hooks.py:862`, `permission.py:552`;
`tool_scheduler.py:209` awaits them without racing the signal), and StepEnds
names that case. Inbox and QuestionRuntime: clocks, recovery and worker loops
repeat; a step that can be completed again and again is completed (strong
fairness of `StepDone("done")` and of starting a run, which others may disable
only finitely often within the bounds). Subagents: every loop of a live process
goes on; strong fairness of the snapshot, since another pass may hold the row at
each single try. CronJobs: the clock, the timers of replicas that are up, and
`wait_for`; nobody is obliged to restart a replica. Payments: a page that goes
on refreshing one order, one call at a time (strong fairness, because every call
can fail). DesktopActivation and MemoryJobs/MemoryIndex: workers, the two passes
and the clock go on; requests land or fail.

**The violation.** *effect_terminal_send.* The comment at `effect_ledger.py:67`
says that a terminal row never sends, and `assistant/resource_control.py:205`
counts such rows as unable to hold the desktop. The backend cannot keep that
promise alone: a worker that stalls after `assert_effect_dispatchable` sends
later, by which time recovery may have parked the row. SentOnce still holds;
only the execution plane can refuse the request (it carries the resource epoch).

## 5. Known gaps found while modelling

Statements that a docstring, a comment, a test or a plan of the repository makes
and that do not hold of the code as modelled; TLC has a counterexample for each
on an instance of the size of section 4. Where a name is given, the statement
is a definition of the module with that name (or the listed property without its
exception). The runs check what remains true; each is stated so that the gap is
visible as an exception, not hidden by it.

**Stops.** StopRemembered (`session/status.py:79`): `trigger_abort` promises to
remember a stop when no run is registered, but asks whether the slot is empty. A
stop without a run leaves an event in the slot that no run owns; once that stop
is discarded or expired, the next one is not remembered. Only a session that
never had a driver row reaches it (`session/abort.py:296`).

**Inbox.** TransientRemainsRecoverable (`agent/inbox.py:1961`): a transient
delivery failure at a boundary inside a run preserves a running marker, which
recovery repairs instead of replaying; the input is settled with attempts to
spare. RefusedForCard (`question/runtime.py:554`): a replay can be refused by the
execution lease of its own dead run and its message settled as if a card were
open. TurnFilesBeforeModel (`agent/recovery.py:160`): a takeover that dies before
`rebind_recovered_claims` makes the next one look for claims under the wrong
generation; the files of a steer of that boundary are not delivered.
NeverRanUnseen (`agent/inbox.py:2206`): a claim left by a failed rebind is later
settled as "not sent to the model" although another run had it in its context.
ClaimsConverge (`agent/loop.py:3384`): a run revoked in mid-step leaves a claimed
row with an open reply, which no periodic scan settles. Converges without
Unanchored (`session/agent_event_log.py:2716`): a turn goes on after the delivery
of its trigger failed, without that message; if its worker then dies, the repair
of the trigger's turn finds no turn with the trigger in it and closes nothing,
`_recovered_terminal_message_id` raises, and the marker is kept for the next pass,
which meets the same: the claims are not settled and the session is never idle.

**Questions.** ExpiredCarriesOn (`question/continuation.py:417`): an expired card
"counts as rejected and the run carries on", but expiry does not set the resume
intent. IntentKept without `astray` (`question/runtime.py:551`): `start_run` does
not ask which answer an intent belongs to, so of two dispatchers a slow one, whose
run another one's has overtaken, can consume the intent of the next answer.

**Subagents.** A dispatcher whose claim expired between its check and
`reserve_run` moves the driver one generation past a finished run, whose
activation no scan finds again (Settles, `tool/task.py:268`). A crash between
`reserve_recovered_run` and `bind_recovered_activation` strands the activation
(Settles, `agent/subagent_runtime.py:1177`); so does an interrupt in that window
(InterruptSettles, `:1169`). Overlapping recovery passes with different
snapshots can report a started run as interrupted before execution
(InterruptedNeverRan, `:1220`). A recovered run that lost its lease is completed
as an error instead of an unknown outcome (`:1701`).

**Cron.** OneRunAtATime and CapacityHolds with a second replica
(`cron/recovery.py:43`): every startup clears all `running_at` markers, those of
live replicas too. TimerRunsDueJobs (`cron/timer.py:340`): the claim does not ask
whether the slot it was collected for is still due. ResumeRecomputes
(`cron/service.py:335`): a result applied to a paused job gives it a slot that
`resume_all` keeps. StartupKeepsSlot (`cron/service.py:521`): a one-shot job that
waits for its retry loses its slot at a restart. ManualKeepsSlot
(`cron/service.py:264`): a manual run moves the schedule. QueuedIsFlushed
(`cron/injector.py:37`): a result recorded between the flush and the release
waits for some later turn. MarkNeverPins (`cron/timer.py:321`, "a crashed run
cannot pin its job forever"): a stale marker is only found by a tick that looks at
jobs with a next run (`:245`), and `run` answers "already running"
(`cron/service.py:207`), so a one-shot job that was enabled again and pressed
keeps its marker for good when its replica dies; a result that could not be
applied (`:129`) leaves the same. DeadRunReleased speaks of jobs with a next run.

**Billing.** CapHolds with two processes (`billing/credit_cap.py:202`): the lock
between check and job row is per process. SpentIsLiability with equality
(`api/v1/messages.py:173`): two prompts sent at once both find the session idle;
the cap of the second moves `since` while a job of the first is in flight, and
what that job is charged later counts against the second. The guard then reads
more than the request costs, never less, so the cap holds. FailedNeverCharged
(`billing/credit_cap.py:40`): a shot in transfer_failed is charged when it is
taken up again, and was not counted meanwhile. Images and transcriptions are
charged without asking the cap (`tool/image_gen.py:2144`). ChargedAtQuote
(`billing/media.py:362`): a composition is charged for its actual length.
PurchaseGrants (`billing/subscriptions.py:57`): a plan bought again in the
calendar period in which it ended grants no allowance, since the key is the plan
and the period. Prepaid time is safe from purchases, not from operators, who may
change the plan of a term, shorten it and cancel it (`billing/admin.py:131`).

**Desktops.** SuspendedIsRevoked with a cloud that lags: a crash between two
commits of a late adoption forgets that the machine needs suspending
(`sandbox/desktop_activation.py:364`), and a machine that is not visible yet
counts as suspended (`:370`). The same happens in a cloud that never lags when a
worker stalls past its lease: its purchase shows up after a suspension found
nothing, the next suspension adopts the machine and clears `purchase_kind`
(`:364`) before it sets the step to suspending (`:369`), and a crash or a lost
lease in between leaves step "suspended" beside a machine that is bound and
granted; `needs_suspension` is then false for good. The property therefore
speaks of behaviours in which no lease ran out under a live worker. The proof of
AccessAgrees found this case: the invariant was not inductive without it. Nor does
it hold when a worker is cancelled with a request under way, by a stop of the
process (`:153`) or because the database did not answer a renewal (`:237`): the
lease is given back at once (`:294`), the next worker suspends, and the grant of
the first lands behind it. NeverStranded (`sandbox/wuying_ecd.py:1045`): access to
a pooled machine is granted (`desktop_activation.py:512`) before the machine is
tagged (`:514`); if the worker dies in between and the term ends, every suspension
raises for want of the tag (`:377`) and the access stays.

**Memory.** A dismissed dead job, a deleted chat and the paused branch of the
inbox settle jobs without advancing the cursor (`memory/jobs.py:997`); some
later job of the branch does. ForgottenIsGone (`memory/outbox.py:261`): with the
rollout switched off, a write that arrives after the purge stays in the index.
It may be the write of a delivery that failed: such a row (RETRY, DEAD) has no
lease whose end the deletion pass would wait for, and is cancelled with its
write on its way (`memory/reconcile.py:129`); SweepCancelsQuiet is about RUNNING
rows. IndexedIsThere without `stale` (`memory/reconcile.py:322`): the comparing
pass writes its repair from what it read before it asked the index; if the
memory was corrected or forgotten in between, an old revision becomes the
desired one again, and a worker of it or the deletion pass then removes what the
state calls indexed. The next comparison or deletion puts it right (Converges
holds in the scenes scan and repairs).

## 6. Proofs

Checked by TLAPS, for all values of the constants under the assumptions the
modules name. Inductive invariants were checked by TLC on instances like those of
the runs before they were proved; where the model was extended afterwards, the
proof is the check.

**AgentDriverProofs** (assumptions: `2 * HeartbeatSeconds < LeaseSeconds`,
finitely many sessions, null values outside their sets). `TypeCorrect` proves
TypeOK together with `Wellformed` (a claimed row has a generation, an open object
an owner and a generation no newer than its row). `Inv` adds what makes the
leases inductive: `Silent` (an object outside a working phase has no receipt),
`PhaseAgrees` (a row is in the phase of the working object that owns it),
`ClearedKnown`, `RanPhase` (a generation that dispatched is no longer reserved)
and `StopAsked` (a stop past its compare-and-set has been asked for).
ReceiptWithinLease alone is not inductive: a renewal needs to know that only the
row's owner still holds a receipt. From `Inv` follow LeaseSafe (`[]LeaseKept`),
StopSafe, RecoverySafe (`RecoveredOnce`) and SettlementSafe. `QuotaSafe` argues
over cardinalities: no step but an admission adds to the live rows (`NoRevival`),
and an admission counts them first. `FenceRefinement` proves that every
session's row implements RunFence. Steps are first classified (`Kinds`) so that
each invariant looks at each class once.

**EffectLedgerProofs.** The invariant `LedgerInv` has two halves. `SendInv`:
claims above the current one have no worker (`Fresh`), attempts count crossings
(`Counted`), at most one worker ever crossed the boundary (`OneSubmitter`), a
dispatch worker that holds the claim of a row across the boundary is its only
possible submitter (`HolderSubmits`), and a submitter's run is the origin
(`SubmitterRun`). `ClaimInv`: the claim belongs to a known worker of its kind
(`ClaimKnown`), a recovery worker that will abandon the row sees a prepared row
as long as it holds the claim (`AbandonTrue`), a row with an unsent verdict is
terminal and has no submitter (`UnsentFinal`), and the origin is a run that
started (`OriginKnown`). SendingSafe (`[]SendSafe`) and BoundsSafe
(`[]RecoveryInBounds`) follow, the latter with `QueriesPaid` (every query was
paid by a counted claim) and with RunFence never reviving a generation, which is
what FenceRefinement supplies. `TerminalSafe` is the action property.

**TurnProofs.** `SignalInv` (the remembered stop never has more time than a meant
one; the newest open run holds the slot) gives Reachable and AmbushSafe for the
signals alone, and `TurnImplementsSignals` carries them over to the composition:
every step of the turn is a step or a stutter of AbortSignals. `StepSafe` proves
StepIsSound from the invariant `StepInv`: the slot's holder is never newer than
`newest` (`HolderIsNewest`), the event of the run is raised only by a signal
for it (`StopsAreMine`, `CutsAreMine`), the group lies within the calls and
started calls within the group (`GroupShape`), a slot says what happened to its
body (`SlotsAreTrue`), every call up to the group is committed or parked
(`Accounted`, `LogShape`), a raising coordinator has drained its bodies
(`Drains`) and an exclusive body is in a group of its own (`Barrier`). `HaltSafe`
is the action property that no body starts after a signal.

The second part of TurnProofs is about the input a turn is made of, Inbox
(assumption `KindAssumption`: every item has a kind, null is no item, bounds are
numbers). InputKept and
FilesRespected are not inductive: a run that dies leaves claims, a trigger and a
ticket, and what recovery may do with them depends on how far the dead run had
got. `InboxInv` therefore says, beside the shape of rows and turns (`Rows`,
`Shapes`: an item without a message is in no turn and was not seen, a turn is
named after one of its items), where the worker is and what the driver row says
of it (`Driver`), that a run's claims belong to its turn and that before the run,
or when its marker is replayed, none of them was seen and no generation has run
the turn (`Claims`), which deliveries are behind a place of the worker (`Files`),
that a report whose turn may still run is claimed (`Reports`) and that a failed
delivery was not shown (`Unseen`). Steps are classified by what they leave alone:
a worker that walks (`WalkKept`) or stops (`StopKept`), a claim
(`MaterialiseStep`), a settlement (`SettlesKept`), the rebinding of claims to a
successor (`RebindStep`). The batch a boundary claims is the sorted selection
`Among` of the queue; that it holds exactly the selected rows, each once, is
proved by well-foundedness (`Least`) and induction over a set of numbers
(`UpTo`). InputSafe, FilesSafe and OneGenerationSafe (the safety part of
SettledOnce) follow, for any items, kinds and generations. TLC checked
`InboxInv` on the full specification with two items of every pair of kinds, four
generations and two faults (0.9 to 2.3 million states each). The proof
attempt found two CASEs of the model with guards that overlap, for which TLC
takes the first and the logic either; they are IF / ELSE now, as in the code.

**CronProofs** (assumptions: finitely many jobs, a stuck limit no shorter than
the timeout of a run, positive limits). RunsInBounds is about replicas none of
which restarts (section 5), and so are the conjuncts of `CronInv` it rests on.
The claim of `_claim_job` trusts a marker's age, so the heart is `MarkIsAge`:
the marker of an executing job is as old as its execution, and of one that waits
for the pool it is new. That needs `BatchFits` (a tick collects no more than the
pool takes, so a batch executes as a whole and nobody waits while the clock
runs), `BatchTogether` (the jobs of a batch have markers of one age, also those
that finished and wait for the others) and `Shape` (which origins are in which
phases). With the timeout below the stuck limit no marker of a live run is taken
over: OneRunAtATime, and with `CountedFits` the capacity. That a marker has its
run is claimed of the jobs outside `orphans`, to which only the steps of a
database error add. `OffSafe` is the action property that nothing but a user
brings back a job that is off. `PostedSafe` rests on `ResultInv`: what was
posted is marked injected in the same transaction, and a silent result never
reaches the injector.

**MemoryProofs** (assumptions: the names of lease phases are no workers, at
least one revision and one row). `CursorSafe` proves CursorSound from `JobInv`: a
worker that is not idle is at a turn (`Working`), turns not yet enqueued are
absent (`AbsentAhead`), and every turn up to the cursor is done
(`NoHolePassed`). The cursor's new place is the first turn that is not done; that
there is one comes from well-foundedness of the naturals (`Least`). `LateSafe`
is the action property: a worker without the lease changes no job, and the
deletion pass cancels no running delivery with a write under way (`GracedQuiet`: a
row whose lease and grace period are over has none).

`IndexSafe` proves IndexSound of the whole index specification, the comparing
pass included, for any number of workers, revisions, outbox rows, failures,
crashes, lost leases and switches. The index has no fence, so the argument is
about what each delayed worker can still do to the revision SQL wants (`Want`).
`StoreInv`: events are of revisions the memory has had, and once it is forgotten
every write is of an older one than the deletion (`Aged`); a worker deletes all
versions only for a deletion, takes back only a revision that is not wanted - and
will not be wanted again - and what it wrote is there as long as it is wanted
(`Placed`); INDEXED names the wanted revision and it is there (`Indexed`); a
tombstone is of a forgotten memory and purged only when no event is open but
repairs (`Purged`); what the comparing pass holds is of a revision the memory has
had, and what it read as forgotten is (`Compared`). Rows are reused only when no
worker and no write under way refers to them, which is why a worker's event stays
what it was (`EventQueued`). Every step that is not the person's is summed up by
`Onward`, and `OnwardKept` shows once that such a step keeps the invariant; a
repair is an event like a person's (`RepairQueued`), and is wanted unless SQL has
moved on since it was read (`Fresh`). From then on (`stale`) `Placed` and `Indexed`
promise less, which is the exception of IndexedIsThere.

**BillingProofs** (assumptions: a top-up is no plan, every order is the id of a
term, cycles and periods are positive). The theorems are about `WholeSpec`, the orders
together with the operators' console, the allowances and the clock; purchases
are made by settled orders only. `PayInv`: what the gateway has told, in a
notification or an answer, stays true (`NotesTrue`, `AnswersTrue`), which is why
acting on an old answer is safe; calls, keys and trades are of existing orders
(`Named`, `Exists`); a paid order's trade took the money (`PaidWasTaken`) and a
product's pending orders are one (`SinglePending`). Each step is first summed up
by what it may do to the gateway, to each order, to calls and keys
(`PayGoesOn`) and to terms (`TermsFollow`). MoneySafe (`[]MoneyKept`) follows.
`TermInv`: terms are finitely many with a last end (`Bounded`, so that the start
of the next one exists), ids are unique, and the terms of orders are those of
the paid orders (`OrdersHaveTerms`), which is why a settlement never adds a
second term; what was cancelled was cancelled by now (`CancelsPast`), so that a term
which starts behind all others changes no instant of theirs (`AddKeeps`); `Booked`
says that the balance is the sum of the allowances in the
ledger (AllowanceOnce), which has one row for a period. TermsSafe and BackSafe
(`NothingTakenBack`) follow, and TermsKeptAlways (`[]TermsKept`), whose
`TermsSpec` keeps the operators' purchases to the scene of terms, as the run does.
The sums are `SumFunction` of the community modules, a recursive function over
finite sets: that it exists is proved by building it up over the cardinality of
the sets (`Subsets`, `AddsExist`, `AddsNat`, `AddsSame`), and `TotalTakes`,
`TotalChanged`, `TotalPlus` and `TotalWithin` are the facts about sums the proofs
use. The induction needed is over a set of subsets, not over an operator, which
keeps it within reach.

The second part of BillingProofs is about what a paid term gives,
DesktopActivation (assumptions, `ActivationConstants`: null values outside their
sets, finitely many workers, more attempt ids than can be in use at once,
the bound on months is a number). `ActInv` is for every world, also the vaguest.
PaidForOnce alone is not inductive: what keeps a machine from being bought twice
is that an intent is on record before any request leaves, and that nobody drops
it before the outcome is known. So `RowShape` says that a machine on the row
exists, `Requests` that at most one purchase and one renewal are under way and
that everything else in flight is about the machine on the row, `OnePurchase` and
`OneMonth` what is still possible under the intent (at most one purchase of a
machine, at most one renewal of a month, whoever is about to send it being
alone), and `RowRead`, `Found` and `Holder` what a worker knows of the row it has
read, of the machine the inventory showed it and of the lease it still holds.
`PaidForOnceAlways` and the action property `MachineKeptAlways` follow.
`AccessAgreesAlways` adds `AccessInv`, for the exact world: whatever changes
access is in flight only under the lease that sent it (`UnderLease`), as long as no
worker was cancelled with a request under way (`NoneLeft`); without stalls
(`Timely`) whoever works holds the lease (`Sole`), so that a row which says "ready"
or "suspended" is beside a machine whose access agrees (`ReadyInv`,
`RevokedInv`). TLC checked `ActInv` on the scenes of the run and on eight
million states of the full specification, and `AccessInv` completely for two
workers without stalls.

The third part is about CreditCap (assumption `CapAssumption`: finitely many
steps of three separate kinds, at least one process, prices and limits are
numbers). `ChargeInv` holds whatever fails: a step that was not submitted is
neither charged nor polled nor cancelled (`UnsentOK`), and a poller at work has
a job in hand. CapHolds is not inductive: `Admit` compares what it reads with
the cap before the row of the admitted step is written. `CapInv` adds, for one
process and one poller without faults, overruns or images (the scene cap;
section 5 says what happens otherwise), that a job's row agrees with its call
(`JobOK`), that the lock is held from the guard to the row (`Locked`), and that
the cost together with what is admitted and not yet written is within the limit
(`Budget`). Prompts may be sent side by side, so a job may be charged in a later
request than its own: what the guard reads covers the cost (`SpentCovers`, step
by step, each being settled, in flight or not yet paid for), and `OwnInv` says
that until a cap is replaced in a busy session every open job is of the present
request and was charged in its own (`OwnOK`), so that the two are equal. CapSafe
(`[]CapKept`) follows for any number of steps, any prices and any limit.

**QuestionProofs** (assumptions: finitely many cards, bounds are numbers). `TurnsSafe`
proves TypeOK, RedeliveredIdle and PendingIsCurrent for any number of workers from
`QuestionInv`: a turn is begun by an input (`Counted`), a loop that has not
started has done nothing (`FreshLoops`), the owner of the row has acted only if
the row says so (`Owner`), a run that was given up has done nothing and owns
nothing (`GivenUp`), and cards are of turns that have begun (`CardsBehind`). Each
action is first summed up by what it may do to a loop, the row, a card and the
turn (`GoesOn`), and `Kept` shows once that such a step keeps the invariant.
`AnswerSafe` adds IntentKept and so proves `[]AnswerKept`, for any number of
continuation workers, from `IntentInv`: as long as a worker has the answers applied
and its run not started, the session has no live run and no pending card, and every
answer that is not applied was told of or went `astray` (`Waiting`, `Cleared`), and
a resumed run that is reserved is that of a worker (`Resumers`, `JobRuns`). An
answer goes astray only when a run starts that was overtaken (`HandsOver`).

**SubagentProofs** (assumptions: at least one activation, the null owner is no
worker). `SubInv` says of every activation that its rows agree (`RowOK`: only the
one the descriptor names is open, completed means reported, an unbound one has no
generation) and that what ran for it is the generation it is bound to (`RanOK`);
of every worker what its place promises (`WorkerOK`: a worker at its start or
later is bound, a replay is of a reservation that never ran, nobody answers for an
activation whose success is out, and, while no window is torn, a pass sees the
driver as it is (`Sees`), a checked claim holds up to the reservation (`Holds`)
and nobody starts what is completed (`Late`)); and of any two workers that they
never carry the same generation (`Apart`). RunsOnce alone is not inductive: a
recovered reservation is rebound under a new generation, which is safe only
because the old one never left "reserved". Each action is summed up by `StepOK`
(what it may do to the driver, an activation, what ran and the replies; every
worker stays where it is or is well placed afterwards), and `RowsKept` and
`StayingKept` show once that such a step keeps the invariant. ReportSafe and
StartSafe follow. TLC checked `SubInv` with three workers, one activation and any
three faults or interrupts.

Only model-checked: all liveness properties (RunsEnd, Concluded, StepEnds, the
liveness parts of SettledOnce and KeptAndServed, AnswerResumes, Completes,
NothingWaits, RefreshedIsCredited, SettlesInTheEnd), which are out of the
prover's reach; and the violation. Every invariant and every action property of
a passing run is stated by a theorem, with the restrictions its paragraph names.

## 7. Not modelled

Components marked `not_modelled` in `PROJECT.json`, with the reason. Within the
modelled ones, the omissions of section 3. The execution plane (container action
server, desktop agents), the payment gateway, the cloud and the vector index are
external: they appear as the answers and effects that the code must cope with.
