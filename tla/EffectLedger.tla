---------------------------- MODULE EffectLedger ----------------------------
(***************************************************************************)
(* One row of the external-effect ledger (backend/agent/effect_ledger.py): *)
(* the durable intent of one provider call, the claims that let a dispatch *)
(* worker send it or a recovery worker query it, and the workers that hold *)
(* those claims (backend/tool/image_gen.py, backend/sandbox/               *)
(* resource_operation.py, runtime_operation.py).  The Agent run that fences *)
(* the row is the RunFence that AgentDriver implements.                    *)
(*                                                                         *)
(* Abstractions.  A transaction on the row is one step.  A claim's token,  *)
(* owner and generation are minted together, so its generation names the   *)
(* claim and the worker that got it.  Deadlines are kept as the time left. *)
(* Evidence rows, receipts and projections are left out, except that an    *)
(* evidence of provider_called = False is kept as unsent.  The desktop     *)
(* control fence of assistant/resource_control.py only refuses: a refusal  *)
(* may come at every check.                                                *)
(***************************************************************************)
EXTENDS Naturals, FiniteSets

CONSTANTS
  EffectLease,        \* EFFECT_LEASE_SECONDS, in clock ticks
  PreparedGrace,      \* PREPARED_RECOVERY_GRACE_SECONDS
  MaxDelay,           \* longest deferral of a reconciliation
  MaxReconcile,       \* MAX_RECONCILE_ATTEMPTS
  MaxDispatchClaims,  \* bound on dispatch claims of the row
  MaxFailures,        \* bound on recovery workers that die or outlast their claim
  MaxGeneration       \* bound on runs of the session

ASSUME LedgerAssumption ==
  /\ EffectLease \in Nat \ {0}
  /\ MaxDelay \in Nat \ {0}
  /\ PreparedGrace \in Nat
  /\ MaxReconcile \in Nat
  /\ MaxDispatchClaims \in Nat
  /\ MaxFailures \in Nat
  /\ MaxGeneration \in Nat

VARIABLES
  adapter,     \* which adapter the row belongs to
  state,       \* the row's state; "absent" before it is inserted
  origin,      \* run_generation, with run_id
  attempts,    \* attempt_count
  reconciles,  \* reconcile_count
  handle,      \* provider_handle is present
  claim,       \* claim_generation, claim_kind, and the time to claim_expires_at
  due,         \* time to reconcile_after
  grace,       \* time until a prepared row is old enough for recovery
  worker,      \* [claim generation -> the worker that got that claim]
  failures,    \* recovery workers that died or outlasted their claim
  generation,  \* the session's run (RunFence)
  live,        \* the run is live (RunFence)
  senders,     \* claims under which a request left the backend (history)
  unsent,      \* the ledger recorded that the provider was not called (history)
  queries      \* calls of the adapter's reconciler (history)

row  == <<state, origin, attempts, reconciles, handle, claim, due, grace>>
run  == <<generation, live>>
hist == <<senders, unsent, queries>>
vars == <<adapter, state, origin, attempts, reconciles, handle, claim, due, grace,
          worker, failures, generation, live, senders, unsent, queries>>

Run == INSTANCE RunFence

-----------------------------------------------------------------------------
Terminal  == {"succeeded", "failed", "manual_review"}
InFlight  == {"submitting", "accepted", "outcome_unknown"}
States    == {"absent", "prepared"} \cup InFlight \cup Terminal
Claims    == 1 .. MaxDispatchClaims + MaxReconcile + MaxFailures + 1
RunOf     == 0 .. MaxGeneration

\* The desktop adapters hold a resource fence and have no reconciler; "handle"
\* has one that needs the provider's handle, "query" one that does not
\* (can_reconcile_without_handle, as image_gen).
Adapters == {"desktop", "handle", "query"}

Kinds == {"none", "dispatch", "reconcile"}

Claim == [generation : {0} \cup Claims, kind : Kinds, left : 0 .. EffectLease]

\* A dispatch worker is claimed, submitted (across the send boundary), checked
\* (a request passed the last durable guard and has not left yet) or refused
\* (a guard raised: it sends no more).  A recovery worker is claimed, then
\* follows the branch of recover_effect_once that its snapshot selected.
Worker == [kind : Kinds, run : RunOf,
           at : {"none", "claimed", "submitted", "checked", "refused",
                 "abandon", "park", "query", "gone"}]

NoWorker == [kind |-> "none", run |-> 0, at |-> "none"]

Init ==
  /\ adapter \in Adapters
  /\ state = "absent"
  /\ origin = 0 /\ attempts = 0 /\ reconciles = 0 /\ handle = FALSE
  /\ claim = [generation |-> 0, kind |-> "none", left |-> 0]
  /\ due = 0 /\ grace = 0
  /\ worker = [c \in Claims |-> NoWorker]
  /\ failures = 0
  /\ Run!Init
  /\ senders = {}
  /\ unsent = FALSE
  /\ queries = 0

-----------------------------------------------------------------------------
(* The conditions of the compare-and-set statements. *)

\* _claim_matches and the claim's deadline: worker c still holds the row.
Holding(c) == claim.generation = c /\ claim.kind = worker[c].kind /\ claim.left > 0

\* claim_token IS NULL OR claim_expires_at <= now.
Unclaimed == claim.kind = "none" \/ claim.left = 0

Active(c, kind) == worker[c].kind = kind /\ worker[c].at # "gone"

At(c, places) == worker[c].at \in places

\* The writes: a worker moves; a row gives its claim up; a row is settled.
Move(c, at) == worker' = [worker EXCEPT ![c] = [worker[c] EXCEPT !.at = at]]

Release == claim' = [generation |-> claim.generation, kind |-> "none", left |-> 0]

Settle(outcome) ==
  /\ state' = outcome
  /\ due' = 0
  /\ Release
  /\ UNCHANGED <<origin, attempts, reconciles, handle, grace>>

-----------------------------------------------------------------------------
(* Intent and claim, under the exact live run. *)

\* prepare_effect creates the row, or moves a row that provably never crossed
\* its send boundary to the caller's run.
RebindUnclaimed == state # "absent" /\ claim.kind = "none"

Rebindable == state = "prepared" /\ attempts = 0 /\ claim.kind = "none"

Prepare ==
  /\ live
  /\ \/ /\ state = "absent"
        /\ state' = "prepared"
        /\ grace' = PreparedGrace
     \/ /\ Rebindable
        /\ UNCHANGED <<state, grace>>
  /\ origin' = generation
  /\ UNCHANGED <<adapter, attempts, reconciles, handle, claim, due, worker, failures, run, hist>>

\* claim_effect_for_dispatch: _dispatch_claim_statement for the caller's run.
ClaimForDispatch ==
  LET c == claim.generation + 1
  IN /\ Run!Holds(origin)
     /\ state = "prepared"
     /\ attempts = 0
     /\ Unclaimed
     /\ c <= MaxDispatchClaims
     /\ claim' = [generation |-> c, kind |-> "dispatch", left |-> EffectLease]
     /\ worker' = [worker EXCEPT ![c] = [kind |-> "dispatch", run |-> origin, at |-> "claimed"]]
     /\ UNCHANGED <<adapter, state, origin, attempts, reconciles, handle, due, grace,
                    failures, run, hist>>

-----------------------------------------------------------------------------
(* The dispatch worker. *)

\* mark_effect_submitting: the send boundary.  Only a resource effect checks
\* the run here.  The commit may happen without the worker learning of it.
Submit(c, acknowledged) ==
  /\ Active(c, "dispatch") /\ At(c, {"claimed"})
  /\ Holding(c)
  /\ state = "prepared"
  /\ adapter = "desktop" => Run!Holds(worker[c].run)
  /\ state' = "submitting"
  /\ attempts' = attempts + 1
  /\ Move(c, IF acknowledged THEN "submitted" ELSE "refused")
  /\ UNCHANGED <<adapter, origin, reconciles, handle, claim, due, grace, failures, run, hist>>

\* assert_effect_dispatchable: the last durable guard before a request.
Check(c) ==
  /\ Active(c, "dispatch") /\ At(c, {"submitted"})
  /\ Run!Holds(worker[c].run)
  /\ Holding(c)
  /\ state = "submitting"
  /\ Move(c, "checked")
  /\ UNCHANGED <<adapter, row, failures, run, hist>>

\* mark_effect_submitting or assert_effect_dispatchable raised, or a guard of
\* the caller did: the worker sends nothing more.
Refuse(c) ==
  /\ Active(c, "dispatch") /\ At(c, {"claimed", "submitted"})
  /\ Move(c, "refused")
  /\ UNCHANGED <<adapter, row, failures, run, hist>>

\* The request leaves; nothing durable is consulted between check and send.
\* A compound operation comes back for the check of its next request.
Send(c) ==
  /\ Active(c, "dispatch") /\ At(c, {"checked"})
  /\ senders' = senders \cup {c}
  /\ Move(c, "submitted")
  /\ UNCHANGED <<adapter, row, failures, run, unsent, queries>>

\* renew_effect_claim from run_with_effect_claim_heartbeat; the run is not asked.
Renew(c) ==
  /\ Active(c, "dispatch")
  /\ Holding(c)
  /\ state \notin Terminal
  /\ claim' = [claim EXCEPT !.left = EffectLease]
  /\ UNCHANGED <<adapter, state, origin, attempts, reconciles, handle, due, grace, worker, failures, run, hist>>

\* record_effect_accepted: the provider's receipt, with its handle if it has one.
RecordAccepted(c, given) ==
  /\ Active(c, "dispatch") /\ At(c, {"submitted"}) /\ c \in senders
  /\ adapter # "desktop"
  /\ Holding(c)
  /\ state = "submitting"
  /\ state' = "accepted"
  /\ handle' = given
  /\ due' = 0
  /\ UNCHANGED <<adapter, origin, attempts, reconciles, claim, grace, worker, failures, run, hist>>

\* abandon_effect_before_dispatch: release a claim that never crossed the
\* boundary.  The mutated form puts the row back whatever its state.
AbandonReopens(c) ==
  /\ Active(c, "dispatch") /\ At(c, {"claimed", "refused"})
  /\ Holding(c)
  /\ state' = "prepared" /\ attempts' = 0
  /\ Release
  /\ Move(c, "gone")
  /\ UNCHANGED <<adapter, origin, reconciles, handle, due, grace, failures, run, hist>>

Abandon(c) ==
  /\ Active(c, "dispatch") /\ At(c, {"claimed", "refused"})
  /\ Holding(c)
  /\ state = "prepared" /\ attempts = 0
  /\ Release
  /\ Move(c, "gone")
  /\ UNCHANGED <<adapter, state, origin, attempts, reconciles, handle, due, grace, failures, run, hist>>

\* settle_effect by the dispatch worker that has the provider's answer.
SettleDispatch(c, outcome) ==
  /\ Active(c, "dispatch") /\ At(c, {"submitted"}) /\ c \in senders
  /\ Run!Holds(worker[c].run)
  /\ Holding(c)
  /\ state \notin Terminal
  /\ Settle(outcome)
  /\ Move(c, "gone")
  /\ UNCHANGED <<adapter, failures, run, hist>>

\* _run_resource_scope: every request was refused before it left and none is
\* under way, so the effect failed with provider_called = False.  The mutated
\* form forgets the request under way and leaves its scope open.
SettleUnsentInFlight(c) ==
  /\ Active(c, "dispatch") /\ At(c, {"submitted", "checked", "refused"}) /\ c \notin senders
  /\ adapter = "desktop"
  /\ Run!Holds(worker[c].run)
  /\ Holding(c)
  /\ state \notin {"prepared"} \cup Terminal
  /\ Settle("failed")
  /\ unsent' = TRUE
  /\ UNCHANGED <<adapter, worker, failures, run, senders, queries>>

SettleUnsent(c) ==
  /\ Active(c, "dispatch") /\ At(c, {"submitted", "refused"}) /\ c \notin senders
  /\ adapter = "desktop"
  /\ Run!Holds(worker[c].run)
  /\ Holding(c)
  /\ state \notin {"prepared"} \cup Terminal
  /\ Settle("failed")
  /\ Move(c, "gone")
  /\ unsent' = TRUE
  /\ UNCHANGED <<adapter, failures, run, senders, queries>>

\* record_effect_outcome_unknown: give the claim up without reopening the send.
\* A request that is still between check and send finds its scope closed.
RecordUnknown(c, given) ==
  /\ Active(c, "dispatch") /\ At(c, {"submitted", "checked", "refused"})
  /\ Holding(c)
  /\ state \in {"submitting", "accepted"}
  /\ state' = "outcome_unknown"
  /\ handle' = (handle \/ given)
  /\ due' = 0
  /\ Release
  /\ Move(c, "gone")
  /\ UNCHANGED <<adapter, origin, attempts, reconciles, grace, failures, run, hist>>

\* The worker is canceled, is fenced out of its own writes, or dies.
WorkerEnds(c) ==
  /\ Active(c, "dispatch")
  /\ Move(c, "gone")
  /\ UNCHANGED <<adapter, row, failures, run, hist>>

DispatchStep(c) ==
  \/ \E acknowledged \in BOOLEAN : Submit(c, acknowledged)
  \/ Check(c)
  \/ Refuse(c)
  \/ Send(c)
  \/ Renew(c)
  \/ \E given \in BOOLEAN : RecordAccepted(c, given) \/ RecordUnknown(c, given)
  \/ Abandon(c)
  \/ \E outcome \in {"succeeded", "failed"} : SettleDispatch(c, outcome)
  \/ SettleUnsent(c)
  \/ WorkerEnds(c)

-----------------------------------------------------------------------------
(* Recovery: recover_external_effects_once. *)

\* _claim_for_reconcile, with the conditions of the scan that precedes it.
ClaimReconcile(ready) ==
  LET c == claim.generation + 1
  IN /\ ready
     /\ c \in Claims
     /\ claim' = [generation |-> c, kind |-> "reconcile", left |-> EffectLease]
     /\ reconciles' = reconciles + 1
     /\ worker' = [worker EXCEPT ![c] = [kind |-> "reconcile", run |-> origin, at |-> "claimed"]]
     /\ UNCHANGED <<adapter, state, origin, attempts, handle, due, grace, failures, run, hist>>

TerminalToo ==
  ClaimReconcile(/\ state # "absent"
                 /\ Unclaimed /\ due = 0 /\ ~Run!Holds(origin)
                 /\ state = "prepared" => grace = 0)

OriginIgnored ==
  ClaimReconcile(/\ state \notin {"absent"} \cup Terminal
                 /\ Unclaimed /\ due = 0
                 /\ state = "prepared" => grace = 0)

OnlyCrossed ==
  ClaimReconcile(state \in InFlight /\ Unclaimed /\ due = 0 /\ ~Run!Holds(origin))

ClaimForReconcile ==
  ClaimReconcile(/\ state \notin {"absent"} \cup Terminal
                 /\ Unclaimed /\ due = 0 /\ ~Run!Holds(origin)
                 /\ state = "prepared" => grace = 0)

\* recover_effect_once: what the snapshot read after the claim selects.
Uncapped ==
  IF state = "prepared" THEN "abandon"
  ELSE IF adapter = "desktop" \/ (adapter = "handle" /\ ~handle) THEN "park"
  ELSE "query"

Branch ==
  IF state = "prepared" THEN "abandon"
  ELSE IF \/ reconciles > MaxReconcile
          \/ adapter = "desktop"
          \/ adapter = "handle" /\ ~handle THEN "park"
  ELSE "query"

\* get_effect in a transaction of its own, then the reconciler if it is called.
ReadSnapshot(c) ==
  /\ Active(c, "reconcile") /\ At(c, {"claimed"})
  /\ Move(c, Branch)
  /\ queries' = IF Branch = "query" THEN queries + 1 ELSE queries
  /\ UNCHANGED <<adapter, row, failures, run, senders, unsent>>

\* settle_effect by the recovery worker: abandoned before dispatch, parked for
\* the owner, or as the reconciler decided (it may ask for a review, and an
\* exception in the last attempt does).
Outcomes(at) ==
  CASE at = "abandon" -> {"failed"}
    [] at = "park" -> {"manual_review"}
    [] at = "query" -> Terminal
    [] OTHER -> {}

SettleReconcile(c, outcome) ==
  /\ Active(c, "reconcile") /\ outcome \in Outcomes(worker[c].at)
  /\ Holding(c)
  /\ state \notin Terminal
  /\ Settle(outcome)
  /\ unsent' = (unsent \/ At(c, {"abandon"}))
  /\ Move(c, "gone")
  /\ UNCHANGED <<adapter, failures, run, senders, queries>>

\* _defer_reconcile: the provider has no final answer, or did not answer.
Defer(c, next, given, delay) ==
  /\ Active(c, "reconcile") /\ At(c, {"query"})
  /\ Holding(c)
  /\ state' = next
  /\ handle' = (handle \/ given)
  /\ due' = delay
  /\ Release
  /\ Move(c, "gone")
  /\ UNCHANGED <<adapter, origin, attempts, reconciles, grace, failures, run, hist>>

\* EffectLeaseLostError, and every other exception the scan swallows.
FencedOut(c) ==
  /\ Active(c, "reconcile")
  /\ ~(Holding(c) /\ state \notin Terminal)
  /\ Move(c, "gone")
  /\ UNCHANGED <<adapter, row, failures, run, hist>>

RecoveryDies(c) ==
  /\ Active(c, "reconcile")
  /\ failures < MaxFailures
  /\ failures' = failures + 1
  /\ Move(c, "gone")
  /\ UNCHANGED <<adapter, row, run, hist>>

RecoveryStep(c) ==
  \/ ReadSnapshot(c)
  \/ \E outcome \in Terminal : SettleReconcile(c, outcome)
  \/ \E next \in {"accepted", "outcome_unknown"}, given \in BOOLEAN, delay \in 1 .. MaxDelay :
       Defer(c, next, given, delay)
  \/ FencedOut(c)

\* acknowledge_parked_effects_locked: the owner releases a parked desktop effect.
Acknowledge ==
  /\ adapter = "desktop"
  /\ state = "manual_review"
  /\ state' = "failed"
  /\ due' = 0
  /\ UNCHANGED <<adapter, origin, attempts, reconciles, handle, claim, grace, worker, failures, run, hist>>

-----------------------------------------------------------------------------
(* The environment: the clock, and the session's runs. *)

LessUnchecked(n) == n - 1

Less(n) == IF n = 0 THEN 0 ELSE n - 1

\* A recovery worker is about to outlast its claim: it counts as a failure.
Outlasted ==
  /\ claim.kind = "reconcile"
  /\ claim.left = 1
  /\ Active(claim.generation, "reconcile")

Tick ==
  /\ claim' = [claim EXCEPT !.left = Less(claim.left)]
  /\ due' = Less(due) /\ grace' = Less(grace)
  /\ Outlasted => failures < MaxFailures
  /\ failures' = IF Outlasted THEN failures + 1 ELSE failures
  /\ UNCHANGED <<adapter, state, origin, attempts, reconciles, handle, worker, run, hist>>

RunBegins == Run!Begin /\ UNCHANGED <<adapter, row, worker, failures, hist>>

RunEnds == Run!End /\ UNCHANGED <<adapter, row, worker, failures, hist>>

Next ==
  \/ Prepare
  \/ ClaimForDispatch
  \/ \E c \in Claims : DispatchStep(c)
  \/ ClaimForReconcile
  \/ \E c \in Claims : RecoveryStep(c) \/ RecoveryDies(c)
  \/ Acknowledge
  \/ Tick
  \/ RunBegins
  \/ RunEnds

Spec == Init /\ [][Next]_vars

\* The clock runs, recovery passes repeat and carry each claim through, every
\* run ends, and a provider call ends (its tool has a timeout).
Fairness ==
  /\ WF_vars(Tick)
  /\ WF_vars(ClaimForReconcile)
  /\ WF_vars(RunEnds)
  /\ \A c \in Claims : WF_vars(RecoveryStep(c)) /\ WF_vars(WorkerEnds(c))

FairSpec == Spec /\ Fairness

-----------------------------------------------------------------------------
(* Properties *)

\* The variables keep their types.
TypeOK ==
  /\ adapter \in Adapters
  /\ state \in States /\ origin \in RunOf
  /\ attempts \in Nat /\ reconciles \in Nat /\ handle \in BOOLEAN
  /\ claim \in Claim
  /\ due \in 0 .. MaxDelay /\ grace \in 0 .. PreparedGrace
  /\ worker \in [Claims -> Worker]
  /\ failures \in 0 .. MaxFailures
  /\ generation \in RunOf /\ live \in BOOLEAN
  /\ senders \in SUBSET Claims
  /\ unsent \in BOOLEAN
  /\ queries \in Nat

\* The paid or physical request of one effect leaves the backend under one
\* claim only, whatever expires, crashes, is rebound or is recovered; and once
\* it left, the row never looks as if it had not been sent.
SentOnce ==
  /\ \A c, d \in senders : c = d
  /\ senders # {} => state \notin {"absent", "prepared"} /\ attempts = 1

\* A ledger verdict of provider_called = False is true and stays true: no
\* request has left and a worker that was delayed cannot send one later.
UnsentIsTrue == unsent => senders = {}

\* What was sent stays bound to the run that sent it: the row is not moved to
\* another run behind the back of the worker that crossed the boundary.
SentByOrigin == \A c \in senders : worker[c].run = origin

\* Recovery works on a row only when the run it belongs to is over for good.
RecoveryAfterRun == claim.kind = "reconcile" => ~Run!Holds(origin)

\* The adapter's reconciler is called at most MAX_RECONCILE_ATTEMPTS times.
QueriesBounded == queries <= MaxReconcile

\* One request at most, by the run the row names, and what the ledger says of
\* it is true: whether it may have left, and that it did not.
SendSafe == TypeOK /\ SentOnce /\ UnsentIsTrue /\ SentByOrigin

\* Recovery keeps its bounds: behind the run, and within its attempts.
RecoveryInBounds == RecoveryAfterRun /\ QueriesBounded

\* A terminal row changes no more, except that the owner may turn a parked
\* desktop effect into a failed one.
KeepsTerminal ==
  state \in Terminal =>
    /\ claim'.kind = "none" /\ claim'.generation = claim.generation
    /\ state' # state => state = "manual_review" /\ state' = "failed"

TerminalKept == [][KeepsTerminal]_vars

\* Every effect that was prepared reaches a terminal state, also when its
\* worker dies on either side of the send boundary.
Concluded == state # "absent" ~> state \in Terminal

\* What the comment on TERMINAL_STATES says: a terminal row never sends.
NoSendBehindTerminal == senders' # senders => state \notin Terminal

TerminalNeverSends == [][NoSendBehindTerminal]_vars
=============================================================================
