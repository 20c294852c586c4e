------------------------------ MODULE CreditCap ------------------------------
(***************************************************************************)
(* The per-request credit cap of one session (billing/credit_cap.py), the  *)
(* tools that submit paid media steps under it and the settlement that     *)
(* charges them.  A step is a shot (video_production), a composition       *)
(* (video_compose) or a step whose charge is only written when its output  *)
(* is stored (image_gen, transcription).  Amounts are whole credits.       *)
(*                                                                         *)
(* A guard reads what the request has spent and admits a step; the job row *)
(* that the next guard must see is written in a later transaction, under a *)
(* lock that lives in one process.  Minutes later a poller of any process  *)
(* finds the job finished, charges it and closes it.                       *)
(***************************************************************************)
EXTENDS Naturals, FiniteSets, Functions

CONSTANTS
    Shots,        \* shot generations: the job row is written after the guard
    Composes,     \* compositions: the row is written, unpriced, before it
    Images,       \* image generations and transcriptions: no job row that counts
    Procs,        \* backend processes, each with its own table of locks
    Pollers,      \* tasks that look at a submitted job (tool wait, job recovery)
    Price,        \* the quote of each step
    Limit,        \* max_credits of every request
    Overrun,      \* bound: credits a composition may exceed its quote by
    MaxRequests,  \* bound: prompts sent to the session
    MaxFailures,  \* bound: failed transfers and reclaimed finalizations
    MaxCancels,   \* bound: cancellations of a job
    NoJob         \* no step

Jobs  == Shots \cup Composes
Steps == Jobs \cup Images

CreditCapAssumption ==
    /\ Shots \cap Composes = {} /\ Jobs \cap Images = {}
    /\ IsFiniteSet(Steps) /\ NoJob \notin Steps /\ Procs # {}
    /\ Price \in [Steps -> Nat]
    /\ Limit \in Nat /\ Overrun \in Nat
    /\ MaxRequests \in Nat \ {0} /\ MaxFailures \in Nat /\ MaxCancels \in Nat

VARIABLES
    request,    \* the request whose cap the session holds (cap.since)
    sending,    \* prompts that found the session idle and have set no cap yet
    hit,        \* cap.hit of that request: a step was refused
    job,        \* video_jobs: status, saved quote (0: none) and creating request
    call,       \* the tool call of each step: its process and where it stands
    holder,     \* the call that holds the session's cap lock in each process
    event,      \* usage_events by settlement key: credits and request; 0: no row
    charged,    \* what the workspace's ledger has been charged
    poller,     \* each poller: the job in hand and what it has done with it
    cancelling, \* jobs whose cancel has read a status and not written one yet
    failures,   \* transfers failed so far
    cancels,    \* cancels begun so far
    crossed     \* history: a cap was replaced while the session was busy

vars == <<request, sending, hit, job, call, holder, event, charged, poller,
          cancelling, failures, cancels, crossed>>

Statuses == {"none", "submitting", "in_progress", "finalizing", "transfer_failed",
             "completed", "failed", "cancelled"}
FailedJobStatuses == {"failed", "cancelled", "transfer_failed"}
Terminal == {"completed", "failed", "cancelled"}
VideoJobInFlight == {"submitting", "in_progress", "finalizing", "transfer_failed"}
CallStates == {"new", "waiting", "guarding", "admitted", "written", "done",
               "refused", "dead"}
Idle == [job |-> NoJob, at |-> "idle"]

TypeOK ==
    /\ request \in 1..MaxRequests /\ hit \in BOOLEAN
    /\ sending \in Nat /\ request + sending <= MaxRequests /\ crossed \in BOOLEAN
    /\ job \in [Jobs -> [status: Statuses, quote: Nat, since: 0..MaxRequests]]
    /\ call \in [Steps -> [at: CallStates, proc: Procs]]
    /\ holder \in [Procs -> Jobs \cup {NoJob}]
    /\ event \in [Steps -> [credits: Nat, request: 0..MaxRequests]]
    /\ charged \in Nat
    /\ poller \in [Pollers -> [job: Jobs \cup {NoJob},
                               at: {"idle", "seen", "running", "copied", "settled"}]]
    /\ cancelling \subseteq Jobs
    /\ failures \in 0..MaxFailures /\ cancels \in 0..MaxCancels

Init ==
    /\ request = 1 /\ sending = 0 /\ hit = FALSE /\ crossed = FALSE
    /\ job = [j \in Jobs |-> [status |-> "none", quote |-> 0, since |-> 0]]
    /\ call = [s \in Steps |-> [at |-> "new", proc |-> CHOOSE p \in Procs : TRUE]]
    /\ holder = [p \in Procs |-> NoJob]
    /\ event = [s \in Steps |-> [credits |-> 0, request |-> 0]]
    /\ charged = 0
    /\ poller = [w \in Pollers |-> Idle]
    /\ cancelling = {}
    /\ failures = 0 /\ cancels = 0

-----------------------------------------------------------------------------
\* spent_breakdown: what the guard takes the request to have spent.
Settled ==
    SumFunction([s \in {t \in Steps : event[t].request = request} |-> event[s].credits])

CountedTwice(exclude) ==
    SumFunction([j \in {k \in Jobs \ exclude :
                          /\ job[k].since = request
                          /\ job[k].status \notin FailedJobStatuses} |-> job[j].quote])

InFlight(exclude) ==
    SumFunction([j \in {k \in Jobs \ exclude :
                          /\ job[k].since = request
                          /\ job[k].status \notin FailedJobStatuses
                          /\ event[k].request = 0} |-> job[j].quote])

Spent(exclude) == Settled + InFlight(exclude)

At(s, state) == [call EXCEPT ![s].at = state]
SetStatus(j, status) == [job EXCEPT ![j].status = status]

-----------------------------------------------------------------------------
\* ACTIVE_STATUSES and session_activity: no call of a turn runs and no job of
\* the session is in flight.
Quiet ==
    /\ \A s \in Steps : call[s].at \in {"new", "done", "refused", "dead"}
    /\ \A j \in Jobs : job[j].status \notin VideoJobInFlight

\* A prompt is sent to a session that is idle.  Its turn, or that of another
\* prompt that came in meanwhile, may start before its cap is set.
BeginSend ==
    /\ request + sending < MaxRequests
    /\ Quiet
    /\ sending' = sending + 1
    /\ UNCHANGED <<request, hit, job, call, holder, event, charged, poller,
                   cancelling, failures, cancels, crossed>>

\* set_cap: its cap replaces the session's, whatever runs by now.
SetCap ==
    /\ sending > 0
    /\ sending' = sending - 1
    /\ request' = request + 1 /\ hit' = FALSE
    /\ crossed' = (crossed \/ ~Quiet)
    /\ UNCHANGED <<job, call, holder, event, charged, poller, cancelling, failures,
                   cancels>>

\* A tool call begins in some process and asks for the cap lock.  A
\* composition writes its row, without a quote, before that.
Submit(j, p) ==
    /\ call[j].at = "new"
    /\ call' = [call EXCEPT ![j] = [at |-> "waiting", proc |-> p]]
    /\ job' = IF j \in Composes
              THEN [job EXCEPT ![j] = [status |-> "submitting", quote |-> 0,
                                       since |-> request]]
              ELSE job
    /\ UNCHANGED <<request, sending, crossed, hit, holder, event, charged,
                   poller, cancelling, failures, cancels>>

\* _session_lock: one call of the session at a time, within this process.
Acquire(j) ==
    /\ call[j].at = "waiting"
    /\ holder[call[j].proc] = NoJob
    /\ call' = At(j, "guarding")
    /\ holder' = [holder EXCEPT ![call[j].proc] = j]
    /\ UNCHANGED <<request, sending, crossed, hit, job, event, charged, poller,
                   cancelling, failures, cancels>>

UncountedInFlight(j) ==
    /\ call[j].at = "guarding"
    /\ Settled + Price[j] <= Limit
    /\ call' = At(j, "admitted")
    /\ UNCHANGED <<request, sending, crossed, hit, job, holder, event, charged,
                   poller, cancelling, failures, cancels>>

\* guard, one transaction on the session row: the step fits under the cap.
Admit(j) ==
    /\ call[j].at = "guarding"
    /\ Spent({j}) + Price[j] <= Limit
    /\ call' = At(j, "admitted")
    /\ UNCHANGED <<request, sending, crossed, hit, job, holder, event, charged,
                   poller, cancelling, failures, cancels>>

SentAnyway(j) ==
    /\ call[j].at = "guarding"
    /\ Spent({j}) + Price[j] > Limit
    /\ hit' = TRUE
    /\ call' = At(j, "refused")
    /\ job' = IF j \in Composes THEN SetStatus(j, "in_progress") ELSE job
    /\ holder' = [holder EXCEPT ![call[j].proc] = NoJob]
    /\ UNCHANGED <<request, sending, crossed, event, charged, poller,
                   cancelling, failures, cancels>>

\* guard records the refusal and raises; the lock is released and the row of a
\* composition is closed.
Refuse(j) ==
    /\ call[j].at = "guarding"
    /\ Spent({j}) + Price[j] > Limit
    /\ hit' = TRUE
    /\ call' = At(j, "refused")
    /\ job' = IF j \in Composes THEN SetStatus(j, "failed") ELSE job
    /\ holder' = [holder EXCEPT ![call[j].proc] = NoJob]
    /\ UNCHANGED <<request, sending, crossed, event, charged, poller,
                   cancelling, failures, cancels>>

RowOfNextRequest(j) ==
    /\ call[j].at = "admitted"
    /\ job' = [job EXCEPT ![j] = [status |-> "submitting", quote |-> Price[j],
                                  since |-> request + 1]]
    /\ call' = At(j, "written")
    /\ holder' = [holder EXCEPT ![call[j].proc] = NoJob]
    /\ UNCHANGED <<request, sending, crossed, hit, event, charged, poller,
                   cancelling, failures, cancels>>

\* The body of reserve: a shot's row is created, a composition's is priced;
\* then the lock is released.
WriteRow(j) ==
    /\ call[j].at = "admitted"
    /\ job' = [job EXCEPT ![j] =
                 IF j \in Composes THEN [@ EXCEPT !.quote = Price[j]]
                 ELSE [status |-> "submitting", quote |-> Price[j],
                       since |-> request]]
    /\ call' = At(j, "written")
    /\ holder' = [holder EXCEPT ![call[j].proc] = NoJob]
    /\ UNCHANGED <<request, sending, crossed, hit, event, charged, poller,
                   cancelling, failures, cancels>>

\* The provider takes the job or rejects it; its row follows whatever it held.
Dispatch(j) ==
    /\ call[j].at = "written"
    /\ \E status \in {"in_progress", "failed"} : job' = SetStatus(j, status)
    /\ call' = At(j, "done")
    /\ UNCHANGED <<request, sending, crossed, hit, holder, event, charged,
                   poller, cancelling, failures, cancels>>

-----------------------------------------------------------------------------
SettleUnkeyed(s, credits) ==
    /\ event' = [event EXCEPT ![s] = [credits |-> credits, request |-> request]]
    /\ charged' = charged + credits

\* settle: one usage event per key, and the ledger charged with it, in one
\* transaction that holds the balance row.
Settle(s, credits) ==
    IF event[s].request # 0 THEN UNCHANGED <<event, charged>>
    ELSE /\ event' = [event EXCEPT ![s] = [credits |-> credits, request |-> request]]
         /\ charged' = charged + credits

\* An image or a transcription runs and is charged; the cap is not consulted.
RunImage(s) ==
    /\ call[s].at = "new"
    /\ Settle(s, Price[s])
    /\ call' = At(s, "done")
    /\ UNCHANGED <<request, sending, crossed, hit, job, holder, poller,
                   cancelling, failures, cancels>>

Poll(w, j, at) == poller' = [poller EXCEPT ![w] = [job |-> j, at |-> at]]

\* A poller loads a submitted composition and asks IMS, which reports success
\* or that it still runs.
SeeCompose(w, j) ==
    /\ poller[w] = Idle
    /\ j \in Composes /\ job[j].status = "in_progress"
    /\ \E answer \in {"copied", "running"} : Poll(w, j, answer)
    /\ UNCHANGED <<request, sending, crossed, hit, job, call, holder, event,
                   charged, cancelling, failures, cancels>>

\* It still runs: the row says so again, whatever it holds by now.
StillRunning(w) ==
    /\ poller[w].at = "running"
    /\ job' = SetStatus(poller[w].job, "in_progress")
    /\ poller' = [poller EXCEPT ![w] = Idle]
    /\ UNCHANGED <<request, sending, crossed, hit, call, holder, event, charged,
                   cancelling, failures, cancels>>

\* The provider or IMS reports failure, to every poller that asks.
ProviderFailed(j) ==
    /\ job[j].status = "in_progress"
    /\ \A w \in Pollers : poller[w].job # j
    /\ job' = SetStatus(j, "failed")
    /\ UNCHANGED <<request, sending, crossed, hit, call, holder, event, charged,
                   poller, cancelling, failures, cancels>>

\* _finalize_segment claims a finished shot: the row must still be open.
ClaimTransfer(w, j) ==
    /\ poller[w] = Idle
    /\ j \in Shots /\ job[j].status \in {"in_progress", "transfer_failed"}
    /\ job' = SetStatus(j, "finalizing")
    /\ Poll(w, j, "seen")
    /\ UNCHANGED <<request, sending, crossed, hit, call, holder, event, charged,
                   cancelling, failures, cancels>>

\* The copy to object storage succeeds, or fails for now or for good.
Transferred(w) ==
    /\ poller[w].at = "seen"
    /\ Poll(w, poller[w].job, "copied")
    /\ UNCHANGED <<request, sending, crossed, hit, job, call, holder, event,
                   charged, cancelling, failures, cancels>>

TransferFailed(w) ==
    /\ poller[w].at = "seen"
    /\ failures < MaxFailures
    /\ \E status \in {"transfer_failed", "failed"} :
           job' = SetStatus(poller[w].job, status)
    /\ failures' = failures + 1
    /\ poller' = [poller EXCEPT ![w] = Idle]
    /\ UNCHANGED <<request, sending, crossed, hit, call, holder, event, charged,
                   cancelling, cancels>>

\* A finalization that looks stale is handed back to recovery.
ReclaimStale(j) ==
    /\ job[j].status = "finalizing"
    /\ failures < MaxFailures
    /\ job' = SetStatus(j, "transfer_failed")
    /\ failures' = failures + 1
    /\ UNCHANGED <<request, sending, crossed, hit, call, holder, event, charged,
                   poller, cancelling, cancels>>

\* An exhausted transfer is given up.
StopTransfer(j) ==
    /\ job[j].status = "transfer_failed"
    /\ job' = SetStatus(j, "failed")
    /\ UNCHANGED <<request, sending, crossed, hit, call, holder, event, charged,
                   poller, cancelling, failures, cancels>>

\* settle_generation charges the saved quote, settle_compose the duration that
\* IMS reports.  A settlement that fails is logged and the job is closed all
\* the same.
SettleJob(w) ==
    LET j == poller[w].job IN
    /\ poller[w].at = "copied"
    /\ \/ \E d \in IF j \in Composes THEN 0..Overrun ELSE {0} :
              Settle(j, Price[j] + d)
       \/ UNCHANGED <<event, charged>>
    /\ Poll(w, j, "settled")
    /\ UNCHANGED <<request, sending, crossed, hit, job, call, holder,
                   cancelling, failures, cancels>>

\* _update_job(status="completed"), whatever the row holds by now.
Complete(w) ==
    /\ poller[w].at = "settled"
    /\ job' = SetStatus(poller[w].job, "completed")
    /\ poller' = [poller EXCEPT ![w] = Idle]
    /\ UNCHANGED <<request, sending, crossed, hit, call, holder, event, charged,
                   cancelling, failures, cancels>>

\* A cancel reads the status, asks the provider if it has the job, and then
\* writes: a shot that is being finalized is refused.
BeginCancel(j) ==
    /\ cancels < MaxCancels
    /\ j \notin cancelling
    /\ job[j].status \in VideoJobInFlight \ {"finalizing"}
    /\ cancelling' = cancelling \cup {j} /\ cancels' = cancels + 1
    /\ UNCHANGED <<request, sending, crossed, hit, job, call, holder, event,
                   charged, poller, failures>>

WriteCancel(j) ==
    /\ j \in cancelling
    /\ job' = SetStatus(j, "cancelled")
    /\ cancelling' = cancelling \ {j}
    /\ UNCHANGED <<request, sending, crossed, hit, call, holder, event, charged,
                   poller, failures, cancels>>

\* A process dies: its calls stop where they are and its locks are gone.
Crash(p) ==
    /\ call' = [s \in Steps |->
                  IF /\ call[s].proc = p
                     /\ call[s].at \in {"waiting", "guarding", "admitted", "written"}
                  THEN [call[s] EXCEPT !.at = "dead"] ELSE call[s]]
    /\ call' # call
    /\ holder' = [holder EXCEPT ![p] = NoJob]
    /\ UNCHANGED <<request, sending, crossed, hit, job, event, charged, poller,
                   cancelling, failures, cancels>>

Next ==
    \/ BeginSend
    \/ SetCap
    \/ \E j \in Jobs, p \in Procs : Submit(j, p)
    \/ \E j \in Jobs : \/ Acquire(j) \/ Admit(j) \/ Refuse(j) \/ WriteRow(j)
                       \/ Dispatch(j) \/ ProviderFailed(j) \/ ReclaimStale(j)
                       \/ StopTransfer(j) \/ BeginCancel(j) \/ WriteCancel(j)
    \/ \E s \in Images : RunImage(s)
    \/ \E w \in Pollers, j \in Jobs : SeeCompose(w, j) \/ ClaimTransfer(w, j)
    \/ \E w \in Pollers : StillRunning(w) \/ Transferred(w) \/ TransferFailed(w)
                          \/ SettleJob(w) \/ Complete(w)
    \/ \E p \in Procs : Crash(p)

Spec == Init /\ [][Next]_vars

-----------------------------------------------------------------------------
\* What a step of the current request costs: what was charged for it, or what
\* it was quoted as long as it may still be charged.
Liability(s) ==
    IF event[s].request # 0 THEN event[s].credits
    ELSE IF s \in Jobs /\ job[s].status \in VideoJobInFlight \cup {"completed"}
         THEN job[s].quote ELSE 0

OfRequest(s) == IF s \in Jobs THEN job[s].since = request
                ELSE event[s].request = request

\* What all the steps of the current request cost.
Cost == SumFunction([s \in {t \in Steps : OfRequest(t)} |-> Liability(s)])

(* The steps bought for one request never cost more than its cap: "two      *)
(* submits of one session cannot both pass on the same view".  The guard    *)
(* reads before the row of the admitted job exists; the lock of reserve is  *)
(* what keeps the next guard out until then.  The lock is one process's:    *)
(* this is a property of a session whose calls run in one process.          *)
CapHolds == Cost <= Limit

(* A guard never reads less as spent than the steps of this request cost,   *)
(* and what it reads is exactly that as long as no cap was replaced while   *)
(* the session was busy: no job is missed or counted twice between its      *)
(* admission, its settlement and its completion.  Two prompts at once both  *)
(* find the session idle; the second cap then counts what is settled for a  *)
(* job of the first (README section 5).                                     *)
SpentIsLiability ==
    /\ Spent({}) >= Cost
    /\ ~crossed => Spent({}) = Cost

(* The workspace is charged once for each step, however many pollers of     *)
(* however many processes finalize it: the ledger is the sum of the usage   *)
(* events.                                                                  *)
ChargedOnce == charged = SumFunction([s \in Steps |-> event[s].credits])

(* A refused step is never charged: "Nothing is submitted upstream, so      *)
(* nothing is charged".                                                     *)
RefusedCostsNothing ==
    \A s \in Steps : call[s].at = "refused" => event[s].request = 0

(* FAILED_JOB_STATUSES are "job states after which no charge will ever be   *)
(* settled".                                                                *)
(* Known gap, README section 5.                                             *)
FailedNeverCharged ==
    [][\A j \in Jobs : job[j].status \in FailedJobStatuses /\ event[j].request = 0
                          => event'[j].request = 0]_vars

(* Every paid step is checked "using the same quote the step would be       *)
(* charged at".                                                             *)
(* Known gap, README section 5.                                             *)
ChargedAtQuote ==
    \A j \in Jobs : event[j].request # 0 => event[j].credits = job[j].quote
=============================================================================
