------------------------------ MODULE CronJobs ------------------------------
(***************************************************************************)
(* The scheduler of cron jobs (backend/cron: timer.py, service.py,         *)
(* records.py, recovery.py): several replicas of the backend tick over the *)
(* same table, claim due jobs with a conditional update of running_at,     *)
(* execute them and apply the results.                                     *)
(*                                                                         *)
(* Abstractions.  All jobs are of one user.  Times are kept as the time    *)
(* left (next_run_at, the backoff window) or as an age (running_at); one   *)
(* tick of the clock is long against a database step, so it does not pass  *)
(* while a replica collects, claims or applies.  The natural next slot of  *)
(* a recurring schedule is any time within one interval.  Prompts,         *)
(* summaries, run records and notifications are left out (CronInjection    *)
(* models what becomes of a result).                                       *)
(***************************************************************************)
EXTENDS Integers, FiniteSets

CONSTANTS
  Replicas,       \* backend processes with a scheduler
  Jobs,           \* rows of cron_jobs
  Stuck,          \* STUCK_RUN_MS, in ticks
  Timeout,        \* a job's timeout_seconds
  Interval,       \* longest time to the next natural slot
  Backoff,        \* error_backoff_ms, one value for all error counts
  MaxConcurrent,  \* cron_max_concurrent_jobs (and per user)
  DisableAfter,   \* cron_auto_disable_after
  MaxRetries,     \* max_retries of a one-shot job
  MaxEdits,       \* bound on requests of users
  MaxCrashes,     \* bound on crashes of replicas
  MaxFaults       \* bound on database errors in a claim or a result

ASSUME CronAssumption ==
  /\ IsFiniteSet(Jobs)
  /\ Stuck \in Nat /\ Timeout \in Nat /\ Timeout <= Stuck
  /\ Interval \in Nat \ {0} /\ Backoff \in Nat \ {0}
  /\ MaxConcurrent \in Nat \ {0} /\ DisableAfter \in Nat \ {0}
  /\ MaxRetries \in Nat /\ MaxEdits \in Nat /\ MaxCrashes \in Nat /\ MaxFaults \in Nat

VARIABLES
  job,      \* [Jobs -> the row]
  tick,     \* [Replicas -> what the timer of the replica is doing]
  todo,     \* [Replicas -> jobs it collected and has not tried to claim yet]
  exec,     \* [Replicas -> [origin -> [Jobs -> the execution]]]
  edits,    \* requests of users so far
  crashes,  \* crashes so far
  faults,   \* database errors so far
  orphans   \* history: jobs whose marker an error left without an execution

vars == <<job, tick, todo, exec, edits, crashes, faults, orphans>>

erring == <<faults, orphans>>

None    == -1
Origins == {"timer", "manual"}
Results == {"ok", "transient", "error", "skipped"}
Longest == IF Interval > Backoff THEN Interval ELSE Backoff

\* moment: the time left until the moment of a one-shot job, 0 once it passed.
Row == [kind : {"at", "every"}, enabled : BOOLEAN, deleted : BOOLEAN,
        moment : 0 .. Interval, mark : None .. Stuck + 1, due : None .. Longest,
        errors : 0 .. DisableAfter, backoff : 0 .. Backoff]

\* asked: a manual run that passed the check of run() and has not claimed yet.
Execution == [at : {"none", "asked", "claimed", "executing", "finished"},
              age : 0 .. Timeout, result : Results]

Idle == [at |-> "none", age |-> 0, result |-> "ok"]

Init ==
  /\ job \in [Jobs -> {[kind |-> k, enabled |-> TRUE, deleted |-> FALSE,
                        moment |-> IF k = "at" THEN 1 ELSE 0, mark |-> None,
                        due |-> 1, errors |-> 0, backoff |-> 0] : k \in {"at", "every"}}]
  /\ tick = [r \in Replicas |-> "idle"]
  /\ todo = [r \in Replicas |-> {}]
  /\ exec = [r \in Replicas |-> [o \in Origins |-> [j \in Jobs |-> Idle]]]
  /\ edits = 0 /\ crashes = 0 /\ faults = 0 /\ orphans = {}

-----------------------------------------------------------------------------
Stale(j)     == job[j].mark > Stuck
Unmarked(j)  == job[j].mark = None
Claimable(j) == Unmarked(j) \/ Stale(j)

\* Rows that count against the limits: running_at set and not stale.
Counted == {j \in Jobs : ~job[j].deleted /\ ~Claimable(j)}

HasCapacity == Cardinality(Counted) < MaxConcurrent

Batch(r) == {j \in Jobs : exec[r]["timer"][j].at # "none"}

PoolSize(r) == Cardinality({j \in Jobs : exec[r]["timer"][j].at = "executing"})

SetExec(r, o, j, e) == exec' = [exec EXCEPT ![r][o][j] = e]

\* _collect_runnable_jobs: due, claimable, out of backoff, and within what is
\* left of the user's limit.  The limit counts deleted rows too.
Due == {j \in Jobs : /\ job[j].enabled /\ ~job[j].deleted
                     /\ job[j].due = 0
                     /\ Claimable(j)
                     /\ job[j].errors = 0 \/ job[j].backoff = 0}

Running == Cardinality({j \in Jobs : ~Claimable(j)})

Collect(r) ==
  /\ tick[r] = "idle"
  /\ \E S \in SUBSET Due :
       /\ S # {}
       /\ Cardinality(S) + Running <= MaxConcurrent
       /\ \A j \in Due \ S : Cardinality(S) + Running = MaxConcurrent
       /\ todo' = [todo EXCEPT ![r] = S]
  /\ tick' = [tick EXCEPT ![r] = "claiming"]
  /\ UNCHANGED <<job, exec, edits, crashes, erring>>

ClaimsUncounted(j, manual) ==
  ~job[j].deleted /\ (manual \/ job[j].enabled) /\ Claimable(j)

ClaimsDisabled(j, manual) ==
  ~job[j].deleted /\ HasCapacity /\ Claimable(j)

ClaimsMarked(j, manual) ==
  /\ ~job[j].deleted /\ (manual \/ job[j].enabled)
  /\ Cardinality(Counted \ {j}) < MaxConcurrent

ClaimsUnmarked(j, manual) ==
  ~job[j].deleted /\ HasCapacity /\ (manual \/ job[j].enabled) /\ Unmarked(j)

\* The conditional update of _claim_job.  It does not ask again whether the
\* job is due; a manual claim does not ask whether it is enabled.
Claims(j, manual) ==
  /\ ~job[j].deleted
  /\ HasCapacity
  /\ manual \/ job[j].enabled
  /\ Claimable(j)

ClaimJob(r, j) ==
  /\ tick[r] = "claiming" /\ j \in todo[r]
  /\ todo' = [todo EXCEPT ![r] = @ \ {j}]
  /\ IF Claims(j, FALSE)
       THEN /\ job' = [job EXCEPT ![j].mark = 0]
            /\ SetExec(r, "timer", j, [Idle EXCEPT !.at = "claimed"])
            /\ orphans' = orphans \ {j}
       ELSE UNCHANGED <<job, exec, orphans>>
  /\ UNCHANGED <<tick, edits, crashes, faults>>

\* All claims are tried: run the pool, or end the tick if none was won.
BeginPool(r) ==
  /\ tick[r] = "claiming" /\ todo[r] = {}
  /\ tick' = [tick EXCEPT ![r] = IF Batch(r) = {} THEN "idle" ELSE "pool"]
  /\ UNCHANGED <<job, todo, exec, edits, crashes, erring>>

\* A worker of the pool takes the next job.
StartJob(r, j) ==
  /\ tick[r] = "pool" /\ exec[r]["timer"][j].at = "claimed"
  /\ PoolSize(r) < MaxConcurrent
  /\ SetExec(r, "timer", j, [Idle EXCEPT !.at = "executing"])
  /\ UNCHANGED <<job, tick, todo, edits, crashes, erring>>

\* run() and the start of _run_manual, with an await between the two.
RunManual(r, j) ==
  /\ edits < MaxEdits /\ tick[r] # "down"
  /\ ~job[j].deleted /\ Unmarked(j)
  /\ exec[r]["manual"][j].at = "none"
  /\ SetExec(r, "manual", j, [Idle EXCEPT !.at = "asked"])
  /\ edits' = edits + 1
  /\ UNCHANGED <<job, tick, todo, crashes, erring>>

ClaimManual(r, j) ==
  /\ exec[r]["manual"][j].at = "asked"
  /\ IF Claims(j, TRUE)
       THEN /\ job' = [job EXCEPT ![j].mark = 0]
            /\ SetExec(r, "manual", j, [Idle EXCEPT !.at = "executing"])
            /\ orphans' = orphans \ {j}
       ELSE /\ SetExec(r, "manual", j, Idle)
            /\ UNCHANGED <<job, orphans>>
  /\ UNCHANGED <<tick, todo, edits, crashes, faults>>

\* The execution ends by itself or by wait_for.
Finish(r, o, j) ==
  /\ exec[r][o][j].at = "executing"
  /\ \E res \in Results :
       SetExec(r, o, j, [exec[r][o][j] EXCEPT !.at = "finished", !.result = res])
  /\ UNCHANGED <<job, tick, todo, edits, crashes, erring>>

-----------------------------------------------------------------------------
\* compute_next_run_at: a slot of a recurring schedule, or the moment of a
\* one-shot job unless it has passed.
ComputeNext(row, natural) ==
  IF row.kind = "every" THEN natural
  ELSE IF row.moment > 0 THEN row.moment
  ELSE None

Failed(res) == res \in {"error", "transient"}

\* The counters of job_result_values.
Errors(row, res) ==
  IF res = "ok" THEN 0
  ELSE IF Failed(res) /\ row.errors < DisableAfter THEN row.errors + 1
  ELSE row.errors

NeverDisables(row, res) == FALSE

Disables(row, res) == Failed(res) /\ Errors(row, res) >= DisableAfter

Larger(a, b) == IF a > b THEN a ELSE b

\* A one-shot job ends unless its error is transient and retries are left.
Retries(row, res) == res = "transient" /\ Errors(row, res) <= MaxRetries

\* job_result_values, with natural the next slot of a recurring schedule.
JobResultValues(row, res, natural) ==
  LET ends == Disables(row, res) \/ (row.kind = "at" /\ ~Retries(row, res))
  IN [row EXCEPT
       !.mark = None,
       !.errors = Errors(row, res),
       !.backoff = IF Errors(row, res) > 0 THEN Backoff ELSE 0,
       !.enabled = @ /\ ~ends,
       !.due = IF ends THEN None
               ELSE IF row.kind = "at" THEN Backoff
               ELSE IF Failed(res) /\ row.enabled THEN Larger(natural, Backoff)
               ELSE natural]

\* _apply_job_result: the row as it is now, not as it was claimed.
ApplyTo(j, res) ==
  \E natural \in 1 .. Interval, purge \in BOOLEAN :
    LET row == JobResultValues(job[j], res, natural)
    IN /\ purge => job[j].kind = "at" /\ res = "ok" /\ ~Disables(job[j], res)
       /\ job' = [job EXCEPT ![j] = [row EXCEPT !.deleted = row.deleted \/ purge]]

\* on_timer applies when the whole batch has finished.
ApplyResult(r, j) ==
  /\ tick[r] = "pool" /\ exec[r]["timer"][j].at = "finished"
  /\ \A i \in Batch(r) : exec[r]["timer"][i].at = "finished"
  /\ ApplyTo(j, exec[r]["timer"][j].result)
  /\ SetExec(r, "timer", j, Idle)
  /\ tick' = [tick EXCEPT ![r] = IF Batch(r) = {j} THEN "idle" ELSE @]
  /\ UNCHANGED <<todo, edits, crashes, erring>>

ApplyManual(r, j) ==
  /\ exec[r]["manual"][j].at = "finished"
  /\ ApplyTo(j, exec[r]["manual"][j].result)
  /\ SetExec(r, "manual", j, Idle)
  /\ UNCHANGED <<tick, todo, edits, crashes, erring>>

-----------------------------------------------------------------------------
(* Database errors.  on_timer logs them and goes on; the task of a manual run *)
(* dies of them.  Either way nobody takes the marker back.                    *)

Fault == faults < MaxFaults /\ faults' = faults + 1

\* The claim of j raises, after its commit or before: the marker is set for
\* nobody, or not at all.
MarkLost(j, manual, lost) ==
  \/ /\ UNCHANGED job
     /\ orphans' = orphans \cup lost
  \/ /\ Claims(j, manual)
     /\ job' = [job EXCEPT ![j].mark = 0]
     /\ orphans' = orphans \cup lost \cup {j}

\* The loop over the due jobs ends there, and with it the tick: the jobs it
\* has claimed are not executed.
ClaimRaises(r, j) ==
  /\ Fault
  /\ tick[r] = "claiming" /\ j \in todo[r]
  /\ MarkLost(j, FALSE, Batch(r))
  /\ tick' = [tick EXCEPT ![r] = "idle"]
  /\ todo' = [todo EXCEPT ![r] = {}]
  /\ exec' = [exec EXCEPT ![r]["timer"] = [i \in Jobs |-> Idle]]
  /\ UNCHANGED <<edits, crashes>>

ClaimManualRaises(r, j) ==
  /\ Fault
  /\ exec[r]["manual"][j].at = "asked"
  /\ MarkLost(j, TRUE, {})
  /\ SetExec(r, "manual", j, Idle)
  /\ UNCHANGED <<tick, todo, edits, crashes>>

\* A result that cannot be applied is dropped; the loop goes on with the next.
ApplyRaises(r, j) ==
  /\ Fault
  /\ tick[r] = "pool" /\ exec[r]["timer"][j].at = "finished"
  /\ \A i \in Batch(r) : exec[r]["timer"][i].at = "finished"
  /\ SetExec(r, "timer", j, Idle)
  /\ tick' = [tick EXCEPT ![r] = IF Batch(r) = {j} THEN "idle" ELSE @]
  /\ orphans' = orphans \cup {j}
  /\ UNCHANGED <<job, todo, edits, crashes>>

ApplyManualRaises(r, j) ==
  /\ Fault
  /\ exec[r]["manual"][j].at = "finished"
  /\ SetExec(r, "manual", j, Idle)
  /\ orphans' = orphans \cup {j}
  /\ UNCHANGED <<job, tick, todo, edits, crashes>>

-----------------------------------------------------------------------------
(* Requests of users. *)

\* update() with a new schedule or enabled flag; the moment of a one-shot job
\* may have passed, a disabled job has no next run.
Updated(row, k, e, moment, natural) ==
  LET new == [row EXCEPT !.kind = k, !.enabled = e,
                         !.moment = IF k = "at" THEN moment ELSE 0]
  IN [new EXCEPT !.due = IF e THEN ComputeNext(new, natural) ELSE None]

UpdateJob(j) ==
  /\ edits < MaxEdits /\ ~job[j].deleted
  /\ \E k \in {"at", "every"}, e \in BOOLEAN, moment \in 0 .. Interval, natural \in 1 .. Interval :
       job' = [job EXCEPT ![j] = Updated(@, k, e, moment, natural)]
  /\ edits' = edits + 1
  /\ UNCHANGED <<tick, todo, exec, crashes, erring>>

RemoveJob(j) ==
  /\ edits < MaxEdits /\ ~job[j].deleted
  /\ job' = [job EXCEPT ![j].deleted = TRUE, ![j].enabled = FALSE]
  /\ edits' = edits + 1
  /\ UNCHANGED <<tick, todo, exec, crashes, erring>>

PauseAll ==
  /\ edits < MaxEdits
  /\ job' = [j \in Jobs |-> IF ~job[j].deleted /\ job[j].enabled
                              THEN [job[j] EXCEPT !.enabled = FALSE, !.due = None]
                              ELSE job[j]]
  /\ edits' = edits + 1
  /\ UNCHANGED <<tick, todo, exec, crashes, erring>>

\* resume_all recomputes only the rows that have no next run.
Resumed(j, natural) ==
  IF job[j].deleted THEN job[j]
  ELSE [job[j] EXCEPT !.enabled = TRUE,
                      !.due = IF @ = None THEN ComputeNext(job[j], natural) ELSE @]

ResumeAll ==
  /\ edits < MaxEdits
  /\ \E natural \in [Jobs -> 1 .. Interval] : job' = [j \in Jobs |-> Resumed(j, natural[j])]
  /\ edits' = edits + 1
  /\ UNCHANGED <<tick, todo, exec, crashes, erring>>

-----------------------------------------------------------------------------
(* Crash and startup. *)

Crash(r) ==
  /\ crashes < MaxCrashes /\ tick[r] # "down"
  /\ tick' = [tick EXCEPT ![r] = "down"]
  /\ todo' = [todo EXCEPT ![r] = {}]
  /\ exec' = [exec EXCEPT ![r] = [o \in Origins |-> [j \in Jobs |-> Idle]]]
  /\ crashes' = crashes + 1
  /\ UNCHANGED <<job, edits, erring>>

RecoveredMarked(j, stale, natural) == job[j]

\* recover_on_startup and _recompute_all: every marker goes; a run missed by
\* too much (stale) moves to its next slot or is parked; a slot still to come
\* is computed again from the schedule, the retry of a one-shot job too.
Recovered(j, stale, natural) ==
  LET row  == [job[j] EXCEPT !.mark = None]
      next == ComputeNext(row, natural)
  IN IF row.deleted \/ ~row.enabled THEN row
     ELSE IF row.due # 0 THEN [row EXCEPT !.due = next]
     ELSE IF stale /\ Unmarked(j) THEN [row EXCEPT !.due = next, !.enabled = next # None]
     ELSE row

Startup(r) ==
  /\ tick[r] = "down"
  /\ \E stale \in [Jobs -> BOOLEAN], natural \in [Jobs -> 1 .. Interval] :
       job' = [j \in Jobs |-> Recovered(j, stale[j], natural[j])]
  /\ tick' = [tick EXCEPT ![r] = "idle"]
  /\ UNCHANGED <<todo, exec, edits, crashes, erring>>

LessPast(n) == n - 1

Less(n) == IF n > 0 THEN n - 1 ELSE n

\* The clock, while nobody is between two database steps of a tick.
Prompt ==
  /\ \A r \in Replicas :
       /\ tick[r] # "claiming"
       /\ \A j \in Jobs : exec[r]["manual"][j].at \notin {"asked", "finished"}
       /\ Batch(r) # {} => PoolSize(r) > 0
       /\ PoolSize(r) < MaxConcurrent => \A j \in Jobs : exec[r]["timer"][j].at # "claimed"

Tick ==
  /\ Prompt
  /\ \A r \in Replicas, o \in Origins, j \in Jobs :
       exec[r][o][j].at = "executing" => exec[r][o][j].age < Timeout
  /\ job' = [j \in Jobs |-> [job[j] EXCEPT
                !.mark = IF @ = None \/ @ > Stuck THEN @ ELSE @ + 1,
                !.due = Less(@),
                !.moment = Less(@),
                !.backoff = Less(@)]]
  /\ exec' = [r \in Replicas |-> [o \in Origins |-> [j \in Jobs |->
                IF exec[r][o][j].at = "executing"
                  THEN [exec[r][o][j] EXCEPT !.age = @ + 1] ELSE exec[r][o][j]]]]
  /\ UNCHANGED <<tick, todo, edits, crashes, erring>>

TimerStep(r) ==
  \/ Collect(r)
  \/ BeginPool(r)
  \/ \E j \in Jobs : ClaimJob(r, j) \/ StartJob(r, j) \/ ApplyResult(r, j)

ManualStep(r) ==
  \E j \in Jobs : ClaimManual(r, j) \/ ApplyManual(r, j)

FaultStep ==
  \E r \in Replicas, j \in Jobs :
    \/ ClaimRaises(r, j) \/ ClaimManualRaises(r, j)
    \/ ApplyRaises(r, j) \/ ApplyManualRaises(r, j)

UserStep ==
  \/ \E r \in Replicas, j \in Jobs : RunManual(r, j)
  \/ \E j \in Jobs : UpdateJob(j) \/ RemoveJob(j)
  \/ PauseAll
  \/ ResumeAll

Next ==
  \/ \E r \in Replicas : TimerStep(r) \/ ManualStep(r)
  \/ \E r \in Replicas, o \in Origins, j \in Jobs : Finish(r, o, j)
  \/ UserStep
  \/ FaultStep
  \/ \E r \in Replicas : Crash(r) \/ Startup(r)
  \/ Tick

Spec == Init /\ [][Next]_vars

\* The clock runs, timers of replicas that are up keep ticking, executions end
\* (wait_for), and nobody is obliged to restart a replica or to send requests.
Fairness ==
  /\ WF_vars(Tick)
  /\ \A r \in Replicas : WF_vars(TimerStep(r)) /\ WF_vars(ManualStep(r))
  /\ \A r \in Replicas, o \in Origins, j \in Jobs : WF_vars(Finish(r, o, j))

FairSpec == Spec /\ Fairness

-----------------------------------------------------------------------------
(* Properties. *)

TypeOK ==
  /\ job \in [Jobs -> Row]
  /\ tick \in [Replicas -> {"idle", "claiming", "pool", "down"}]
  /\ todo \in [Replicas -> SUBSET Jobs]
  /\ exec \in [Replicas -> [Origins -> [Jobs -> Execution]]]
  /\ edits \in 0 .. MaxEdits
  /\ crashes \in 0 .. MaxCrashes
  /\ faults \in 0 .. MaxFaults
  /\ orphans \in SUBSET Jobs

Executing(r, o, j) == exec[r][o][j].at \in {"claimed", "executing", "finished"}

\* A job has one execution at a time, whichever replicas tick over it and
\* however many users press "run": the conditional update of _claim_job is
\* "what makes running two backend replicas safe" (timer.py:320-321).  The
\* startup of a replica takes the markers of the others away, so this is about
\* replicas none of which restarts.
OneRunAtATime ==
  crashes = 0 =>
    \A r1, r2 \in Replicas, o1, o2 \in Origins, j \in Jobs :
      Executing(r1, o1, j) /\ Executing(r2, o2, j) => r1 = r2 /\ o1 = o2

\* Executions of jobs that exist never exceed cron_max_concurrent_jobs, though
\* each replica runs its own pool: lock_run_admission spans the replicas.  It
\* counts markers, so this too is about replicas none of which restarts.
CapacityHolds ==
  crashes = 0 =>
    Cardinality({j \in Jobs : /\ ~job[j].deleted
                              /\ \E r \in Replicas, o \in Origins : Executing(r, o, j)})
      <= MaxConcurrent

\* A timer never starts a one-shot job that has ended, nor any job that was
\* disabled, from a list it collected before (the enabled test of _claim_job).
DisabledNeverStarts ==
  [][\A r \in Replicas, j \in Jobs :
       exec[r]["timer"][j].at = "none" /\ exec'[r]["timer"][j].at = "claimed" => job[j].enabled]_vars

\* A job that reached cron_auto_disable_after consecutive failures is disabled
\* by that very result and stays so until a user asks otherwise.
BrokenStaysOff ==
  [][\A j \in Jobs :
       job'[j].errors = DisableAfter /\ (job'[j].errors # job[j].errors \/ ~job[j].enabled) /\ edits' = edits
         => ~job'[j].enabled]_vars

\* While every replica is up, a marker belongs to an execution that will apply
\* its result, unless an error of the database stopped a claim or dropped a
\* result (timer.py:129-135): nothing else leaves a marker without a run.
MarkHasRun ==
  (\A r \in Replicas : tick[r] # "down") =>
    \A j \in Jobs \ orphans :
      job[j].mark # None => \E r \in Replicas, o \in Origins : Executing(r, o, j)

\* "A stale marker ... counts as claimable so a crashed run cannot pin its job
\* forever" (timer.py:321-322): whether its replica died or an error left the
\* marker, some later tick of a replica that is up takes the job again, or a
\* user stops it.  The tick looks only at jobs that have a next run, and run()
\* refuses a job that is marked, so a job without one is not covered: README
\* section 5.
DeadRunReleased ==
  \A j \in Jobs :
    job[j].mark > Stuck /\ job[j].enabled /\ ~job[j].deleted /\ job[j].due # None
      ~> \/ job[j].mark <= Stuck \/ ~job[j].enabled \/ job[j].deleted \/ job[j].due = None
         \/ \A r \in Replicas : tick[r] = "down"

\* Executions, markers and the capacity agree, over all replicas.
RunsInBounds == TypeOK /\ CapacityHolds /\ OneRunAtATime /\ MarkHasRun

\* A job that is off is not started from an old list, and one that failed too
\* often goes off and stays off.
StaysOff == DisabledNeverStarts /\ BrokenStaysOff

\* A tick executes a job only for a slot that is still due: "a second scheduler
\* (another replica, or a manual run racing the timer) loses the claim instead
\* of executing the same job twice" (timer.py:111-113).
\* Known gap, README section 5.
TimerRunsDueJobs ==
  [][\A r \in Replicas, j \in Jobs :
       exec[r]["timer"][j].at = "none" /\ exec'[r]["timer"][j].at = "claimed" => job[j].due = 0]_vars

\* A stale marker is taken over whether or not the job has a next run.
\* Known gap, README section 5.
MarkNeverPins ==
  \A j \in Jobs :
    job[j].mark > Stuck /\ job[j].enabled /\ ~job[j].deleted
      ~> \/ job[j].mark <= Stuck \/ ~job[j].enabled \/ job[j].deleted
         \/ \A r \in Replicas : tick[r] = "down"

\* resume_all is documented to "recompute their next fire times": a recurring
\* job that it enables does not fire for a slot that passed while it was off.
\* Known gap, README section 5.
ResumeRecomputes ==
  [][\A j \in Jobs : ResumeAll /\ ~job[j].enabled /\ job'[j].enabled => job'[j].due # 0]_vars

\* Startup recovery parks a one-shot job that has no slot left "rather than
\* leaving it enabled with no schedule" (recovery.py:144-145): an enabled job
\* with a next run still has one, or is disabled, after a restart.
\* Known gap, README section 5.
StartupKeepsSlot ==
  [][\A r \in Replicas, j \in Jobs :
       Startup(r) /\ job[j].enabled /\ ~job[j].deleted /\ job[j].due # None
         => job'[j].due # None \/ ~job'[j].enabled]_vars

\* A manual run is documented not to "advance schedule" (service.py:262).
\* Known gap, README section 5.
ManualKeepsSlot ==
  [][\A r \in Replicas, j \in Jobs :
       ApplyManual(r, j) /\ job[j].kind = "every" /\ exec[r]["manual"][j].result = "ok"
         => job'[j].due = job[j].due]_vars
=============================================================================
