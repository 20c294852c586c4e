------------------------------- MODULE MCCron -------------------------------
(***************************************************************************)
(* Two instances side by side for TLC: the scheduler of cron jobs, and     *)
(* what becomes of the results.  `part' says which of the two a behaviour  *)
(* is about; the other one stays in its initial state.                     *)
(***************************************************************************)
EXTENDS CronJobs

CONSTANTS
  spare,                \* a job that may have been removed long ago
  victim,               \* the replica that crashes or meets an error, if any
  Runs, MaxInterrupts   \* of CronInjection

ASSUME InjectionAssumption == MaxInterrupts \in Nat

VARIABLES part, status, silent, injected, at, turn, list, interrupts, posted

I == INSTANCE CronInjection

results == <<status, silent, injected, at, turn, list, interrupts, posted>>

all == <<part, vars, results>>

Removed == [kind |-> "at", enabled |-> FALSE, deleted |-> TRUE, moment |-> 0,
            mark |-> None, due |-> None, errors |-> 0, backoff |-> 0]

\* One job or two (of two kinds in one order only: they are interchangeable);
\* a behaviour about results has two that never run.
MCInit ==
  /\ \/ Init /\ (job[spare].kind = "every" => \A j \in Jobs : job[j].kind = "every")
     \/ /\ \E k \in {"at", "every"} :
             job = [j \in Jobs |-> IF j = spare THEN Removed ELSE
                     [kind |-> k, enabled |-> TRUE, deleted |-> FALSE,
                      moment |-> IF k = "at" THEN 1 ELSE 0, mark |-> None,
                      due |-> 1, errors |-> 0, backoff |-> 0]]
        /\ tick = [r \in Replicas |-> "idle"]
        /\ todo = [r \in Replicas |-> {}]
        /\ exec = [r \in Replicas |-> [o \in Origins |-> [j \in Jobs |-> Idle]]]
        /\ edits = 0 /\ crashes = 0 /\ faults = 0 /\ orphans = {}
  /\ I!Init
  /\ part \in {"jobs", "results"}
  /\ part = "jobs" => silent = [x \in Runs |-> FALSE]
  /\ part = "results" => \A j \in Jobs : job[j].kind = "at" /\ ~job[j].deleted

\* With one job, requests and one crash or error, after which there is no
\* second request; with two, one manual run.  (With two jobs an error could
\* starve one of them here, as the order of next_run_at is not kept.)
Budget ==
  IF job[spare] = Removed
    THEN /\ crashes' + faults' <= 1
         /\ crashes + faults = 1 /\ edits' > edits => edits = 0
         /\ crashes' > crashes => tick'[victim] = "down"
         /\ faults' > faults => \A r \in Replicas \ {victim} : exec'[r] = exec[r]
    ELSE /\ crashes' = 0 /\ faults' = 0 /\ edits' <= 1
         /\ edits' > edits => exec' # exec

InJobs(A)    == part = "jobs" /\ A /\ UNCHANGED <<part, results>>
InResults(A) == part = "results" /\ A /\ UNCHANGED <<part, vars>>

MCNext == InJobs(Next /\ Budget) \/ InResults(I!Next)

\* The fairness of CronJobs and of CronInjection in a conversation that
\* is used again and again.  A step of the other
\* part is never enabled, so a pair shares one formula.
MCFairness ==
  /\ WF_all(InJobs(Tick) \/ InResults(I!LoopStep))
  /\ \A r \in Replicas :
       /\ WF_all(InJobs(TimerStep(r)) \/ InResults(I!StartTurn))
       /\ WF_all(InJobs(ManualStep(r)))
  /\ \A r \in Replicas, o \in Origins, j \in Jobs : WF_all(InJobs(Finish(r, o, j)))
  /\ \A x \in Runs : WF_all(InResults(I!ExecutorStep(x)))

MCSpec == MCInit /\ [][MCNext]_all /\ MCFairness

\* A result reaches the conversation once at most, a silent one never,
\* whichever of executor, flush, timeout and restart gets to it.
ResultsPostedOnce == I!TypeOK /\ I!PostedOnce /\ I!SilentStaysSilent

\* Neither a job nor a result waits for ever: a run that died with its replica
\* gives its job back, and a conversation that is used gets its results.
NothingWaits == DeadRunReleased /\ I!PostedWhenUsed
=============================================================================
