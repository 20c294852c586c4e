------------------------------ MODULE CronProofs ------------------------------
(***************************************************************************)
(* Proofs about the scheduler of cron jobs (CronJobs) and the posting of   *)
(* results (CronInjection, here instance I of MCCron), for any replicas,   *)
(* jobs, runs and limits.                                                  *)
(***************************************************************************)
EXTENDS MCCron, FiniteSetTheorems, TLAPS

-----------------------------------------------------------------------------
(* The inductive invariant of the scheduler. *)

\* A timer does not ask and a manual run does not wait for the pool; a batch
\* exists while claims are tried and while the pool runs.
Shape ==
  /\ \A r \in Replicas, j \in Jobs :
       /\ exec[r]["timer"][j].at # "asked" /\ exec[r]["manual"][j].at # "claimed"
       /\ tick[r] \in {"idle", "down"} => exec[r]["timer"][j].at = "none"
       /\ tick[r] = "claiming" => exec[r]["timer"][j].at \in {"none", "claimed"}
  /\ crashes = 0 => \A r \in Replicas : tick[r] # "down"

\* A batch and what is left to claim fit into one pool.
BatchFits == \A r \in Replicas : Cardinality(Batch(r) \cup todo[r]) <= MaxConcurrent

\* The rows that count are within the limit.
CountedFits == Cardinality(Counted) <= MaxConcurrent

\* The marker of a job is as old as its execution, which is not old enough to
\* lose it.
MarkIsAge ==
  crashes = 0 =>
    \A r \in Replicas, o \in Origins, j \in Jobs :
      /\ Executing(r, o, j) => job[j].mark \in 0 .. Timeout
      /\ exec[r][o][j].at = "claimed" => job[j].mark = 0
      /\ exec[r][o][j].at = "executing" => job[j].mark = exec[r][o][j].age

\* A batch is claimed at one time.
BatchTogether ==
  crashes = 0 =>
    \A r \in Replicas, i, j \in Jobs :
      Executing(r, "timer", i) /\ Executing(r, "timer", j) => job[i].mark = job[j].mark

CronInv ==
  /\ TypeOK /\ Shape /\ BatchFits /\ CountedFits
  /\ MarkIsAge /\ BatchTogether /\ OneRunAtATime /\ MarkHasRun

-----------------------------------------------------------------------------
(* Types. *)

LEMMA LongestFact == Longest \in Nat \ {0} /\ Interval <= Longest /\ Backoff <= Longest
  BY CronAssumption DEF Longest

\* Changing one execution keeps the type, and every other execution.
LEMMA SetExecType ==
  ASSUME TypeOK, NEW r \in Replicas, NEW o \in Origins, NEW j \in Jobs, NEW e \in Execution,
         SetExec(r, o, j, e)
  PROVE  /\ exec' \in [Replicas -> [Origins -> [Jobs -> Execution]]]
         /\ exec'[r][o][j] = e
         /\ \A s \in Replicas, p \in Origins, i \in Jobs :
              <<s, p, i>> # <<r, o, j>> => exec'[s][p][i] = exec[s][p][i]
  BY DEF TypeOK, SetExec

LEMMA IdleType == /\ Idle \in Execution
                  /\ \A p \in {"asked", "claimed", "executing", "finished"} :
                       [Idle EXCEPT !.at = p] \in Execution
  BY CronAssumption DEF Idle, Execution, Results

\* Marking a row.
LEMMA MarkRow ==
  ASSUME TypeOK, NEW j \in Jobs, job' = [job EXCEPT ![j].mark = 0]
  PROVE  /\ job' \in [Jobs -> Row] /\ \A i \in Jobs \ {j} : job'[i] = job[i]
         /\ job'[j].mark = 0 /\ job'[j].deleted = job[j].deleted
         /\ job'[j].errors = job[j].errors /\ job'[j].enabled = job[j].enabled
  <1>1. job[j] \in Row /\ job \in [Jobs -> Row]
    BY DEF TypeOK
  <1>2. 0 \in None .. Stuck + 1
    BY CronAssumption DEF None
  <1>3. /\ [job[j] EXCEPT !.mark = 0] \in Row
        /\ [job[j] EXCEPT !.mark = 0].mark = 0
        /\ [job[j] EXCEPT !.mark = 0].deleted = job[j].deleted
        /\ [job[j] EXCEPT !.mark = 0].errors = job[j].errors
        /\ [job[j] EXCEPT !.mark = 0].enabled = job[j].enabled
    BY <1>1, <1>2 DEF Row
  <1>4. job' = [job EXCEPT ![j] = [job[j] EXCEPT !.mark = 0]]
    BY <1>1
  <1> QED
    BY <1>1, <1>3, <1>4

\* What job_result_values does to a row.
LEMMA ResultRow ==
  ASSUME NEW row \in Row, NEW res \in Results, NEW natural \in 1 .. Interval
  PROVE  /\ JobResultValues(row, res, natural) \in Row
         /\ JobResultValues(row, res, natural).mark = None
         /\ JobResultValues(row, res, natural).deleted = row.deleted
         /\ JobResultValues(row, res, natural).errors = Errors(row, res)
         /\ JobResultValues(row, res, natural).enabled => row.enabled /\ ~Disables(row, res)
  <1>1. Errors(row, res) \in 0 .. DisableAfter
    BY CronAssumption DEF Errors, Row, Failed
  <1>2. Larger(natural, Backoff) \in None .. Longest /\ natural \in None .. Longest
        /\ Backoff \in None .. Longest /\ None \in None .. Longest
    BY CronAssumption, LongestFact DEF Larger, None
  <1>3. None \in None .. Stuck + 1
    BY CronAssumption DEF None
  <1>4. Backoff \in 0 .. Backoff /\ 0 \in 0 .. Backoff
    BY CronAssumption
  <1> QED
    BY <1>1, <1>2, <1>3, <1>4 DEF JobResultValues, Row

\* Applying a result touches one row.
LEMMA ApplyRow ==
  ASSUME TypeOK, NEW j \in Jobs, NEW res \in Results, ApplyTo(j, res)
  PROVE  /\ job' \in [Jobs -> Row]
         /\ job'[j].mark = None
         /\ job[j].deleted => job'[j].deleted
         /\ job'[j].errors = Errors(job[j], res)
         /\ job'[j].enabled => job[j].enabled /\ ~Disables(job[j], res)
         /\ \A i \in Jobs \ {j} : job'[i] = job[i]
  <1>1. PICK natural \in 1 .. Interval, purge \in BOOLEAN :
          job' = [job EXCEPT ![j] =
                   [JobResultValues(job[j], res, natural) EXCEPT
                      !.deleted = JobResultValues(job[j], res, natural).deleted \/ purge]]
    BY DEF ApplyTo
  <1> DEFINE new == JobResultValues(job[j], res, natural)
             last == [new EXCEPT !.deleted = new.deleted \/ purge]
  <1>2. job[j] \in Row /\ job \in [Jobs -> Row]
    BY DEF TypeOK
  <1>3. /\ new \in Row /\ new.mark = None /\ new.deleted = job[j].deleted
        /\ new.errors = Errors(job[j], res)
        /\ new.enabled => job[j].enabled /\ ~Disables(job[j], res)
    BY <1>2, ResultRow
  <1>4. job' = [job EXCEPT ![j] = last]
    BY <1>1
  <1> HIDE DEF new
  <1>5. /\ last \in Row /\ last.mark = new.mark /\ last.errors = new.errors
        /\ last.enabled = new.enabled /\ (new.deleted => last.deleted)
    BY <1>3 DEF Row
  <1> HIDE DEF last
  <1>6. /\ job' \in [Jobs -> Row] /\ job'[j] = last
        /\ \A i \in Jobs \ {j} : job'[i] = job[i]
    BY <1>2, <1>4, <1>5
  <1> QED
    BY <1>3, <1>5, <1>6

\* The requests of users: no row gets or loses a marker or comes back, and
\* nothing runs.
LEMMA EditRows ==
  ASSUME TypeOK, \/ \E j \in Jobs : UpdateJob(j) \/ RemoveJob(j)
                 \/ PauseAll
                 \/ ResumeAll
  PROVE  /\ job' \in [Jobs -> Row]
         /\ \A j \in Jobs : /\ job'[j].mark = job[j].mark
                            /\ job[j].deleted => job'[j].deleted
         /\ edits' = edits + 1 /\ edits' \in 0 .. MaxEdits
         /\ UNCHANGED <<tick, todo, exec, crashes, orphans>>
  <1>1. edits < MaxEdits /\ edits' = edits + 1 /\ UNCHANGED <<tick, todo, exec, crashes, orphans>>
    BY DEF UpdateJob, RemoveJob, PauseAll, ResumeAll, erring
  <1>2. edits' \in 0 .. MaxEdits
    BY <1>1, CronAssumption DEF TypeOK
  <1>3. job \in [Jobs -> Row]
    BY DEF TypeOK
  <1>c. \A row \in Row, natural \in 1 .. Interval : ComputeNext(row, natural) \in None .. Longest
    BY CronAssumption, LongestFact DEF ComputeNext, Row, None
  <1>n. None \in None .. Longest
    BY LongestFact DEF None
  <1>4. ASSUME NEW j \in Jobs, UpdateJob(j)
        PROVE  /\ job' \in [Jobs -> Row]
               /\ \A i \in Jobs : job'[i].mark = job[i].mark /\ (job[i].deleted => job'[i].deleted)
    <2>1. PICK k \in {"at", "every"}, e \in BOOLEAN, moment \in 0 .. Interval, natural \in 1 .. Interval :
            job' = [job EXCEPT ![j] = Updated(@, k, e, moment, natural)]
      BY <1>4 DEF UpdateJob
    <2> DEFINE new == [job[j] EXCEPT !.kind = k, !.enabled = e,
                                     !.moment = IF k = "at" THEN moment ELSE 0]
               next == IF e THEN ComputeNext(new, natural) ELSE None
    <2>2. new \in Row /\ new.mark = job[j].mark /\ new.deleted = job[j].deleted
      <3>1. (IF k = "at" THEN moment ELSE 0) \in 0 .. Interval
        BY CronAssumption
      <3>2. job[j] \in Row
        BY <1>3
      <3> QED
        BY <3>1, <3>2 DEF Row
    <2>3. next \in None .. Longest
      BY <2>2, <1>c, <1>n
    <2>4. job' = [job EXCEPT ![j] = [new EXCEPT !.due = next]]
      BY <2>1, <1>3 DEF Updated
    <2> HIDE DEF new, next
    <2>5. /\ [new EXCEPT !.due = next] \in Row
          /\ [new EXCEPT !.due = next].mark = new.mark
          /\ [new EXCEPT !.due = next].deleted = new.deleted
      BY <2>2, <2>3 DEF Row
    <2> QED
      BY <2>2, <2>4, <2>5, <1>3
  <1>5. ASSUME NEW j \in Jobs, RemoveJob(j)
        PROVE  /\ job' \in [Jobs -> Row]
               /\ \A i \in Jobs : job'[i].mark = job[i].mark /\ (job[i].deleted => job'[i].deleted)
    <2> DEFINE last == [job[j] EXCEPT !.deleted = TRUE, !.enabled = FALSE]
    <2>1. job' = [job EXCEPT ![j] = last]
      BY <1>5, <1>3 DEF RemoveJob
    <2>2. job[j] \in Row
      BY <1>3
    <2>3. last \in Row /\ last.mark = job[j].mark /\ last.deleted
      BY <2>2 DEF Row
    <2> HIDE DEF last
    <2> QED
      BY <2>1, <2>3, <1>3
  <1>6. ASSUME PauseAll
        PROVE  /\ job' \in [Jobs -> Row]
               /\ \A i \in Jobs : job'[i].mark = job[i].mark /\ (job[i].deleted => job'[i].deleted)
    <2> DEFINE off(i) == [job[i] EXCEPT !.enabled = FALSE, !.due = None]
    <2>1. /\ job' = [i \in Jobs |-> IF ~job[i].deleted /\ job[i].enabled THEN off(i) ELSE job[i]]
      BY <1>6 DEF PauseAll
    <2>2. ASSUME NEW i \in Jobs
          PROVE  off(i) \in Row /\ off(i).mark = job[i].mark /\ off(i).deleted = job[i].deleted
      <3>1. job[i] \in Row
        BY <1>3
      <3> QED
        BY <3>1, <1>n DEF Row
    <2> HIDE DEF off
    <2> QED
      BY <2>1, <2>2, <1>3
  <1>7. ASSUME ResumeAll
        PROVE  /\ job' \in [Jobs -> Row]
               /\ \A i \in Jobs : job'[i].mark = job[i].mark /\ (job[i].deleted => job'[i].deleted)
    <2>1. PICK natural \in [Jobs -> 1 .. Interval] :
            job' = [j \in Jobs |-> Resumed(j, natural[j])]
      BY <1>7 DEF ResumeAll
    <2>2. ASSUME NEW i \in Jobs
          PROVE  /\ Resumed(i, natural[i]) \in Row
                 /\ Resumed(i, natural[i]).mark = job[i].mark
                 /\ Resumed(i, natural[i]).deleted = job[i].deleted
      <3>1. natural[i] \in 1 .. Interval /\ job[i] \in Row
        BY <1>3
      <3>2. ComputeNext(job[i], natural[i]) \in None .. Longest
        BY <3>1, <1>c
      <3> QED
        BY <3>1, <3>2 DEF Resumed, Row
    <2> QED
      BY <2>1, <2>2
  <1> QED
    BY <1>1, <1>2, <1>4, <1>5, <1>6, <1>7

\* A startup takes every marker away.
LEMMA StartupRows ==
  ASSUME TypeOK, NEW r \in Replicas, Startup(r)
  PROVE  /\ job' \in [Jobs -> Row]
         /\ \A j \in Jobs : /\ job'[j].mark = None
                            /\ job'[j].deleted = job[j].deleted
                            /\ job'[j].errors = job[j].errors
                            /\ job'[j].enabled => job[j].enabled
  <1>1. PICK stale \in [Jobs -> BOOLEAN], natural \in [Jobs -> 1 .. Interval] :
          job' = [j \in Jobs |-> Recovered(j, stale[j], natural[j])]
    BY DEF Startup
  <1>2. ASSUME NEW j \in Jobs
        PROVE  /\ Recovered(j, stale[j], natural[j]) \in Row
               /\ Recovered(j, stale[j], natural[j]).mark = None
               /\ Recovered(j, stale[j], natural[j]).deleted = job[j].deleted
               /\ Recovered(j, stale[j], natural[j]).errors = job[j].errors
               /\ Recovered(j, stale[j], natural[j]).enabled => job[j].enabled
    <2> DEFINE row == [job[j] EXCEPT !.mark = None]
               next == ComputeNext(row, natural[j])
    <2>1. natural[j] \in 1 .. Interval /\ job[j] \in Row /\ stale[j] \in BOOLEAN
      BY DEF TypeOK
    <2>2. /\ row \in Row /\ row.mark = None /\ row.deleted = job[j].deleted
          /\ row.errors = job[j].errors /\ row.enabled = job[j].enabled
      BY <2>1, CronAssumption DEF Row, None
    <2>3. next \in None .. Longest
      BY <2>1, <2>2, CronAssumption, LongestFact DEF ComputeNext, Row, None
    <2>4. Recovered(j, stale[j], natural[j]) =
            IF row.deleted \/ ~row.enabled THEN row
            ELSE IF row.due # 0 THEN [row EXCEPT !.due = next]
            ELSE IF stale[j] /\ Unmarked(j) THEN [row EXCEPT !.due = next, !.enabled = next # None]
            ELSE row
      BY DEF Recovered
    <2> HIDE DEF row, next
    <2>5. /\ [row EXCEPT !.due = next] \in Row
          /\ [row EXCEPT !.due = next].mark = row.mark
          /\ [row EXCEPT !.due = next].deleted = row.deleted
          /\ [row EXCEPT !.due = next].errors = row.errors
          /\ [row EXCEPT !.due = next].enabled = row.enabled
      BY <2>2, <2>3 DEF Row
    <2>6. \A e \in BOOLEAN :
            /\ [row EXCEPT !.due = next, !.enabled = e] \in Row
            /\ [row EXCEPT !.due = next, !.enabled = e].mark = row.mark
            /\ [row EXCEPT !.due = next, !.enabled = e].deleted = row.deleted
            /\ [row EXCEPT !.due = next, !.enabled = e].errors = row.errors
      BY <2>2, <2>3 DEF Row
    <2>7. (next # None) \in BOOLEAN
      OBVIOUS
    <2>8. CASE row.deleted \/ ~row.enabled
      BY <2>2, <2>4, <2>8
    <2>9. CASE ~(row.deleted \/ ~row.enabled) /\ row.due # 0
      BY <2>2, <2>4, <2>5, <2>9
    <2>10. CASE ~(row.deleted \/ ~row.enabled) /\ row.due = 0 /\ stale[j] /\ Unmarked(j)
      <3>1. Recovered(j, stale[j], natural[j]) = [row EXCEPT !.due = next, !.enabled = next # None]
        BY <2>4, <2>10
      <3>2. job[j].enabled
        BY <2>2, <2>10
      <3> QED
        BY <2>2, <2>6, <2>7, <3>1, <3>2
    <2>11. CASE ~(row.deleted \/ ~row.enabled) /\ row.due = 0 /\ ~(stale[j] /\ Unmarked(j))
      BY <2>2, <2>4, <2>11
    <2> QED
      BY <2>8, <2>9, <2>10, <2>11
  <1> QED
    BY <1>1, <1>2

\* The clock.
LEMMA TickRows ==
  ASSUME TypeOK, Tick
  PROVE  /\ job' \in [Jobs -> Row]
         /\ exec' \in [Replicas -> [Origins -> [Jobs -> Execution]]]
         /\ \A j \in Jobs :
              /\ job'[j].mark = IF job[j].mark = None \/ job[j].mark > Stuck
                                  THEN job[j].mark ELSE job[j].mark + 1
              /\ job'[j].deleted = job[j].deleted
              /\ job'[j].errors = job[j].errors
              /\ job'[j].enabled = job[j].enabled
         /\ \A r \in Replicas, o \in Origins, j \in Jobs :
              /\ exec'[r][o][j].at = exec[r][o][j].at
              /\ exec[r][o][j].at = "executing" =>
                   exec[r][o][j].age < Timeout /\ exec'[r][o][j].age = exec[r][o][j].age + 1
  <1>1. ASSUME NEW j \in Jobs
        PROVE  /\ [job[j] EXCEPT !.mark = IF @ = None \/ @ > Stuck THEN @ ELSE @ + 1,
                                 !.due = Less(@), !.moment = Less(@), !.backoff = Less(@)] \in Row
               /\ job'[j] = [job[j] EXCEPT !.mark = IF @ = None \/ @ > Stuck THEN @ ELSE @ + 1,
                                 !.due = Less(@), !.moment = Less(@), !.backoff = Less(@)]
    <2>1. job[j] \in Row
      BY DEF TypeOK
    <2>2. /\ job[j].mark \in None .. Stuck + 1 /\ job[j].due \in None .. Longest
          /\ job[j].moment \in 0 .. Interval /\ job[j].backoff \in 0 .. Backoff
      BY <2>1 DEF Row
    <2>3. /\ (IF job[j].mark = None \/ job[j].mark > Stuck THEN job[j].mark ELSE job[j].mark + 1) \in None .. Stuck + 1
          /\ Less(job[j].due) \in None .. Longest
          /\ Less(job[j].moment) \in 0 .. Interval /\ Less(job[j].backoff) \in 0 .. Backoff
      BY <2>2, CronAssumption, LongestFact DEF Less, None
    <2> QED
      BY <2>1, <2>3 DEF Tick, Row
  <1>2. job' \in [Jobs -> Row]
    BY <1>1 DEF Tick
  <1>3. ASSUME NEW r \in Replicas, NEW o \in Origins, NEW j \in Jobs
        PROVE  /\ exec'[r][o][j] \in Execution
               /\ exec'[r][o][j].at = exec[r][o][j].at
               /\ exec[r][o][j].at = "executing" =>
                    exec[r][o][j].age < Timeout /\ exec'[r][o][j].age = exec[r][o][j].age + 1
    <2>1. exec[r][o][j] \in Execution
      BY DEF TypeOK
    <2>2. exec'[r][o][j] = IF exec[r][o][j].at = "executing"
                             THEN [exec[r][o][j] EXCEPT !.age = @ + 1] ELSE exec[r][o][j]
      BY DEF Tick
    <2>3. exec[r][o][j].at = "executing" => exec[r][o][j].age < Timeout
      BY DEF Tick
    <2> QED
      BY <2>1, <2>2, <2>3, CronAssumption DEF Execution
  <1>4. exec' \in [Replicas -> [Origins -> [Jobs -> Execution]]]
    BY <1>3 DEF Tick
  <1>5. ASSUME NEW j \in Jobs
        PROVE /\ job'[j].mark = IF job[j].mark = None \/ job[j].mark > Stuck
                                  THEN job[j].mark ELSE job[j].mark + 1
              /\ job'[j].deleted = job[j].deleted
              /\ job'[j].errors = job[j].errors
              /\ job'[j].enabled = job[j].enabled
    <2>1. job[j] \in Row
      BY DEF TypeOK
    <2>2. DOMAIN job[j] = {"kind", "enabled", "deleted", "moment", "mark", "due", "errors", "backoff"}
      BY <2>1 DEF Row
    <2>3. job'[j] = [job[j] EXCEPT !.mark = IF @ = None \/ @ > Stuck THEN @ ELSE @ + 1,
                                   !.due = Less(@), !.moment = Less(@), !.backoff = Less(@)]
      BY <1>1
    <2> QED
      BY <2>2, <2>3, SMT
  <1> QED
    BY <1>2, <1>3, <1>4, <1>5

-----------------------------------------------------------------------------
(* What a step may do to rows and executions. *)

Others(r, o, j) ==
  \A s \in Replicas, p \in Origins, i \in Jobs :
    <<s, p, i>> # <<r, o, j>> => exec'[s][p][i] = exec[s][p][i]

OtherRows(j) == \A i \in Jobs \ {j} : job'[i] = job[i]

\* A claim is won.
ClaimStep(r, o, j) ==
  /\ ~job[j].deleted /\ HasCapacity /\ Claimable(j)
  /\ job'[j].mark = 0 /\ OtherRows(j)
  /\ job'[j].deleted = job[j].deleted
  /\ job'[j].errors = job[j].errors /\ job'[j].enabled = job[j].enabled
  /\ exec'[r][o][j].at = IF o = "timer" THEN "claimed" ELSE "executing"
  /\ exec'[r][o][j].age = 0
  /\ o = "timer" => tick[r] = "claiming" /\ j \in todo[r] /\ job[j].enabled
  /\ Others(r, o, j) /\ UNCHANGED <<tick, crashes>>
  /\ \A s \in Replicas : todo'[s] \subseteq todo[s]
  /\ orphans' = orphans \ {j}

\* A result is applied.
EndStep(r, o, j) ==
  /\ exec[r][o][j].at = "finished" /\ exec'[r][o][j].at = "none"
  /\ job'[j].mark = None /\ (job[j].deleted => job'[j].deleted) /\ OtherRows(j)
  /\ \E res \in Results : /\ job'[j].errors = Errors(job[j], res)
                          /\ job'[j].enabled => job[j].enabled /\ ~Disables(job[j], res)
  /\ Others(r, o, j) /\ UNCHANGED <<todo, crashes, orphans>>
  /\ \A s \in Replicas :
       \/ tick'[s] = tick[s]
       \/ /\ s = r /\ o = "timer" /\ tick[s] = "pool" /\ tick'[s] = "idle"
          /\ Batch(r) = {j}

\* An execution goes on.
MoveStep(r, o, j) ==
  /\ \/ {exec[r][o][j].at, exec'[r][o][j].at} = {"none", "asked"} /\ o = "manual"
     \/ /\ exec[r][o][j].at = "claimed" /\ o = "timer" /\ tick[r] = "pool"
        /\ exec'[r][o][j].at = "executing" /\ exec'[r][o][j].age = 0
     \/ exec[r][o][j].at = "executing" /\ exec'[r][o][j].at = "finished"
  /\ Others(r, o, j) /\ UNCHANGED <<job, tick, todo, crashes, orphans>>

\* A user changes rows, or a tick plans its work.
EditStep ==
  /\ \A j \in Jobs : job'[j].mark = job[j].mark /\ (job[j].deleted => job'[j].deleted)
  /\ edits' = edits => job' = job
  /\ UNCHANGED <<exec, crashes, orphans>>
  /\ \A s \in Replicas :
       \/ tick'[s] = tick[s]
       \/ tick[s] = "idle" /\ tick'[s] = "claiming"
       \/ tick[s] = "claiming" /\ tick'[s] = "pool"
       \/ tick[s] = "claiming" /\ tick'[s] = "idle" /\ Batch(s) = {}
  /\ \A s \in Replicas :
       \/ todo'[s] \subseteq todo[s]
       \/ tick[s] = "idle" /\ Cardinality(todo'[s]) <= MaxConcurrent

\* The database fails under a claim of j or a result: executions are forgotten,
\* and the markers they leave are noted.
RaiseStep(j) ==
  /\ \/ job' = job
     \/ /\ ~job[j].deleted /\ HasCapacity /\ Claimable(j)
        /\ job'[j].mark = 0 /\ OtherRows(j) /\ j \in orphans'
        /\ job'[j].deleted = job[j].deleted
        /\ job'[j].errors = job[j].errors /\ job'[j].enabled = job[j].enabled
  /\ \A s \in Replicas, p \in Origins, i \in Jobs :
       \/ exec'[s][p][i] = exec[s][p][i]
       \/ exec'[s][p][i].at = "none" /\ (Executing(s, p, i) => i \in orphans')
  /\ \A s \in Replicas :
       \/ tick'[s] = tick[s]
       \/ /\ tick[s] # "down" /\ tick'[s] = "idle"
          /\ \A i \in Jobs : exec'[s]["timer"][i].at = "none"
  /\ \A s \in Replicas : todo'[s] \subseteq todo[s]
  /\ orphans \subseteq orphans' /\ crashes' = crashes

Kinds ==
  \/ \E j \in Jobs : RaiseStep(j)
  \/ \E r \in Replicas, o \in Origins, j \in Jobs :
       ClaimStep(r, o, j) \/ EndStep(r, o, j) \/ MoveStep(r, o, j)
  \/ EditStep
  \/ \E r \in Replicas : Crash(r) \/ Startup(r)
  \/ Tick

LostRow(j) ==
  \/ job' = job
  \/ /\ ~job[j].deleted /\ HasCapacity /\ Claimable(j)
     /\ job'[j].mark = 0 /\ OtherRows(j) /\ j \in orphans'
     /\ job'[j].deleted = job[j].deleted
     /\ job'[j].errors = job[j].errors /\ job'[j].enabled = job[j].enabled

LEMMA LostRowFact ==
  ASSUME TypeOK, NEW j \in Jobs, NEW manual, NEW lost, MarkLost(j, manual, lost)
  PROVE  job' \in [Jobs -> Row] /\ LostRow(j)
  <1>1. CASE job' = job
    BY <1>1 DEF LostRow, TypeOK
  <1>2. CASE Claims(j, manual) /\ job' = [job EXCEPT ![j].mark = 0] /\ orphans' = orphans \cup lost \cup {j}
    <2>1. /\ job' \in [Jobs -> Row] /\ OtherRows(j)
          /\ job'[j].mark = 0 /\ job'[j].deleted = job[j].deleted
          /\ job'[j].errors = job[j].errors /\ job'[j].enabled = job[j].enabled
      BY <1>2, MarkRow DEF OtherRows
    <2> QED
      BY <1>2, <2>1 DEF LostRow, Claims
  <1> QED
    BY <1>1, <1>2 DEF MarkLost

\* Every step keeps the types and is of one of these kinds.
CoreType ==
  /\ job \in [Jobs -> Row]
  /\ tick \in [Replicas -> {"idle", "claiming", "pool", "down"}]
  /\ todo \in [Replicas -> SUBSET Jobs]
  /\ exec \in [Replicas -> [Origins -> [Jobs -> Execution]]]
  /\ edits \in 0 .. MaxEdits
  /\ crashes \in 0 .. MaxCrashes

LEMMA CoreStep ==
  ASSUME TypeOK, [Next]_vars
  PROVE  CoreType' /\ Kinds
  <1> USE DEF TypeOK, CoreType, erring
  <1>o. "timer" \in Origins /\ "manual" \in Origins
    BY DEF Origins
  <1>1. CASE UNCHANGED vars
    BY <1>1 DEF vars, Kinds, EditStep
  <1>2. ASSUME NEW r \in Replicas, Collect(r)
        PROVE  CoreType' /\ EditStep
    <2>1. PICK S \in SUBSET Due : /\ todo' = [todo EXCEPT ![r] = S]
                                  /\ Cardinality(S) + Running <= MaxConcurrent
      BY <1>2 DEF Collect
    <2>2. S \subseteq Jobs /\ {j \in Jobs : ~Claimable(j)} \subseteq Jobs
      BY DEF Due
    <2>3. Cardinality(S) \in Nat /\ Running \in Nat
      BY <2>2, CronAssumption, FS_Subset, FS_CardinalityType DEF Running
    <2>4. Cardinality(S) <= MaxConcurrent
      BY <2>1, <2>3, CronAssumption
    <2>5. /\ tick[r] = "idle" /\ tick' = [tick EXCEPT ![r] = "claiming"]
          /\ UNCHANGED <<job, exec, edits, crashes, orphans>>
      BY <1>2 DEF Collect
    <2>6. \A s \in Replicas :
            \/ todo'[s] \subseteq todo[s]
            \/ tick[s] = "idle" /\ Cardinality(todo'[s]) <= MaxConcurrent
      <3>1. todo'[r] = S /\ \A s \in Replicas \ {r} : todo'[s] = todo[s]
        BY <2>1
      <3>2. Cardinality(todo'[r]) <= MaxConcurrent
        BY <2>4, <3>1
      <3>3. tick[r] = "idle"
        BY <2>5
      <3>4. ASSUME NEW s \in Replicas, s # r
            PROVE  todo'[s] \subseteq todo[s]
        BY <3>1, <3>4
      <3> QED
        BY <3>2, <3>3, <3>4
    <2> QED
      BY <2>1, <2>2, <2>5, <2>6 DEF EditStep
  <1>3. ASSUME NEW r \in Replicas, BeginPool(r)
        PROVE  CoreType' /\ EditStep
    <2>1. /\ tick[r] = "claiming"
          /\ tick' = [tick EXCEPT ![r] = IF Batch(r) = {} THEN "idle" ELSE "pool"]
          /\ UNCHANGED <<job, todo, exec, edits, crashes, orphans>>
      BY <1>3 DEF BeginPool
    <2>2. \A s \in Replicas :
            \/ tick'[s] = tick[s]
            \/ tick[s] = "claiming" /\ tick'[s] = "pool"
            \/ tick[s] = "claiming" /\ tick'[s] = "idle" /\ Batch(s) = {}
      BY <2>1
    <2>3. tick' \in [Replicas -> {"idle", "claiming", "pool", "down"}]
      BY <2>1
    <2> QED
      BY <2>1, <2>2, <2>3 DEF EditStep
  <1>4. ASSUME NEW r \in Replicas, NEW j \in Jobs, ClaimJob(r, j)
        PROVE  CoreType' /\ Kinds
    <2>1. /\ todo' \in [Replicas -> SUBSET Jobs] /\ \A s \in Replicas : todo'[s] \subseteq todo[s]
          /\ UNCHANGED <<tick, edits, crashes>> /\ tick[r] = "claiming" /\ j \in todo[r]
      BY <1>4 DEF ClaimJob
    <2>2. CASE Claims(j, FALSE)
      <3>1. /\ job' = [job EXCEPT ![j].mark = 0] /\ SetExec(r, "timer", j, [Idle EXCEPT !.at = "claimed"])
            /\ orphans' = orphans \ {j}
        BY <1>4, <2>2 DEF ClaimJob
      <3>2. /\ exec' \in [Replicas -> [Origins -> [Jobs -> Execution]]]
            /\ exec'[r]["timer"][j] = [Idle EXCEPT !.at = "claimed"]
            /\ Others(r, "timer", j)
        BY <3>1, <1>o, IdleType, SetExecType DEF Others
      <3>3. exec'[r]["timer"][j].at = "claimed" /\ exec'[r]["timer"][j].age = 0
        BY <3>2 DEF Idle
      <3>4. /\ job' \in [Jobs -> Row] /\ OtherRows(j)
            /\ job'[j].mark = 0 /\ job'[j].deleted = job[j].deleted
            /\ job'[j].errors = job[j].errors /\ job'[j].enabled = job[j].enabled
        BY <3>1, MarkRow DEF OtherRows
      <3>5. ClaimStep(r, "timer", j)
        BY <2>1, <2>2, <3>1, <3>2, <3>3, <3>4 DEF ClaimStep, Claims
      <3> QED
        BY <2>1, <3>2, <3>4, <3>5, <1>o DEF Kinds
    <2>3. CASE ~Claims(j, FALSE)
      BY <1>4, <2>1, <2>3 DEF ClaimJob, Kinds, EditStep
    <2> QED
      BY <2>2, <2>3
  <1>5. ASSUME NEW r \in Replicas, NEW j \in Jobs, StartJob(r, j)
        PROVE  CoreType' /\ MoveStep(r, "timer", j)
    <2>1. /\ exec' \in [Replicas -> [Origins -> [Jobs -> Execution]]]
          /\ exec'[r]["timer"][j] = [Idle EXCEPT !.at = "executing"]
          /\ Others(r, "timer", j)
      BY <1>5, <1>o, IdleType, SetExecType DEF Others, StartJob
    <2>2. exec'[r]["timer"][j].at = "executing" /\ exec'[r]["timer"][j].age = 0
      BY <2>1 DEF Idle
    <2> QED
      BY <1>5, <2>1, <2>2 DEF MoveStep, StartJob
  <1>6. ASSUME NEW r \in Replicas, NEW j \in Jobs, RunManual(r, j)
        PROVE  CoreType' /\ MoveStep(r, "manual", j)
    <2>1. /\ exec' \in [Replicas -> [Origins -> [Jobs -> Execution]]]
          /\ exec'[r]["manual"][j] = [Idle EXCEPT !.at = "asked"]
          /\ Others(r, "manual", j)
      BY <1>6, <1>o, IdleType, SetExecType DEF Others, RunManual
    <2>2. exec'[r]["manual"][j].at = "asked" /\ exec[r]["manual"][j].at = "none"
      BY <1>6, <2>1 DEF Idle, RunManual
    <2>3. edits' \in 0 .. MaxEdits
      BY <1>6, CronAssumption DEF RunManual
    <2> QED
      BY <1>6, <2>1, <2>2, <2>3 DEF MoveStep, RunManual
  <1>7. ASSUME NEW r \in Replicas, NEW j \in Jobs, ClaimManual(r, j)
        PROVE  CoreType' /\ Kinds
    <2>1. UNCHANGED <<tick, todo, edits, crashes>> /\ exec[r]["manual"][j].at = "asked"
      BY <1>7 DEF ClaimManual
    <2>2. CASE Claims(j, TRUE)
      <3>1. /\ job' = [job EXCEPT ![j].mark = 0] /\ SetExec(r, "manual", j, [Idle EXCEPT !.at = "executing"])
            /\ orphans' = orphans \ {j}
        BY <1>7, <2>2 DEF ClaimManual
      <3>2. /\ exec' \in [Replicas -> [Origins -> [Jobs -> Execution]]]
            /\ exec'[r]["manual"][j] = [Idle EXCEPT !.at = "executing"]
            /\ Others(r, "manual", j)
        BY <3>1, <1>o, IdleType, SetExecType DEF Others
      <3>3. exec'[r]["manual"][j].at = "executing" /\ exec'[r]["manual"][j].age = 0
        BY <3>2 DEF Idle
      <3>4. /\ job' \in [Jobs -> Row] /\ OtherRows(j)
            /\ job'[j].mark = 0 /\ job'[j].deleted = job[j].deleted
            /\ job'[j].errors = job[j].errors /\ job'[j].enabled = job[j].enabled
        BY <3>1, MarkRow DEF OtherRows
      <3>5. ClaimStep(r, "manual", j)
        BY <2>1, <2>2, <3>1, <3>2, <3>3, <3>4 DEF ClaimStep, Claims
      <3> QED
        BY <2>1, <3>2, <3>4, <3>5, <1>o DEF Kinds
    <2>3. CASE ~Claims(j, TRUE)
      <3>1. job' = job /\ orphans' = orphans /\ SetExec(r, "manual", j, Idle)
        BY <1>7, <2>3 DEF ClaimManual
      <3>2. /\ exec' \in [Replicas -> [Origins -> [Jobs -> Execution]]]
            /\ exec'[r]["manual"][j] = Idle
            /\ Others(r, "manual", j)
        BY <3>1, <1>o, IdleType, SetExecType DEF Others
      <3>3. exec'[r]["manual"][j].at = "none"
        BY <3>2 DEF Idle
      <3>4. MoveStep(r, "manual", j)
        BY <2>1, <3>1, <3>2, <3>3 DEF MoveStep
      <3> QED
        BY <2>1, <3>1, <3>2, <3>4, <1>o DEF Kinds
    <2> QED
      BY <2>2, <2>3
  <1>8. ASSUME NEW r \in Replicas, NEW o \in Origins, NEW j \in Jobs, Finish(r, o, j)
        PROVE  CoreType' /\ MoveStep(r, o, j)
    <2>1. PICK res \in Results :
            SetExec(r, o, j, [exec[r][o][j] EXCEPT !.at = "finished", !.result = res])
      BY <1>8 DEF Finish
    <2>2. [exec[r][o][j] EXCEPT !.at = "finished", !.result = res] \in Execution
      <3>1. exec[r][o][j] \in Execution
        OBVIOUS
      <3> QED
        BY <3>1 DEF Execution
    <2>3. /\ exec' \in [Replicas -> [Origins -> [Jobs -> Execution]]]
          /\ exec'[r][o][j] = [exec[r][o][j] EXCEPT !.at = "finished", !.result = res]
          /\ Others(r, o, j)
      BY <2>1, <2>2, SetExecType DEF Others
    <2>4. exec'[r][o][j].at = "finished"
      BY <2>3 DEF Execution
    <2> QED
      BY <1>8, <2>3, <2>4 DEF MoveStep, Finish
  <1>9. ASSUME NEW r \in Replicas, NEW j \in Jobs, ApplyResult(r, j)
        PROVE  CoreType' /\ EndStep(r, "timer", j)
    <2>1. exec[r]["timer"][j].result \in Results
      BY <1>o DEF Execution
    <2>2. /\ job' \in [Jobs -> Row] /\ job'[j].mark = None
          /\ job[j].deleted => job'[j].deleted
          /\ OtherRows(j)
          /\ \E res \in Results : /\ job'[j].errors = Errors(job[j], res)
                                  /\ job'[j].enabled => job[j].enabled /\ ~Disables(job[j], res)
      BY <1>9, <2>1, ApplyRow DEF ApplyResult, OtherRows
    <2>3. /\ exec' \in [Replicas -> [Origins -> [Jobs -> Execution]]]
          /\ exec'[r]["timer"][j] = Idle /\ Others(r, "timer", j)
      BY <1>9, <1>o, IdleType, SetExecType DEF Others, ApplyResult
    <2>4. /\ tick[r] = "pool" /\ exec[r]["timer"][j].at = "finished"
          /\ tick' = [tick EXCEPT ![r] = IF Batch(r) = {j} THEN "idle" ELSE @]
          /\ UNCHANGED <<todo, edits, crashes, orphans>>
      BY <1>9 DEF ApplyResult
    <2>5. /\ tick' \in [Replicas -> {"idle", "claiming", "pool", "down"}]
          /\ \A s \in Replicas :
               \/ tick'[s] = tick[s]
               \/ s = r /\ tick[s] = "pool" /\ tick'[s] = "idle" /\ Batch(r) = {j}
      BY <2>4
    <2> QED
      BY <2>2, <2>3, <2>4, <2>5 DEF EndStep, Idle
  <1>10. ASSUME NEW r \in Replicas, NEW j \in Jobs, ApplyManual(r, j)
         PROVE  CoreType' /\ EndStep(r, "manual", j)
    <2>1. exec[r]["manual"][j].result \in Results
      BY <1>o DEF Execution
    <2>2. /\ job' \in [Jobs -> Row] /\ job'[j].mark = None
          /\ job[j].deleted => job'[j].deleted
          /\ OtherRows(j)
          /\ \E res \in Results : /\ job'[j].errors = Errors(job[j], res)
                                  /\ job'[j].enabled => job[j].enabled /\ ~Disables(job[j], res)
      BY <1>10, <2>1, ApplyRow DEF ApplyManual, OtherRows
    <2>3. /\ exec' \in [Replicas -> [Origins -> [Jobs -> Execution]]]
          /\ exec'[r]["manual"][j] = Idle /\ Others(r, "manual", j)
      BY <1>10, <1>o, IdleType, SetExecType DEF Others, ApplyManual
    <2>4. exec'[r]["manual"][j].at = "none" /\ exec[r]["manual"][j].at = "finished"
      BY <1>10, <2>3 DEF Idle, ApplyManual
    <2> QED
      BY <1>10, <2>2, <2>3, <2>4 DEF EndStep, ApplyManual
  <1>11. ASSUME \/ \E j \in Jobs : UpdateJob(j) \/ RemoveJob(j)
                \/ PauseAll
                \/ ResumeAll
         PROVE  CoreType' /\ EditStep
    <2>1. edits \in Nat
      BY CronAssumption
    <2>2. /\ job' \in [Jobs -> Row]
          /\ \A j \in Jobs : job'[j].mark = job[j].mark /\ (job[j].deleted => job'[j].deleted)
      BY <1>11, EditRows
    <2>3. /\ edits' = edits + 1 /\ edits' \in 0 .. MaxEdits
          /\ UNCHANGED <<tick, todo, exec, crashes, orphans>>
      BY <1>11, EditRows
    <2> QED
      BY <2>1, <2>2, <2>3 DEF EditStep
  <1>12. ASSUME NEW r \in Replicas, Crash(r)
         PROVE  CoreType'
    BY <1>12, IdleType, CronAssumption DEF Crash
  <1>13. ASSUME NEW r \in Replicas, Startup(r)
         PROVE  CoreType'
    BY <1>13, StartupRows, Zenon DEF Startup
  <1>14. ASSUME Tick
         PROVE  CoreType'
    BY <1>14, TickRows, Zenon DEF Tick
  <1>15. ASSUME NEW r \in Replicas, NEW j \in Jobs, ClaimRaises(r, j)
         PROVE  CoreType' /\ RaiseStep(j)
    <2>1. /\ exec' = [exec EXCEPT ![r]["timer"] = [i \in Jobs |-> Idle]]
          /\ tick' = [tick EXCEPT ![r] = "idle"] /\ todo' = [todo EXCEPT ![r] = {}]
          /\ tick[r] = "claiming" /\ UNCHANGED <<edits, crashes>>
          /\ MarkLost(j, FALSE, Batch(r))
      BY <1>15 DEF ClaimRaises
    <2>2. /\ exec' \in [Replicas -> [Origins -> [Jobs -> Execution]]]
          /\ \A i \in Jobs : exec'[r]["timer"][i] = Idle
          /\ \A s \in Replicas, p \in Origins, i \in Jobs :
               <<s, p>> # <<r, "timer">> => exec'[s][p][i] = exec[s][p][i]
      BY <2>1, <1>o, IdleType
    <2>3. orphans \cup Batch(r) \subseteq orphans'
      BY <2>1 DEF MarkLost
    <2>4. job' \in [Jobs -> Row] /\ LostRow(j)
      BY <2>1, LostRowFact
    <2>5. ASSUME NEW s \in Replicas, NEW p \in Origins, NEW i \in Jobs
          PROVE  \/ exec'[s][p][i] = exec[s][p][i]
                 \/ exec'[s][p][i].at = "none" /\ (Executing(s, p, i) => i \in orphans')
      <3>1. CASE s = r /\ p = "timer"
        <4>1. exec'[s][p][i].at = "none"
          BY <2>2, <3>1 DEF Idle
        <4>2. Executing(s, p, i) => i \in Batch(r)
          BY <3>1 DEF Executing, Batch
        <4> QED
          BY <4>1, <4>2, <2>3
      <3> QED
        BY <2>2, <3>1
    <2>6. \A s \in Replicas :
            \/ tick'[s] = tick[s]
            \/ /\ tick[s] # "down" /\ tick'[s] = "idle"
               /\ \A i \in Jobs : exec'[s]["timer"][i].at = "none"
      BY <2>1, <2>2 DEF Idle
    <2>7. tick' \in [Replicas -> {"idle", "claiming", "pool", "down"}]
      BY <2>1
    <2>8. todo' \in [Replicas -> SUBSET Jobs] /\ \A s \in Replicas : todo'[s] \subseteq todo[s]
      BY <2>1
    <2>9. RaiseStep(j)
      BY <2>1, <2>3, <2>4, <2>5, <2>6, <2>8, Zenon DEF RaiseStep, LostRow
    <2> QED
      BY <2>1, <2>2, <2>4, <2>7, <2>8, <2>9
  <1>16. ASSUME NEW r \in Replicas, NEW j \in Jobs, ClaimManualRaises(r, j)
         PROVE  CoreType' /\ Kinds
    <2>1. /\ SetExec(r, "manual", j, Idle) /\ exec[r]["manual"][j].at = "asked"
          /\ MarkLost(j, TRUE, {}) /\ UNCHANGED <<tick, todo, edits, crashes>>
      BY <1>16 DEF ClaimManualRaises
    <2>2. /\ exec' \in [Replicas -> [Origins -> [Jobs -> Execution]]]
          /\ exec'[r]["manual"][j] = Idle /\ Others(r, "manual", j)
      BY <2>1, <1>o, IdleType, SetExecType DEF Others
    <2>3. orphans \subseteq orphans'
      BY <2>1 DEF MarkLost
    <2>4. job' \in [Jobs -> Row] /\ LostRow(j)
      BY <2>1, LostRowFact
    <2>5. ASSUME NEW s \in Replicas, NEW p \in Origins, NEW i \in Jobs
          PROVE  \/ exec'[s][p][i] = exec[s][p][i]
                 \/ exec'[s][p][i].at = "none" /\ (Executing(s, p, i) => i \in orphans')
      <3>1. CASE s = r /\ p = "manual" /\ i = j
        BY <2>1, <2>2, <3>1 DEF Idle, Executing
      <3> QED
        BY <2>2, <3>1 DEF Others
    <2>6. RaiseStep(j)
      BY <2>1, <2>3, <2>4, <2>5, Zenon DEF RaiseStep, LostRow
    <2> QED
      BY <2>1, <2>2, <2>4, <2>6 DEF Kinds
  <1>17. ASSUME NEW r \in Replicas, NEW j \in Jobs, ApplyRaises(r, j)
         PROVE  CoreType' /\ RaiseStep(j)
    <2>1. /\ SetExec(r, "timer", j, Idle) /\ tick[r] = "pool"
          /\ tick' = [tick EXCEPT ![r] = IF Batch(r) = {j} THEN "idle" ELSE @]
          /\ orphans' = orphans \cup {j} /\ UNCHANGED <<job, todo, edits, crashes>>
      BY <1>17 DEF ApplyRaises
    <2>2. /\ exec' \in [Replicas -> [Origins -> [Jobs -> Execution]]]
          /\ exec'[r]["timer"][j] = Idle /\ Others(r, "timer", j)
      BY <2>1, <1>o, IdleType, SetExecType DEF Others
    <2>3. ASSUME NEW s \in Replicas, NEW p \in Origins, NEW i \in Jobs
          PROVE  \/ exec'[s][p][i] = exec[s][p][i]
                 \/ exec'[s][p][i].at = "none" /\ (Executing(s, p, i) => i \in orphans')
      <3>1. CASE s = r /\ p = "timer" /\ i = j
        BY <2>1, <2>2, <3>1 DEF Idle
      <3> QED
        BY <2>2, <3>1 DEF Others
    <2>4. Batch(r) = {j} => \A i \in Jobs : exec'[r]["timer"][i].at = "none"
      <3>1. ASSUME Batch(r) = {j}, NEW i \in Jobs
            PROVE  exec'[r]["timer"][i].at = "none"
        <4>1. CASE i = j
          BY <2>2, <4>1 DEF Idle
        <4>2. CASE i # j
          <5>1. i \notin Batch(r)
            BY <3>1, <4>2
          <5>2. exec[r]["timer"][i].at = "none"
            BY <5>1 DEF Batch
          <5> QED
            BY <1>o, <2>2, <4>2, <5>2 DEF Others
        <4> QED
          BY <4>1, <4>2
      <3> QED
        BY <3>1
    <2>5. /\ tick' \in [Replicas -> {"idle", "claiming", "pool", "down"}]
          /\ \A s \in Replicas :
               \/ tick'[s] = tick[s]
               \/ s = r /\ tick'[s] = "idle" /\ Batch(r) = {j}
      BY <2>1
    <2>6. \A s \in Replicas :
            \/ tick'[s] = tick[s]
            \/ /\ tick[s] # "down" /\ tick'[s] = "idle"
               /\ \A i \in Jobs : exec'[s]["timer"][i].at = "none"
      BY <2>1, <2>4, <2>5
    <2>7. RaiseStep(j)
      BY <2>1, <2>3, <2>6 DEF RaiseStep
    <2> QED
      BY <2>1, <2>2, <2>5, <2>7
  <1>18. ASSUME NEW r \in Replicas, NEW j \in Jobs, ApplyManualRaises(r, j)
         PROVE  CoreType' /\ RaiseStep(j)
    <2>1. /\ SetExec(r, "manual", j, Idle)
          /\ orphans' = orphans \cup {j} /\ UNCHANGED <<job, tick, todo, edits, crashes>>
      BY <1>18 DEF ApplyManualRaises
    <2>2. /\ exec' \in [Replicas -> [Origins -> [Jobs -> Execution]]]
          /\ exec'[r]["manual"][j] = Idle /\ Others(r, "manual", j)
      BY <2>1, <1>o, IdleType, SetExecType DEF Others
    <2>3. ASSUME NEW s \in Replicas, NEW p \in Origins, NEW i \in Jobs
          PROVE  \/ exec'[s][p][i] = exec[s][p][i]
                 \/ exec'[s][p][i].at = "none" /\ (Executing(s, p, i) => i \in orphans')
      <3>1. CASE s = r /\ p = "manual" /\ i = j
        BY <2>1, <2>2, <3>1 DEF Idle
      <3> QED
        BY <2>2, <3>1 DEF Others
    <2>4. RaiseStep(j)
      BY <2>1, <2>3 DEF RaiseStep
    <2> QED
      BY <2>1, <2>2, <2>4
  <1> QED
    BY <1>1, <1>2, <1>3, <1>4, <1>5, <1>6, <1>7, <1>8, <1>9, <1>10, <1>11, <1>12, <1>13, <1>14,
       <1>15, <1>16, <1>17, <1>18, <1>o
       DEF Next, TimerStep, ManualStep, UserStep, FaultStep, Kinds

\* The history of errors.
LEMMA ErringStep ==
  ASSUME TypeOK, [Next]_vars
  PROVE  faults' \in 0 .. MaxFaults /\ orphans' \in SUBSET Jobs
  <1>1. faults \in 0 .. MaxFaults /\ orphans \in SUBSET Jobs
    BY DEF TypeOK
  <1>2. ASSUME FaultStep
        PROVE  faults' \in 0 .. MaxFaults /\ orphans' \in SUBSET Jobs
    <2>1. Fault
      BY <1>2 DEF FaultStep, ClaimRaises, ClaimManualRaises, ApplyRaises, ApplyManualRaises
    <2>4. faults' \in 0 .. MaxFaults
      BY <1>1, <2>1, CronAssumption DEF Fault
    <2>2. \A r \in Replicas : Batch(r) \subseteq Jobs
      BY DEF Batch
    <2>3. orphans' \in SUBSET Jobs
      BY <1>1, <1>2, <2>2
         DEF FaultStep, ClaimRaises, ClaimManualRaises, ApplyRaises, ApplyManualRaises, MarkLost
    <2> QED
      BY <2>3, <2>4
  <1>3. ASSUME NEW r \in Replicas, NEW j \in Jobs, ClaimJob(r, j) \/ ClaimManual(r, j)
        PROVE  faults' = faults /\ orphans' \subseteq orphans
    BY <1>3 DEF ClaimJob, ClaimManual
  <1>4. ASSUME Next, ~FaultStep, ~ \E r \in Replicas, j \in Jobs : ClaimJob(r, j) \/ ClaimManual(r, j)
        PROVE  UNCHANGED erring
    BY <1>4 DEF Next, TimerStep, ManualStep, UserStep, Collect, BeginPool, StartJob, ApplyResult, ApplyManual,
                Finish, RunManual, UpdateJob, RemoveJob, PauseAll, ResumeAll, Crash, Startup, Tick, erring
  <1> QED
    BY <1>1, <1>2, <1>3, <1>4 DEF vars, erring

LEMMA TypeStep ==
  ASSUME TypeOK, [Next]_vars
  PROVE  TypeOK' /\ Kinds
  BY CoreStep, ErringStep DEF TypeOK, CoreType

-----------------------------------------------------------------------------
(* The conjuncts of the invariant. *)

\* The possible values of a timer's and of a manual execution.
LEMMA OriginFact == \A o \in Origins : o = "timer" \/ o = "manual"
  BY DEF Origins

LEMMA BatchFact ==
  \A r \in Replicas, j \in Jobs : j \in Batch(r) <=> exec[r]["timer"][j].at # "none"
  BY DEF Batch

\* A crash and a startup.
LEMMA CrashFacts ==
  ASSUME TypeOK, NEW r \in Replicas, Crash(r)
  PROVE  /\ \A o \in Origins, j \in Jobs : exec'[r][o][j].at = "none"
         /\ \A s \in Replicas \ {r} : exec'[s] = exec[s] /\ tick'[s] = tick[s] /\ todo'[s] = todo[s]
         /\ tick'[r] = "down" /\ todo'[r] = {} /\ crashes' # 0 /\ UNCHANGED <<job, edits>>
  <1>1. crashes' # 0
    BY DEF TypeOK, Crash
  <1> QED
    BY <1>1 DEF TypeOK, Crash, Idle

LEMMA ShapeStep ==
  ASSUME TypeOK, Shape, Kinds
  PROVE  Shape'
  <1>o. "timer" \in Origins /\ "manual" \in Origins /\ "timer" # "manual"
    BY DEF Origins
  <1>1. ASSUME NEW r \in Replicas, NEW o \in Origins, NEW j \in Jobs, ClaimStep(r, o, j)
        PROVE  Shape'
    BY <1>1, <1>o, OriginFact DEF Shape, ClaimStep, Others
  <1>2. ASSUME NEW r \in Replicas, NEW o \in Origins, NEW j \in Jobs, EndStep(r, o, j)
        PROVE  Shape'
    BY <1>2, <1>o, OriginFact, BatchFact DEF Shape, EndStep, Others
  <1>3. ASSUME NEW r \in Replicas, NEW o \in Origins, NEW j \in Jobs, MoveStep(r, o, j)
        PROVE  Shape'
    BY <1>3, <1>o, OriginFact DEF Shape, MoveStep, Others
  <1>4. ASSUME EditStep
        PROVE  Shape'
    BY <1>4, BatchFact DEF Shape, EditStep
  <1>5. ASSUME NEW r \in Replicas, Crash(r)
        PROVE  Shape'
    BY <1>5, <1>o, CrashFacts DEF Shape
  <1>6. ASSUME NEW r \in Replicas, Startup(r)
        PROVE  Shape'
    BY <1>6 DEF Shape, Startup, TypeOK
  <1>7. ASSUME Tick
        PROVE  Shape'
    <2>1. /\ UNCHANGED <<tick, crashes>>
          /\ \A r \in Replicas, o \in Origins, j \in Jobs : exec'[r][o][j].at = exec[r][o][j].at
      <3>1. UNCHANGED <<tick, crashes>>
        BY <1>7 DEF Tick
      <3> QED
        BY <1>7, <3>1, TickRows
    <2> QED
      BY <2>1, <1>o DEF Shape
  <1>8. ASSUME NEW j \in Jobs, RaiseStep(j)
        PROVE  Shape'
    BY <1>8, <1>o DEF Shape, RaiseStep
  <1> QED
    BY <1>1, <1>2, <1>3, <1>4, <1>5, <1>6, <1>7, <1>8 DEF Kinds

\* A set that is no larger fits where the other did.
LEMMA Fits ==
  ASSUME NEW S \in SUBSET Jobs, NEW T \in SUBSET S, Cardinality(S) <= MaxConcurrent
  PROVE  Cardinality(T) <= MaxConcurrent
  <1>1. IsFiniteSet(S)
    BY CronAssumption, FS_Subset
  <1>2. Cardinality(T) <= Cardinality(S) /\ Cardinality(T) \in Nat /\ Cardinality(S) \in Nat
    BY <1>1, FS_Subset, FS_CardinalityType
  <1> QED
    BY <1>2, CronAssumption

LEMMA BatchFitsStep ==
  ASSUME TypeOK, Shape, BatchFits, Kinds
  PROVE  BatchFits'
  <1>o. "timer" \in Origins /\ "manual" \in Origins /\ "timer" # "manual"
    BY DEF Origins
  <1>t. \A s \in Replicas : todo[s] \subseteq Jobs /\ Batch(s) \subseteq Jobs
    BY DEF TypeOK, Batch
  <1>s. ASSUME \A s \in Replicas : (Batch(s) \cup todo[s])' \subseteq Batch(s) \cup todo[s]
        PROVE  BatchFits'
    BY <1>s, <1>t, Fits DEF BatchFits
  <1>b. \A s \in Replicas, i \in Jobs : i \in Batch(s)' <=> exec'[s]["timer"][i].at # "none"
    BY DEF Batch
  <1>c. \A s \in Replicas : Batch(s)' \subseteq Jobs
    BY DEF Batch
  <1>1. ASSUME NEW r \in Replicas, NEW o \in Origins, NEW j \in Jobs, ClaimStep(r, o, j)
        PROVE  BatchFits'
    <2>1. \A s \in Replicas : todo'[s] \subseteq todo[s]
      BY <1>1 DEF ClaimStep
    <2>2. \A s \in Replicas, i \in Jobs : i \in Batch(s)' => i \in Batch(s) \cup todo[s]
      BY <1>1, <1>o, <1>b, BatchFact DEF ClaimStep, Others
    <2> QED
      BY <1>s, <1>c, <2>1, <2>2
  <1>2. ASSUME NEW r \in Replicas, NEW o \in Origins, NEW j \in Jobs, EndStep(r, o, j)
        PROVE  BatchFits'
    <2>1. todo' = todo
      BY <1>2 DEF EndStep
    <2>2. \A s \in Replicas, i \in Jobs : i \in Batch(s)' => i \in Batch(s)
      BY <1>2, <1>o, <1>b, BatchFact DEF EndStep, Others
    <2> QED
      BY <1>s, <1>c, <2>1, <2>2
  <1>3. ASSUME NEW r \in Replicas, NEW o \in Origins, NEW j \in Jobs, MoveStep(r, o, j)
        PROVE  BatchFits'
    <2>1. todo' = todo
      BY <1>3 DEF MoveStep
    <2>2. \A s \in Replicas, i \in Jobs : i \in Batch(s)' => i \in Batch(s)
      BY <1>3, <1>o, <1>b, BatchFact DEF MoveStep, Others
    <2> QED
      BY <1>s, <1>c, <2>1, <2>2
  <1>4. ASSUME EditStep
        PROVE  BatchFits'
    <2>1. exec' = exec
      BY <1>4 DEF EditStep
    <2>2. \A s \in Replicas : Batch(s)' = Batch(s)
      BY <2>1 DEF Batch
    <2>3. ASSUME NEW s \in Replicas
          PROVE  Cardinality((Batch(s) \cup todo[s])') <= MaxConcurrent
      <3>1. CASE todo'[s] \subseteq todo[s]
        <4>1. (Batch(s) \cup todo[s])' \subseteq Batch(s) \cup todo[s]
          BY <2>2, <3>1
        <4> QED
          BY <4>1, <1>t, Fits DEF BatchFits
      <3>2. CASE tick[s] = "idle" /\ Cardinality(todo'[s]) <= MaxConcurrent
        <4>1. Batch(s) = {}
          BY <3>2 DEF Shape, Batch
        <4>2. (Batch(s) \cup todo[s])' = todo'[s]
          BY <2>2, <4>1
        <4> QED
          BY <3>2, <4>2
      <3> QED
        BY <1>4, <3>1, <3>2 DEF EditStep
    <2> QED
      BY <2>3 DEF BatchFits
  <1>5. ASSUME NEW r \in Replicas, Crash(r)
        PROVE  BatchFits'
    <2>1. \A s \in Replicas : todo'[s] \subseteq todo[s]
      BY <1>5, CrashFacts
    <2>2. \A s \in Replicas, i \in Jobs : i \in Batch(s)' => i \in Batch(s)
      BY <1>5, <1>o, <1>b, BatchFact, CrashFacts
    <2> QED
      BY <1>s, <1>c, <2>1, <2>2
  <1>6. ASSUME NEW r \in Replicas, Startup(r)
        PROVE  BatchFits'
    <2>1. todo' = todo /\ exec' = exec
      BY <1>6 DEF Startup
    <2>2. \A s \in Replicas, i \in Jobs : i \in Batch(s)' => i \in Batch(s)
      BY <2>1, <1>b, BatchFact
    <2> QED
      BY <1>s, <1>c, <2>1, <2>2
  <1>7. ASSUME Tick
        PROVE  BatchFits'
    <2>1. todo' = todo /\ \A s \in Replicas, i \in Jobs : exec'[s]["timer"][i].at = exec[s]["timer"][i].at
      <3>1. todo' = todo
        BY <1>7 DEF Tick
      <3> QED
        BY <1>7, <1>o, <3>1, TickRows
    <2>2. \A s \in Replicas, i \in Jobs : i \in Batch(s)' => i \in Batch(s)
      BY <2>1, <1>b, BatchFact
    <2> QED
      BY <1>s, <1>c, <2>1, <2>2
  <1>8. ASSUME NEW j \in Jobs, RaiseStep(j)
        PROVE  BatchFits'
    <2>1. \A s \in Replicas : todo'[s] \subseteq todo[s]
      BY <1>8 DEF RaiseStep
    <2>2. \A s \in Replicas, i \in Jobs : i \in Batch(s)' => i \in Batch(s)
      BY <1>8, <1>o, <1>b, BatchFact DEF RaiseStep
    <2> QED
      BY <1>s, <1>c, <2>1, <2>2
  <1> QED
    BY <1>1, <1>2, <1>3, <1>4, <1>5, <1>6, <1>7, <1>8 DEF Kinds

LEMMA CountedFitsStep ==
  ASSUME TypeOK, CountedFits, Kinds
  PROVE  CountedFits'
  <1>s. ASSUME Counted' \subseteq Counted
        PROVE  CountedFits'
    <2>1. Counted \subseteq Jobs
      BY DEF Counted
    <2> QED
      BY <1>s, <2>1, Fits DEF CountedFits
  <1>c. \A j \in Jobs : j \in Counted <=>
          ~job[j].deleted /\ job[j].mark # None /\ ~(job[j].mark > Stuck)
    BY DEF Counted, Claimable, Unmarked, Stale
  <1>d. \A j \in Jobs : j \in Counted' <=>
          ~job'[j].deleted /\ job'[j].mark # None /\ ~(job'[j].mark > Stuck)
    BY DEF Counted, Claimable, Unmarked, Stale
  <1>e. Counted' \subseteq Jobs /\ Counted \subseteq Jobs
    BY DEF Counted
  <1>a. ASSUME NEW j \in Jobs, HasCapacity, OtherRows(j)
        PROVE  CountedFits'
    <2>1. Counted' \subseteq Counted \cup {j}
      BY <1>a, <1>c, <1>d, <1>e DEF OtherRows
    <2>2. IsFiniteSet(Counted) /\ Cardinality(Counted) \in Nat
      BY <1>e, CronAssumption, FS_Subset, FS_CardinalityType
    <2>3. IsFiniteSet(Counted \cup {j}) /\ Cardinality(Counted \cup {j}) <= Cardinality(Counted) + 1
      <3>1. /\ IsFiniteSet(Counted \cup {j})
            /\ Cardinality(Counted \cup {j}) = Cardinality(Counted) \/ Cardinality(Counted \cup {j}) = Cardinality(Counted) + 1
        BY <2>2, FS_AddElement
      <3> QED
        BY <2>2, <3>1
    <2>4. Cardinality(Counted) < MaxConcurrent
      BY <1>a DEF HasCapacity
    <2>5. Cardinality(Counted \cup {j}) \in Nat
      BY <2>3, FS_CardinalityType
    <2>6. Cardinality(Counted \cup {j}) <= MaxConcurrent
      BY <2>2, <2>3, <2>4, <2>5, CronAssumption
    <2>7. Counted \cup {j} \subseteq Jobs
      BY <1>e
    <2> QED
      BY <2>1, <2>6, <2>7, Fits DEF CountedFits
  <1>1. ASSUME NEW r \in Replicas, NEW o \in Origins, NEW j \in Jobs, ClaimStep(r, o, j)
        PROVE  CountedFits'
    BY <1>a, <1>1 DEF ClaimStep
  <1>2. ASSUME NEW r \in Replicas, NEW o \in Origins, NEW j \in Jobs, EndStep(r, o, j)
        PROVE  CountedFits'
    BY <1>2, <1>s, <1>c, <1>d, <1>e DEF EndStep, OtherRows
  <1>3. ASSUME NEW r \in Replicas, NEW o \in Origins, NEW j \in Jobs, MoveStep(r, o, j)
        PROVE  CountedFits'
    BY <1>3, <1>s, <1>c, <1>d, <1>e DEF MoveStep
  <1>4. ASSUME EditStep
        PROVE  CountedFits'
    BY <1>4, <1>s, <1>c, <1>d, <1>e DEF EditStep
  <1>5. ASSUME NEW r \in Replicas, Crash(r)
        PROVE  CountedFits'
    BY <1>5, <1>s, <1>c, <1>d, <1>e DEF Crash
  <1>6. ASSUME NEW r \in Replicas, Startup(r)
        PROVE  CountedFits'
    BY <1>6, <1>s, <1>c, <1>d, <1>e, StartupRows
  <1>7. ASSUME Tick
        PROVE  CountedFits'
    <2>1. \A j \in Jobs : job[j].mark \in None .. Stuck + 1
      BY DEF TypeOK, Row
    <2> QED
      BY <1>7, <1>s, <1>c, <1>d, <1>e, <2>1, TickRows, CronAssumption DEF None
  <1>8. ASSUME NEW j \in Jobs, RaiseStep(j)
        PROVE  CountedFits'
    <2>1. CASE job' = job
      BY <1>s, <1>c, <1>d, <1>e, <2>1
    <2>2. CASE HasCapacity /\ OtherRows(j)
      BY <1>a, <2>2
    <2> QED
      BY <1>8, <2>1, <2>2 DEF RaiseStep
  <1> QED
    BY <1>1, <1>2, <1>3, <1>4, <1>5, <1>6, <1>7, <1>8 DEF Kinds

\* No claimed job waits for the pool while the clock ticks: a batch that fits
\* the pool is executing as a whole when the pool is full.
LEMMA NoneClaimed ==
  ASSUME TypeOK, Shape, BatchFits, Prompt
  PROVE  \A r \in Replicas, o \in Origins, j \in Jobs : exec[r][o][j].at # "claimed"
  <1>1. SUFFICES ASSUME NEW r \in Replicas, NEW j \in Jobs, exec[r]["timer"][j].at = "claimed"
                 PROVE  FALSE
    BY OriginFact DEF Shape
  <1> DEFINE busy == {i \in Jobs : exec[r]["timer"][i].at = "executing"}
  <1>2. ~(Cardinality(busy) < MaxConcurrent)
    BY <1>1 DEF Prompt, PoolSize
  <1>3. Batch(r) \cup todo[r] \subseteq Jobs /\ Batch(r) \subseteq Jobs /\ busy \subseteq Batch(r)
    BY DEF TypeOK, Batch
  <1>4. Cardinality(Batch(r)) <= MaxConcurrent
    BY <1>3, Fits DEF BatchFits
  <1>5. IsFiniteSet(Batch(r))
    BY <1>3, CronAssumption, FS_Subset
  <1>6. /\ Cardinality(busy) <= Cardinality(Batch(r))
        /\ Cardinality(busy) = Cardinality(Batch(r)) => busy = Batch(r)
        /\ IsFiniteSet(busy)
    BY <1>3, <1>5, FS_Subset
  <1>7. Cardinality(busy) \in Nat /\ Cardinality(Batch(r)) \in Nat
    BY <1>5, <1>6, FS_CardinalityType
  <1>8. Cardinality(busy) = Cardinality(Batch(r))
    BY <1>2, <1>4, <1>6, <1>7, CronAssumption
  <1>9. j \in Batch(r) /\ j \notin busy
    BY <1>1 DEF Batch
  <1> QED
    BY <1>6, <1>8, <1>9

\* Markers, ages and executions stay together.
LEMMA MarkStep ==
  ASSUME TypeOK, Shape, BatchFits, MarkIsAge, BatchTogether, OneRunAtATime, Kinds
  PROVE  MarkIsAge' /\ BatchTogether' /\ OneRunAtATime'
  <1>o. "timer" \in Origins /\ "manual" \in Origins /\ "timer" # "manual"
    BY DEF Origins
  <1>1. SUFFICES ASSUME crashes' = 0
                 PROVE  MarkIsAge' /\ BatchTogether' /\ OneRunAtATime'
    BY DEF MarkIsAge, BatchTogether, OneRunAtATime
  <1>2. crashes = 0
    <2>1. ASSUME \E r \in Replicas, o \in Origins, j \in Jobs :
                   ClaimStep(r, o, j) \/ EndStep(r, o, j) \/ MoveStep(r, o, j)
          PROVE  crashes' = crashes
      BY <2>1 DEF ClaimStep, EndStep, MoveStep
    <2>2. ASSUME EditStep \/ Tick \/ \E r \in Replicas : Startup(r)
          PROVE  crashes' = crashes
      BY <2>2 DEF EditStep, Tick, Startup
    <2>3. ASSUME \E j \in Jobs : RaiseStep(j)
          PROVE  crashes' = crashes
      BY <2>3 DEF RaiseStep
    <2> QED
      BY <1>1, <2>1, <2>2, <2>3, CrashFacts DEF Kinds
  <1>3. \A r \in Replicas, o \in Origins, j \in Jobs :
          /\ Executing(r, o, j) => job[j].mark \in 0 .. Timeout
          /\ exec[r][o][j].at = "claimed" => job[j].mark = 0
          /\ exec[r][o][j].at = "executing" => job[j].mark = exec[r][o][j].age
    BY <1>2 DEF MarkIsAge
  <1>4. \A r \in Replicas, i, j \in Jobs :
          Executing(r, "timer", i) /\ Executing(r, "timer", j) => job[i].mark = job[j].mark
    BY <1>2 DEF BatchTogether
  <1>5. \A r1, r2 \in Replicas, o1, o2 \in Origins, j \in Jobs :
          Executing(r1, o1, j) /\ Executing(r2, o2, j) => r1 = r2 /\ o1 = o2
    BY <1>2 DEF OneRunAtATime
  <1>6. ASSUME NEW r \in Replicas, NEW o \in Origins, NEW j \in Jobs, ClaimStep(r, o, j)
        PROVE  MarkIsAge' /\ BatchTogether' /\ OneRunAtATime'
    <2>1. \A s \in Replicas, p \in Origins : ~Executing(s, p, j)
      BY <1>3, <1>6, CronAssumption DEF ClaimStep, Claimable, Unmarked, Stale, None
    <2>2. /\ job'[j].mark = 0 /\ exec'[r][o][j].at \in {"claimed", "executing"}
          /\ exec'[r][o][j].age = 0 /\ Others(r, o, j) /\ OtherRows(j)
          /\ o = "timer" => tick[r] = "claiming"
      BY <1>6 DEF ClaimStep
    <2>3. \A s \in Replicas, p \in Origins, i \in Jobs :
            Executing(s, p, i)' <=> Executing(s, p, i) \/ <<s, p, i>> = <<r, o, j>>
      BY <2>2 DEF Executing, Others
    <2>4. MarkIsAge'
      <3>1. ASSUME NEW s \in Replicas, NEW p \in Origins, NEW i \in Jobs
            PROVE  /\ Executing(s, p, i)' => job'[i].mark \in 0 .. Timeout
                   /\ exec'[s][p][i].at = "claimed" => job'[i].mark = 0
                   /\ exec'[s][p][i].at = "executing" => job'[i].mark = exec'[s][p][i].age
        <4>1. CASE i # j
          BY <1>3, <2>2, <2>3, <4>1 DEF Others, OtherRows
        <4>2. CASE i = j /\ <<s, p>> # <<r, o>>
          BY <2>1, <2>2, <2>3, <4>2 DEF Others, Executing
        <4>3. CASE i = j /\ s = r /\ p = o
          BY <2>2, <4>3, CronAssumption
        <4> QED
          BY <4>1, <4>2, <4>3
      <3> QED
        BY <3>1 DEF MarkIsAge
    <2>5. BatchTogether'
      <3>1. ASSUME NEW s \in Replicas, NEW i \in Jobs, NEW k \in Jobs,
                   Executing(s, "timer", i)', Executing(s, "timer", k)'
            PROVE  job'[i].mark = job'[k].mark
        <4>1. CASE i # j /\ k # j
          BY <1>o, <1>4, <2>2, <2>3, <3>1, <4>1 DEF OtherRows
        <4>2. CASE i = j \/ k = j
          <5>1. s = r /\ o = "timer"
            BY <1>o, <2>1, <2>3, <3>1, <4>2
          <5>2. \A l \in Jobs : Executing(r, "timer", l) => job[l].mark = 0
            BY <1>o, <1>3, <2>2, <5>1 DEF Shape, Executing
          <5> QED
            BY <1>o, <2>2, <2>3, <3>1, <4>2, <5>1, <5>2 DEF OtherRows
        <4> QED
          BY <4>1, <4>2
      <3> QED
        BY <3>1 DEF BatchTogether
    <2>6. OneRunAtATime'
      BY <1>5, <2>1, <2>3 DEF OneRunAtATime
    <2> QED
      BY <2>4, <2>5, <2>6
  <1>7. ASSUME NEW r \in Replicas, NEW o \in Origins, NEW j \in Jobs, EndStep(r, o, j)
        PROVE  MarkIsAge' /\ BatchTogether' /\ OneRunAtATime'
    <2>1. exec[r][o][j].at = "finished" /\ exec'[r][o][j].at = "none" /\ Others(r, o, j) /\ OtherRows(j)
      BY <1>7 DEF EndStep
    <2>2. \A s \in Replicas, p \in Origins : ~Executing(s, p, j)'
      BY <1>5, <2>1 DEF Executing, Others
    <2>3. \A s \in Replicas, p \in Origins, i \in Jobs :
            Executing(s, p, i)' => Executing(s, p, i) /\ i # j /\ exec'[s][p][i] = exec[s][p][i]
      BY <2>1, <2>2 DEF Executing, Others
    <2>4. \A s \in Replicas, p \in Origins, i \in Jobs :
            exec'[s][p][i].at \in {"claimed", "executing"} => Executing(s, p, i)'
      BY DEF Executing
    <2>5. MarkIsAge'
      BY <1>3, <2>1, <2>3, <2>4 DEF MarkIsAge, OtherRows
    <2>6. BatchTogether'
      BY <1>o, <1>4, <2>1, <2>3 DEF BatchTogether, OtherRows
    <2>7. OneRunAtATime'
      BY <1>5, <2>3 DEF OneRunAtATime
    <2> QED
      BY <2>5, <2>6, <2>7
  <1>8. ASSUME NEW r \in Replicas, NEW o \in Origins, NEW j \in Jobs, MoveStep(r, o, j)
        PROVE  MarkIsAge' /\ BatchTogether' /\ OneRunAtATime'
    <2>1. \A s \in Replicas, p \in Origins, i \in Jobs : Executing(s, p, i)' <=> Executing(s, p, i)
      BY <1>8 DEF Executing, MoveStep, Others
    <2>2. job' = job
      BY <1>8 DEF MoveStep
    <2>3. MarkIsAge'
      <3>1. ASSUME NEW s \in Replicas, NEW p \in Origins, NEW i \in Jobs
            PROVE  /\ exec'[s][p][i].at = "claimed" => job'[i].mark = 0
                   /\ exec'[s][p][i].at = "executing" => job'[i].mark = exec'[s][p][i].age
        <4>1. CASE <<s, p, i>> # <<r, o, j>>
          BY <1>3, <1>8, <2>2, <4>1 DEF MoveStep, Others
        <4>2. CASE s = r /\ p = o /\ i = j
          BY <1>3, <1>8, <2>2, <4>2 DEF MoveStep
        <4> QED
          BY <4>1, <4>2
      <3> QED
        BY <1>3, <2>1, <2>2, <3>1 DEF MarkIsAge
    <2>4. BatchTogether'
      BY <1>o, <1>4, <2>1, <2>2 DEF BatchTogether
    <2>5. OneRunAtATime'
      BY <1>5, <2>1 DEF OneRunAtATime
    <2> QED
      BY <2>3, <2>4, <2>5
  <1>9. ASSUME EditStep
        PROVE  MarkIsAge' /\ BatchTogether' /\ OneRunAtATime'
    <2>1. exec' = exec /\ \A j \in Jobs : job'[j].mark = job[j].mark
      BY <1>9 DEF EditStep
    <2>2. \A s \in Replicas, p \in Origins, i \in Jobs : Executing(s, p, i)' <=> Executing(s, p, i)
      BY <2>1 DEF Executing
    <2> QED
      BY <1>o, <1>3, <1>4, <1>5, <2>1, <2>2 DEF MarkIsAge, BatchTogether, OneRunAtATime
  <1>10. ASSUME NEW r \in Replicas, Startup(r)
         PROVE  FALSE
    BY <1>2, <1>10 DEF Shape, Startup
  <1>11. ASSUME Tick
         PROVE  MarkIsAge' /\ BatchTogether' /\ OneRunAtATime'
    <2>1. \A r \in Replicas, o \in Origins, j \in Jobs : exec[r][o][j].at # "claimed"
      BY <1>11, NoneClaimed DEF Tick
    <2>2. \A r \in Replicas, o \in Origins, j \in Jobs :
            /\ exec'[r][o][j].at = exec[r][o][j].at
            /\ exec[r][o][j].at = "executing" =>
                 exec[r][o][j].age < Timeout /\ exec'[r][o][j].age = exec[r][o][j].age + 1
      BY <1>11, TickRows
    <2>3. ASSUME NEW r \in Replicas, NEW o \in Origins, NEW j \in Jobs, Executing(r, o, j)
          PROVE  job[j].mark \in 0 .. Timeout /\ job[j].mark < Timeout
      <3>1. CASE exec[r][o][j].at = "executing"
        BY <1>3, <2>2, <2>3, <3>1
      <3>2. CASE exec[r][o][j].at # "executing"
        <4>1. exec[r][o][j].at = "finished"
          BY <2>1, <2>3, <3>2 DEF Executing
        <4>2. o = "timer"
          BY <1>11, <4>1, OriginFact DEF Tick, Prompt
        <4>3. j \in Batch(r)
          BY <4>1, <4>2 DEF Batch
        <4>4. PoolSize(r) > 0
          BY <1>11, <4>3 DEF Tick, Prompt
        <4>5. {i \in Jobs : exec[r]["timer"][i].at = "executing"} # {}
          <5> DEFINE busy == {i \in Jobs : exec[r]["timer"][i].at = "executing"}
          <5>1. PoolSize(r) = Cardinality(busy)
            BY DEF PoolSize
          <5> HIDE DEF busy
          <5>2. busy # {}
            BY <4>4, <5>1, FS_EmptySet
          <5> QED
            BY <5>2 DEF busy
        <4>6. PICK i \in Jobs : exec[r]["timer"][i].at = "executing"
          BY <4>5
        <4>7. Executing(r, "timer", i)
          BY <4>6 DEF Executing
        <4>8. job[i].mark = job[j].mark
          BY <1>4, <2>3, <4>2, <4>7
        <4> QED
          BY <1>o, <1>3, <2>2, <2>3, <4>6, <4>8
      <3> QED
        BY <3>1, <3>2
    <2>4. \A j \in Jobs : job'[j].mark = IF job[j].mark = None \/ job[j].mark > Stuck
                                           THEN job[j].mark ELSE job[j].mark + 1
      BY <1>11, TickRows
    <2>5. ASSUME NEW r \in Replicas, NEW o \in Origins, NEW j \in Jobs, Executing(r, o, j)
          PROVE  job'[j].mark = job[j].mark + 1 /\ job'[j].mark \in 0 .. Timeout
      <3>1. job[j].mark \in 0 .. Timeout /\ job[j].mark < Timeout
        BY <2>3, <2>5
      <3> QED
        BY <2>4, <3>1, CronAssumption DEF None
    <2>6. \A r \in Replicas, o \in Origins, j \in Jobs : Executing(r, o, j)' <=> Executing(r, o, j)
      BY <2>2 DEF Executing
    <2>7. \A r \in Replicas, o \in Origins, j \in Jobs :
            exec[r][o][j].at = "executing" => Executing(r, o, j)
      BY DEF Executing
    <2>8. MarkIsAge'
      BY <1>3, <2>1, <2>2, <2>5, <2>6, <2>7 DEF MarkIsAge
    <2>9. BatchTogether'
      BY <1>4, <1>o, <2>5, <2>6 DEF BatchTogether
    <2>10. OneRunAtATime'
      BY <1>5, <2>6 DEF OneRunAtATime
    <2> QED
      BY <2>8, <2>9, <2>10
  <1>12. ASSUME NEW j \in Jobs, RaiseStep(j)
         PROVE  MarkIsAge' /\ BatchTogether' /\ OneRunAtATime'
    <2>1. \A s \in Replicas, p \in Origins, i \in Jobs :
            exec'[s][p][i] = exec[s][p][i] \/ exec'[s][p][i].at = "none"
      BY <1>12 DEF RaiseStep
    <2>2. \A s \in Replicas, p \in Origins, i \in Jobs :
            Executing(s, p, i)' => Executing(s, p, i) /\ exec'[s][p][i] = exec[s][p][i]
      BY <2>1 DEF Executing
    <2>3. job' = job \/ (Claimable(j) /\ OtherRows(j))
      BY <1>12 DEF RaiseStep
    <2>4. Claimable(j) => \A s \in Replicas, p \in Origins : ~Executing(s, p, j)
      BY <1>3, CronAssumption DEF Claimable, Unmarked, Stale, None
    <2>5. \A s \in Replicas, p \in Origins, i \in Jobs : Executing(s, p, i)' => job'[i] = job[i]
      BY <2>2, <2>3, <2>4 DEF OtherRows
    <2>6. \A s \in Replicas, p \in Origins, i \in Jobs :
            exec'[s][p][i].at \in {"claimed", "executing"} => Executing(s, p, i)'
      BY DEF Executing
    <2>7. MarkIsAge'
      BY <1>3, <2>2, <2>5, <2>6 DEF MarkIsAge
    <2>8. BatchTogether'
      BY <1>o, <1>4, <2>2, <2>5 DEF BatchTogether
    <2>9. OneRunAtATime'
      BY <1>5, <2>2 DEF OneRunAtATime
    <2> QED
      BY <2>7, <2>8, <2>9
  <1> QED
    BY <1>6, <1>7, <1>8, <1>9, <1>10, <1>11, <1>12, <1>1, <1>2, CrashFacts DEF Kinds

LEMMA MarkHasRunStep ==
  ASSUME TypeOK, MarkHasRun, Kinds
  PROVE  MarkHasRun'
  <1>1. SUFFICES ASSUME \A r \in Replicas : tick'[r] # "down",
                        NEW j \in Jobs \ orphans', job'[j].mark # None
                 PROVE  \E r \in Replicas, o \in Origins : Executing(r, o, j)'
    BY DEF MarkHasRun
  <1>2. ASSUME \A r \in Replicas : tick[r] = "down" => tick'[r] = "down",
               job[j].mark # None, j \notin orphans,
               \A r \in Replicas, o \in Origins : Executing(r, o, j) => Executing(r, o, j)'
        PROVE  \E r \in Replicas, o \in Origins : Executing(r, o, j)'
    BY <1>1, <1>2 DEF MarkHasRun
  <1>3. ASSUME NEW r \in Replicas, NEW o \in Origins, NEW i \in Jobs, ClaimStep(r, o, i)
        PROVE  \E s \in Replicas, p \in Origins : Executing(s, p, j)'
    <2>1. Executing(r, o, i)'
      BY <1>3 DEF ClaimStep, Executing
    <2>2. CASE i # j
      BY <1>1, <1>2, <1>3, <2>2 DEF ClaimStep, Executing, Others, OtherRows
    <2> QED
      BY <2>1, <2>2
  <1>4. ASSUME NEW r \in Replicas, NEW o \in Origins, NEW i \in Jobs, EndStep(r, o, i)
        PROVE  \E s \in Replicas, p \in Origins : Executing(s, p, j)'
    <2>1. i # j
      BY <1>1, <1>4 DEF EndStep
    <2>2. \A s \in Replicas : tick[s] = "down" => tick'[s] = "down"
      BY <1>4 DEF EndStep
    <2> QED
      BY <1>1, <1>2, <1>4, <2>1, <2>2 DEF EndStep, Executing, Others, OtherRows
  <1>5. ASSUME NEW r \in Replicas, NEW o \in Origins, NEW i \in Jobs, MoveStep(r, o, i)
        PROVE  \E s \in Replicas, p \in Origins : Executing(s, p, j)'
    <2>1. \A s \in Replicas, p \in Origins : Executing(s, p, j) => Executing(s, p, j)'
      BY <1>5 DEF MoveStep, Executing, Others
    <2> QED
      BY <1>1, <1>2, <1>5, <2>1 DEF MoveStep
  <1>6. ASSUME EditStep
        PROVE  \E s \in Replicas, p \in Origins : Executing(s, p, j)'
    <2>1. \A s \in Replicas, p \in Origins : Executing(s, p, j) => Executing(s, p, j)'
      BY <1>6 DEF EditStep, Executing
    <2>2. \A s \in Replicas : tick[s] = "down" => tick'[s] = "down"
      BY <1>6 DEF EditStep
    <2> QED
      BY <1>1, <1>2, <1>6, <2>1, <2>2 DEF EditStep
  <1>9. ASSUME NEW i \in Jobs, RaiseStep(i)
        PROVE  \E s \in Replicas, p \in Origins : Executing(s, p, j)'
    <2>1. \A s \in Replicas, p \in Origins :
            \/ exec'[s][p][j] = exec[s][p][j]
            \/ Executing(s, p, j) => j \in orphans'
      BY <1>9 DEF RaiseStep
    <2>2. \A s \in Replicas, p \in Origins : Executing(s, p, j) => Executing(s, p, j)'
      BY <1>1, <2>1 DEF Executing
    <2>3. job'[j] = job[j]
      BY <1>1, <1>9 DEF RaiseStep, OtherRows
    <2>4. j \notin orphans
      BY <1>1, <1>9 DEF RaiseStep
    <2>5. \A s \in Replicas : tick[s] = "down" => tick'[s] = "down"
      BY <1>9 DEF RaiseStep
    <2> QED
      BY <1>1, <1>2, <2>2, <2>3, <2>4, <2>5
  <1>7. ASSUME NEW r \in Replicas, Crash(r) \/ Startup(r)
        PROVE  FALSE
    BY <1>1, <1>7, CrashFacts, StartupRows
  <1>8. ASSUME Tick
        PROVE  \E s \in Replicas, p \in Origins : Executing(s, p, j)'
    <2>1. \A s \in Replicas, p \in Origins : Executing(s, p, j) => Executing(s, p, j)'
      BY <1>8, TickRows DEF Executing
    <2>2. job[j].mark # None
      BY <1>1, <1>8, TickRows
    <2>3. tick' = tick /\ orphans' = orphans
      BY <1>8 DEF Tick, erring
    <2> QED
      BY <1>1, <1>2, <2>1, <2>2, <2>3
  <1> QED
    BY <1>3, <1>4, <1>5, <1>6, <1>7, <1>8, <1>9 DEF Kinds

-----------------------------------------------------------------------------
(* The theorems. *)

LEMMA CronInit == Init => CronInv
  <1> SUFFICES ASSUME Init PROVE CronInv
    OBVIOUS
  <1>1. \A j \in Jobs : job[j] \in Row /\ job[j].mark = None
    <2>1. /\ 1 \in 0 .. Interval /\ 0 \in 0 .. Interval /\ None \in None .. Stuck + 1
          /\ 1 \in None .. Longest /\ 0 \in 0 .. DisableAfter /\ 0 \in 0 .. Backoff
      BY CronAssumption, LongestFact DEF None
    <2>2. \A k \in {"at", "every"} :
            LET row == [kind |-> k, enabled |-> TRUE, deleted |-> FALSE,
                        moment |-> IF k = "at" THEN 1 ELSE 0, mark |-> None,
                        due |-> 1, errors |-> 0, backoff |-> 0]
            IN row \in Row /\ row.mark = None
      BY <2>1 DEF Row
    <2> QED
      BY <2>2 DEF Init
  <1>2. \A r \in Replicas, o \in Origins, j \in Jobs : exec[r][o][j] = Idle
    BY DEF Init
  <1>3. TypeOK
    BY <1>1, IdleType, CronAssumption DEF Init, TypeOK
  <1>4. \A r \in Replicas, o \in Origins, j \in Jobs : exec[r][o][j].at = "none"
    BY <1>2 DEF Idle
  <1>5. "timer" \in Origins /\ "manual" \in Origins
    BY DEF Origins
  <1>6. Shape
    BY <1>4, <1>5 DEF Shape, Init
  <1>7. BatchFits
    <2>1. \A r \in Replicas : Batch(r) \cup todo[r] = {}
      BY <1>4, <1>5 DEF Batch, Init
    <2> QED
      BY <2>1, FS_EmptySet, CronAssumption DEF BatchFits
  <1>8. CountedFits
    <2>1. Counted = {}
      BY <1>1 DEF Counted, Claimable, Unmarked
    <2> QED
      BY <2>1, FS_EmptySet, CronAssumption DEF CountedFits
  <1>9. \A r \in Replicas, o \in Origins, j \in Jobs : ~Executing(r, o, j)
    BY <1>4 DEF Executing
  <1>10. MarkIsAge /\ BatchTogether /\ OneRunAtATime /\ MarkHasRun
    BY <1>1, <1>4, <1>9, <1>5 DEF MarkIsAge, BatchTogether, OneRunAtATime, MarkHasRun
  <1> QED
    BY <1>3, <1>6, <1>7, <1>8, <1>10 DEF CronInv

LEMMA CronStep == CronInv /\ [Next]_vars => CronInv'
  <1> SUFFICES ASSUME CronInv, [Next]_vars PROVE CronInv'
    OBVIOUS
  <1>1. /\ TypeOK /\ Shape /\ BatchFits /\ CountedFits
        /\ MarkIsAge /\ BatchTogether /\ OneRunAtATime /\ MarkHasRun
    BY DEF CronInv
  <1>2. TypeOK' /\ Kinds
    BY <1>1, TypeStep
  <1> QED
    BY <1>1, <1>2, ShapeStep, BatchFitsStep, CountedFitsStep, MarkStep, MarkHasRunStep DEF CronInv

LEMMA CronAlways == Spec => []CronInv
  BY CronInit, CronStep, PTL DEF Spec

\* However many replicas tick over the table and users press "run": executions
\* stay within cron_max_concurrent_jobs, a job is executed once at a time, and
\* a marker belongs to an execution unless an error of the database left it, by
\* the conditional update of _claim_job under lock_run_admission.  (The first
\* two while no replica restarts.)
THEOREM RunsSafe == Spec => []RunsInBounds
  <1>1. CronInv => RunsInBounds
    <2> SUFFICES ASSUME CronInv PROVE RunsInBounds
      OBVIOUS
    <2>1. CapacityHolds
      <3>1. SUFFICES ASSUME crashes = 0
                     PROVE  Cardinality({j \in Jobs : /\ ~job[j].deleted
                                                      /\ \E r \in Replicas, o \in Origins : Executing(r, o, j)})
                              <= MaxConcurrent
        BY DEF CapacityHolds
      <3> DEFINE alive == {j \in Jobs : /\ ~job[j].deleted
                                        /\ \E r \in Replicas, o \in Origins : Executing(r, o, j)}
      <3>2. alive \subseteq Counted
        BY <3>1, CronAssumption DEF CronInv, MarkIsAge, Counted, Claimable, Unmarked, Stale, None
      <3>3. Counted \subseteq Jobs /\ Cardinality(Counted) <= MaxConcurrent
        BY DEF CronInv, CountedFits, Counted
      <3> QED
        BY <3>2, <3>3, Fits
    <2> QED
      BY <2>1 DEF CronInv, RunsInBounds
  <1> QED
    BY <1>1, CronAlways, PTL

\* A job that is off is never started by a timer from a list collected before,
\* and a job that failed cron_auto_disable_after times is off by that result
\* and stays off until a user asks otherwise, whatever replicas, manual runs,
\* crashes and startups do meanwhile.
THEOREM OffSafe == Spec => StaysOff
  <1> DEFINE NoStart == \A r \in Replicas, j \in Jobs :
               exec[r]["timer"][j].at = "none" /\ exec'[r]["timer"][j].at = "claimed" => job[j].enabled
             Broken == \A j \in Jobs :
               job'[j].errors = DisableAfter /\ (job'[j].errors # job[j].errors \/ ~job[j].enabled) /\ edits' = edits
                 => ~job'[j].enabled
  <1>o. "timer" \in Origins /\ "manual" \in Origins /\ "timer" # "manual"
    BY DEF Origins
  <1>1. ASSUME TypeOK, Kinds
        PROVE  NoStart
    <2>1. SUFFICES ASSUME NEW r \in Replicas, NEW j \in Jobs,
                          exec[r]["timer"][j].at = "none", exec'[r]["timer"][j].at = "claimed"
                   PROVE  job[j].enabled
      OBVIOUS
    <2>2. ASSUME NEW s \in Replicas, NEW o \in Origins, NEW i \in Jobs,
                 ClaimStep(s, o, i) \/ EndStep(s, o, i) \/ MoveStep(s, o, i)
          PROVE  job[j].enabled
      <3>1. CASE <<s, o, i>> # <<r, "timer", j>>
        BY <1>o, <2>1, <2>2, <3>1 DEF ClaimStep, EndStep, MoveStep, Others
      <3>2. CASE s = r /\ o = "timer" /\ i = j
        BY <1>o, <2>1, <2>2, <3>2 DEF ClaimStep, EndStep, MoveStep
      <3> QED
        BY <3>1, <3>2
    <2>3. ASSUME EditStep \/ \E s \in Replicas : Startup(s)
          PROVE  FALSE
      BY <2>1, <2>3 DEF EditStep, Startup
    <2>4. ASSUME NEW s \in Replicas, Crash(s)
          PROVE  FALSE
      BY <1>1, <1>o, <2>1, <2>4, CrashFacts
    <2>5. ASSUME Tick
          PROVE  FALSE
      BY <1>1, <1>o, <2>1, <2>5, TickRows
    <2>6. ASSUME NEW i \in Jobs, RaiseStep(i)
          PROVE  FALSE
      BY <1>o, <2>1, <2>6 DEF RaiseStep
    <2> QED
      BY <1>1, <2>2, <2>3, <2>4, <2>5, <2>6 DEF Kinds
  <1>2. ASSUME TypeOK, Kinds
        PROVE  Broken
    <2>1. SUFFICES ASSUME NEW j \in Jobs, job'[j].errors = DisableAfter, edits' = edits,
                          job'[j].errors # job[j].errors \/ ~job[j].enabled
                   PROVE  ~job'[j].enabled
      OBVIOUS
    <2>2. ASSUME job'[j].errors = job[j].errors, job'[j].enabled => job[j].enabled
          PROVE  ~job'[j].enabled
      BY <2>1, <2>2
    <2>3. ASSUME NEW s \in Replicas, NEW o \in Origins, NEW i \in Jobs,
                 ClaimStep(s, o, i) \/ MoveStep(s, o, i)
          PROVE  ~job'[j].enabled
      BY <2>2, <2>3 DEF ClaimStep, MoveStep, OtherRows
    <2>4. ASSUME NEW s \in Replicas, NEW o \in Origins, NEW i \in Jobs, EndStep(s, o, i)
          PROVE  ~job'[j].enabled
      <3>1. CASE i # j
        BY <2>2, <2>4, <3>1 DEF EndStep, OtherRows
      <3>2. CASE i = j
        <4>1. PICK res \in Results : /\ job'[j].errors = Errors(job[j], res)
                                     /\ job'[j].enabled => job[j].enabled /\ ~Disables(job[j], res)
          BY <2>4, <3>2 DEF EndStep
        <4>2. CASE ~job[j].enabled
          BY <4>1, <4>2
        <4>3. CASE Errors(job[j], res) = DisableAfter /\ Errors(job[j], res) # job[j].errors
          <5>1. Failed(res)
            BY <4>3, CronAssumption DEF Errors
          <5>2. Disables(job[j], res)
            BY <4>3, <5>1, CronAssumption DEF Disables
          <5> QED
            BY <4>1, <5>2
        <4> QED
          BY <2>1, <4>1, <4>2, <4>3
      <3> QED
        BY <3>1, <3>2
    <2>5. ASSUME EditStep
          PROVE  ~job'[j].enabled
      BY <2>1, <2>2, <2>5 DEF EditStep
    <2>6. ASSUME NEW s \in Replicas, Crash(s)
          PROVE  ~job'[j].enabled
      BY <2>2, <2>6 DEF Crash
    <2>7. ASSUME NEW s \in Replicas, Startup(s)
          PROVE  ~job'[j].enabled
      BY <1>2, <2>2, <2>7, StartupRows
    <2>8. ASSUME Tick
          PROVE  ~job'[j].enabled
      BY <1>2, <2>2, <2>8, TickRows
    <2>9. ASSUME NEW i \in Jobs, RaiseStep(i)
          PROVE  ~job'[j].enabled
      BY <2>2, <2>9 DEF RaiseStep, OtherRows
    <2> QED
      BY <1>2, <2>3, <2>4, <2>5, <2>6, <2>7, <2>8, <2>9 DEF Kinds
  <1>3. CronInv /\ [Next]_vars => [NoStart]_vars /\ [Broken]_vars
    BY <1>1, <1>2, TypeStep DEF CronInv
  <1>4. Spec => [][NoStart]_vars /\ [][Broken]_vars
    BY <1>3, CronAlways, PTL DEF Spec
  <1> QED
    BY <1>4 DEF StaysOff, DisabledNeverStarts, BrokenStaysOff

-----------------------------------------------------------------------------
(* The results of runs. *)

\* A message in the conversation is marked on the run's row in the transaction
\* that posts it; a silent run is consumed before anybody could post it.
ResultInv ==
  /\ I!TypeOK
  /\ \A x \in Runs :
       /\ posted[x] = 0 \/ (posted[x] = 1 /\ injected[x])
       /\ silent[x] => posted[x] = 0 /\ at[x] \notin {"recorded", "injecting"}

\* Whoever commits an injection posts what is not posted yet.
LEMMA CommitOnce ==
  ASSUME ResultInv, NEW x \in Runs, I!CommitInjection(x), ~silent[x]
  PROVE  /\ injected' \in [Runs -> BOOLEAN] /\ posted' \in [Runs -> 0 .. 2]
         /\ \A y \in Runs : /\ posted'[y] = 0 \/ (posted'[y] = 1 /\ injected'[y])
                            /\ silent[y] => posted'[y] = 0
  <1>1. CASE injected[x]
    BY <1>1 DEF ResultInv, I!TypeOK, I!CommitInjection
  <1>2. CASE ~injected[x]
    <2>1. posted[x] = 0
      BY <1>2 DEF ResultInv
    <2>2. posted' = [posted EXCEPT ![x] = 1] /\ injected' = [injected EXCEPT ![x] = TRUE]
      BY <1>2, <2>1 DEF I!CommitInjection, ResultInv, I!TypeOK
    <2> QED
      BY <2>2 DEF ResultInv, I!TypeOK
  <1> QED
    BY <1>1, <1>2

LEMMA ResultStep == ResultInv /\ [I!Next]_I!vars => ResultInv'
  <1> SUFFICES ASSUME ResultInv, [I!Next]_I!vars PROVE ResultInv'
    OBVIOUS
  <1>t. /\ status \in [Runs -> {"none", "running", "ok", "error", "skipped"}]
        /\ silent \in [Runs -> BOOLEAN] /\ injected \in [Runs -> BOOLEAN]
        /\ at \in [Runs -> I!Places] /\ turn \in {"idle", "running", "flushing"}
        /\ list \subseteq Runs /\ interrupts \in 0 .. MaxInterrupts
        /\ posted \in [Runs -> 0 .. 2]
    BY DEF ResultInv, I!TypeOK
  <1>p. \A x \in Runs : /\ posted[x] = 0 \/ (posted[x] = 1 /\ injected[x])
                        /\ silent[x] => posted[x] = 0 /\ at[x] \notin {"recorded", "injecting"}
    BY DEF ResultInv
  <1>i. interrupts < MaxInterrupts => interrupts + 1 \in 0 .. MaxInterrupts
    BY <1>t, InjectionAssumption
  <1>k. \A place \in {"running", "recorded", "injecting", "delivering", "over"} : place \in I!Places
    BY DEF I!Places
  <1>1. CASE UNCHANGED I!vars
    BY <1>1, <1>t, <1>p DEF I!vars, ResultInv, I!TypeOK
  <1>2. ASSUME NEW x \in Runs, I!CreateRunEntry(x)
        PROVE  ResultInv'
    BY <1>2, <1>t, <1>p, <1>k DEF ResultInv, I!TypeOK, I!CreateRunEntry, I!Goes
  <1>3. ASSUME NEW x \in Runs, I!Succeed(x)
        PROVE  ResultInv'
    <2>1. /\ injected' \in [Runs -> BOOLEAN] /\ \A y \in Runs : injected[y] => injected'[y]
      BY <1>3, <1>t DEF I!Succeed
    <2>2. at' \in [Runs -> I!Places] /\ \A y \in Runs : silent[y] => at'[y] \notin {"recorded", "injecting"}
      BY <1>3, <1>t, <1>p, <1>k DEF I!Succeed, I!Goes
    <2>3. status' \in [Runs -> {"none", "running", "ok", "error", "skipped"}]
      BY <1>3, <1>t DEF I!Succeed
    <2>4. UNCHANGED <<silent, turn, list, interrupts, posted>>
      BY <1>3 DEF I!Succeed
    <2> QED
      BY <1>t, <1>p, <2>1, <2>2, <2>3, <2>4 DEF ResultInv, I!TypeOK
  <1>4. ASSUME NEW x \in Runs, I!Fail(x)
        PROVE  ResultInv'
    BY <1>4, <1>t, <1>p, <1>k DEF ResultInv, I!TypeOK, I!Fail, I!Goes
  <1>5. ASSUME NEW x \in Runs, I!TryInject(x)
        PROVE  ResultInv'
    BY <1>5, <1>t, <1>p, <1>k DEF ResultInv, I!TypeOK, I!TryInject, I!Goes
  <1>6. ASSUME NEW x \in Runs, I!DoInject(x)
        PROVE  ResultInv'
    <2>1. /\ at' \in [Runs -> I!Places]
          /\ \A y \in Runs : silent[y] => at'[y] \notin {"recorded", "injecting"}
          /\ ~silent[x] /\ UNCHANGED <<status, silent, turn, list>>
      BY <1>6, <1>t, <1>p, <1>k DEF I!DoInject, I!Goes
    <2>2. CASE I!CommitInjection(x) /\ UNCHANGED interrupts
      BY <1>t, <2>1, <2>2, CommitOnce DEF ResultInv, I!TypeOK
    <2>3. CASE I!Fails
      BY <1>t, <1>p, <1>i, <2>1, <2>3 DEF ResultInv, I!TypeOK, I!Fails
    <2> QED
      BY <1>6, <2>2, <2>3 DEF I!DoInject
  <1>7. ASSUME NEW x \in Runs, I!Deliver(x)
        PROVE  ResultInv'
    BY <1>7, <1>t, <1>p, <1>k DEF ResultInv, I!TypeOK, I!Deliver, I!Goes
  <1>8. ASSUME NEW x \in Runs, I!TimeOut(x)
        PROVE  ResultInv'
    BY <1>8, <1>t, <1>p, <1>k, <1>i DEF ResultInv, I!TypeOK, I!TimeOut, I!Goes
  <1>9. ASSUME I!MarkInterruptedRuns
        PROVE  ResultInv'
    BY <1>9, <1>t, <1>p, <1>i DEF ResultInv, I!TypeOK, I!MarkInterruptedRuns
  <1>10. ASSUME I!StartTurn \/ I!EndTurn
         PROVE  ResultInv'
    BY <1>10, <1>t, <1>p DEF ResultInv, I!TypeOK, I!StartTurn, I!EndTurn
  <1>11. ASSUME I!ReadPending
         PROVE  ResultInv'
    BY <1>11, <1>t, <1>p DEF ResultInv, I!TypeOK, I!ReadPending, I!Pending
  <1>12. ASSUME I!RevokedTurn
         PROVE  ResultInv'
    BY <1>12, <1>t, <1>p, <1>i DEF ResultInv, I!TypeOK, I!RevokedTurn
  <1>13. ASSUME NEW x \in Runs, I!Flush(x)
         PROVE  ResultInv'
    <2>1. list' \subseteq Runs /\ UNCHANGED <<status, silent, at, turn>>
      BY <1>13, <1>t DEF I!Flush
    <2>2. CASE I!FlushResult(x) /\ UNCHANGED interrupts /\ silent[x]
      BY <1>t, <1>p, <2>1, <2>2 DEF ResultInv, I!TypeOK, I!FlushResult
    <2>3. CASE I!FlushResult(x) /\ UNCHANGED interrupts /\ ~silent[x]
      <3>1. I!CommitInjection(x)
        BY <2>3 DEF I!FlushResult
      <3> QED
        BY <1>t, <1>p, <2>1, <2>3, <3>1, CommitOnce DEF ResultInv, I!TypeOK
    <2>4. CASE I!Fails
      BY <1>t, <1>p, <1>i, <2>1, <2>4 DEF ResultInv, I!TypeOK, I!Fails
    <2> QED
      BY <1>13, <2>2, <2>3, <2>4 DEF I!Flush
  <1> QED
    BY <1>1, <1>2, <1>3, <1>4, <1>5, <1>6, <1>7, <1>8, <1>9, <1>10, <1>11, <1>12, <1>13
       DEF I!Next, I!ExecutorStep, I!LoopStep

\* The executor, the flush of every turn, timeouts and the startup of other
\* replicas may all reach the same result: _commit_injection posts it once at
\* most, and a NO_REPLY result never, for any number of runs and interruptions.
THEOREM PostedSafe == I!Spec => []ResultsPostedOnce
  <1>1. I!Init => ResultInv
    BY InjectionAssumption DEF I!Init, ResultInv, I!TypeOK, I!Places
  <1>2. ResultInv => ResultsPostedOnce
    <2> SUFFICES ASSUME ResultInv PROVE ResultsPostedOnce
      OBVIOUS
    <2>1. I!PostedOnce
      BY DEF ResultInv, I!PostedOnce
    <2> QED
      BY <2>1 DEF ResultInv, ResultsPostedOnce, I!SilentStaysSilent
  <1> QED
    BY <1>1, <1>2, ResultStep, PTL DEF I!Spec
=============================================================================
