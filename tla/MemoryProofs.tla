----------------------------- MODULE MemoryProofs -----------------------------
(***************************************************************************)
(* Proofs about the extraction jobs (MemoryJobs) and the search index      *)
(* (MemoryIndex, here instance X of MCMemory), for any number of turns,    *)
(* workers, revisions and outbox rows.                                     *)
(***************************************************************************)
EXTENDS MCMemory, WellFoundedInduction, TLAPS

-----------------------------------------------------------------------------
(* The cursor. *)

\* A set of numbers that is not empty has a least one.
LEMMA Least ==
  ASSUME NEW T \in SUBSET Nat, T # {}
  PROVE  \E m \in T : \A k \in T : m <= k
  <1> DEFINE R == OpToRel(<, Nat)
  <1>1. IsWellFoundedOn(R, Nat)
    BY NatLessThanWellFounded
  <1>2. \A x, y \in Nat : x < y => <<x, y>> \in R
    BY DEF OpToRel
  <1> HIDE DEF R
  <1>3. PICK x \in T : \A y \in T : ~(<<y, x>> \in R)
    BY <1>1, WFMin
  <1>4. ASSUME NEW y \in T PROVE x <= y
    <2>1. x \in Nat /\ y \in Nat /\ ~(y < x)
      BY <1>2, <1>3
    <2> QED
      BY <2>1
  <1> QED
    BY <1>4

\* Where the cursor comes to stand: not behind, and nothing unfinished between.
LEMMA AdvanceFact ==
  ASSUME NEW jobs, NEW c \in 0 .. Turns
  PROVE  /\ Advance(jobs, c) \in c .. Turns
         /\ \A n \in (c + 1) .. Advance(jobs, c) : jobs[n].state \in Complete
  <1> DEFINE T == {k \in c .. Turns : k = Turns \/ jobs[k + 1].state \notin Complete}
             P(k) == /\ \A n \in (c + 1) .. k : jobs[n].state \in Complete
                     /\ k = Turns \/ jobs[k + 1].state \notin Complete
  <1>1. T \in SUBSET Nat /\ Turns \in T
    BY JobsAssumption
  <1>2. PICK m \in T : \A k \in T : m <= k
    <2> HIDE DEF T
    <2> QED BY <1>1, Least
  <1>3. m \in c .. Turns /\ (m = Turns \/ jobs[m + 1].state \notin Complete)
    OBVIOUS
  <1>4. ASSUME NEW n \in (c + 1) .. m
        PROVE  jobs[n].state \in Complete
    <2>1. n - 1 \in c .. Turns /\ n - 1 < m /\ (n - 1) + 1 = n /\ n - 1 # Turns
      BY <1>3, JobsAssumption
    <2>2. n - 1 \notin T
      BY <1>2, <2>1
    <2> QED
      BY <2>1, <2>2
  <1>5. m \in c .. Turns /\ P(m)
    BY <1>3, <1>4
  <1>6. Advance(jobs, c) = CHOOSE k \in c .. Turns : P(k)
    BY DEF Advance
  <1> HIDE DEF P, T
  <1>7. Advance(jobs, c) \in c .. Turns /\ P(Advance(jobs, c))
    BY <1>5, <1>6
  <1> QED
    BY <1>7 DEF P

-----------------------------------------------------------------------------
(* The inductive invariant of the extraction jobs. *)

States == {"absent", "PENDING", "RUNNING", "RETRY", "DEAD"} \cup Complete
JobRow == [state : States, tries : 0 .. MaxAttempts, owner : Workers \cup {None}]
Doing  == [at : {"idle", "read", "extract", "recheck", "verify", "commit"},
           n : 0 .. Turns, tries : 0 .. MaxAttempts, base : Nat]

\* A turn that has not ended has no job, and a worker is at a turn.
AbsentAhead == \A n \in Ordinals : n > turns => job[n].state = "absent"
Working     == \A w \in Workers : worker[w].at # "idle" => worker[w].n \in Ordinals

JobInv == TypeOK /\ base \in Nat /\ AbsentAhead /\ Working /\ NoHolePassed

\* What a step does to the jobs: their shape is kept, a turn that is done stays
\* as it is, and what lies ahead stays empty.
JobsGoOn ==
  /\ job' \in [Ordinals -> JobRow]
  /\ \A n \in Ordinals : job'[n].owner # None => job'[n].state = "RUNNING"
  /\ \A n \in Ordinals : job[n].state \in Complete => job'[n] = job[n]
  /\ \A n \in Ordinals : n > turns' => job'[n].state = "absent"

\* ... to the cursor,
CursorGoesOn == cursor' = cursor \/ cursor' = Advance(job', cursor)

\* ... and to the rest.
RestGoesOn ==
  /\ turns' \in turns .. Turns /\ base' \in Nat
  /\ worker' \in [Workers -> Doing]
  /\ \A w \in Workers : worker'[w].at # "idle" => worker'[w].n \in Ordinals
  /\ forgotten' \cup stored' \subseteq 1 .. turns'

LEMMA Shapes ==
  ASSUME JobInv
  PROVE  /\ job \in [Ordinals -> JobRow] /\ worker \in [Workers -> Doing]
         /\ turns \in 0 .. Turns /\ cursor \in 0 .. Turns /\ base \in Nat
         /\ forgotten \cup stored \subseteq 1 .. turns
         /\ \A n \in Ordinals : job[n].owner # None => job[n].state = "RUNNING"
  BY DEF JobInv, TypeOK, JobRow, Doing, States

\* Nothing but one job changes, and it was not done.
LEMMA OneJob ==
  ASSUME JobInv, NEW n \in Ordinals, NEW row \in JobRow,
         job' = [job EXCEPT ![n] = row], turns' \in Nat, turns <= turns', n <= turns',
         job[n].state \notin Complete, row.owner # None => row.state = "RUNNING"
  PROVE  JobsGoOn
  <1>1. /\ job \in [Ordinals -> JobRow] /\ turns \in Nat
        /\ \A k \in Ordinals : job[k].owner # None => job[k].state = "RUNNING"
        /\ \A k \in Ordinals : k > turns => job[k].state = "absent"
    BY Shapes, JobsAssumption DEF JobInv, AbsentAhead
  <1>2. job' \in [Ordinals -> JobRow] /\ job'[n] = row
        /\ \A k \in Ordinals \ {n} : job'[k] = job[k]
    BY <1>1
  <1>3. Ordinals \subseteq Nat
    BY JobsAssumption DEF Ordinals
  <1> QED
    BY <1>1, <1>2, <1>3 DEF JobsGoOn

LEMMA SameJobs ==
  ASSUME JobInv, job' = job, turns' \in Nat, turns <= turns'
  PROVE  JobsGoOn
  <1>1. Ordinals \subseteq Nat /\ turns \in Nat
    BY Shapes, JobsAssumption DEF Ordinals
  <1> QED
    BY <1>1, Shapes DEF JobsGoOn, JobInv, AbsentAhead

\* Rows as the operations write them.
LEMMA NewRow ==
  ASSUME NEW s \in States
  PROVE  /\ [Absent EXCEPT !.state = s] \in JobRow
         /\ [Absent EXCEPT !.state = s].owner = None
  BY JobsAssumption DEF JobRow, Absent

LEMMA Freed ==
  ASSUME NEW row \in JobRow, NEW s \in States
  PROVE  /\ [row EXCEPT !.state = s, !.owner = None] \in JobRow
         /\ [row EXCEPT !.state = s, !.owner = None].owner = None
  BY DEF JobRow

LEMMA Moved ==
  ASSUME NEW row \in JobRow, NEW s \in States
  PROVE  /\ [row EXCEPT !.state = s] \in JobRow
         /\ [row EXCEPT !.state = s].owner = row.owner
         /\ [row EXCEPT !.state = s].state = s
  BY DEF JobRow

LEMMA Lost ==
  ASSUME NEW row \in JobRow
  PROVE  /\ [row EXCEPT !.owner = None] \in JobRow
         /\ [row EXCEPT !.owner = None].owner = None
  BY DEF JobRow

-----------------------------------------------------------------------------
(* Operations on jobs. *)

\* A job is written for the first time, or again from the start.
LEMMA QueuedStep ==
  ASSUME JobInv, NEW n \in Ordinals, NEW s \in States, Queued(n, s),
         turns' \in Nat, turns <= turns', n <= turns', job[n].state \notin Complete
  PROVE  JobsGoOn
  <1>1. job' = [job EXCEPT ![n] = [Absent EXCEPT !.state = s]]
    BY DEF Queued
  <1> QED
    BY <1>1, NewRow, OneJob

\* The outcome of a worker that still holds its job.
LEMMA ConcludeStep ==
  ASSUME JobInv, NEW w \in Workers, worker[w].at # "idle", Holds(w), NEW s \in States,
         job' = [job EXCEPT ![worker[w].n].state = s, ![worker[w].n].owner = None],
         turns' = turns
  PROVE  JobsGoOn /\ worker[w].n \in 1 .. turns
  <1> DEFINE n == worker[w].n
  <1>1. n \in Ordinals /\ job \in [Ordinals -> JobRow] /\ turns \in Nat
    BY Shapes, JobsAssumption DEF JobInv, Working
  <1>2. job[n].state = "RUNNING" /\ Ordinals \subseteq Nat
    BY JobsAssumption DEF Holds, Ordinals
  <1>3. n <= turns
    BY <1>1, <1>2 DEF JobInv, AbsentAhead
  <1> DEFINE row == [job[n] EXCEPT !.state = s, !.owner = None]
  <1>4. job' = [job EXCEPT ![n] = row] /\ row \in JobRow /\ row.owner = None
    BY <1>1, Freed
  <1>5. job[n].state \notin Complete /\ turns' \in Nat /\ turns <= turns' /\ n <= turns'
    BY <1>1, <1>2, <1>3 DEF Complete
  <1>6. JobsGoOn
    <2> HIDE DEF n, row
    <2> QED BY <1>1, <1>4, <1>5, OneJob
  <1> QED
    BY <1>1, <1>3, <1>6, JobsAssumption DEF Ordinals

LEMMA FailStep ==
  ASSUME JobInv, NEW w \in Workers, worker[w].at # "idle", NEW s \in States,
         FailJob(w, s), turns' = turns
  PROVE  JobsGoOn /\ CursorGoesOn
  <1>1. CASE Holds(w)
    BY <1>1, ConcludeStep DEF FailJob, CursorGoesOn
  <1>2. CASE ~Holds(w)
    <2>1. job' = job /\ cursor' = cursor /\ turns \in Nat
      BY <1>2, Shapes, JobsAssumption DEF FailJob
    <2> QED
      BY <2>1, SameJobs DEF CursorGoesOn
  <1> QED
    BY <1>1, <1>2

\* A worker lets go, or moves on.
LEMMA DropStep ==
  ASSUME JobInv, NEW w \in Workers, Drop(w)
  PROVE  /\ worker' \in [Workers -> Doing]
         /\ \A v \in Workers : worker'[v].at # "idle" => worker'[v].n \in Ordinals
  <1>1. worker \in [Workers -> Doing]
    BY Shapes
  <1>2. Idle \in Doing /\ Idle.at = "idle"
    BY JobsAssumption DEF Idle, Doing
  <1>3. worker'[w] = Idle /\ \A v \in Workers \ {w} : worker'[v] = worker[v]
    BY <1>1 DEF Drop
  <1>4. worker' \in [Workers -> Doing]
    BY <1>1, <1>2 DEF Drop
  <1> QED
    BY <1>2, <1>3, <1>4 DEF JobInv, Working

LEMMA MoveStep ==
  ASSUME JobInv, NEW w \in Workers, worker[w].at # "idle", NEW doing \in Doing,
         worker' = [worker EXCEPT ![w] = doing], doing.n \in Ordinals
  PROVE  /\ worker' \in [Workers -> Doing]
         /\ \A v \in Workers : worker'[v].at # "idle" => worker'[v].n \in Ordinals
  <1>1. worker \in [Workers -> Doing]
    BY Shapes
  <1>2. worker'[w] = doing /\ \A v \in Workers \ {w} : worker'[v] = worker[v]
    BY <1>1
  <1> QED
    BY <1>1, <1>2 DEF JobInv, Working

LEMMA GoStep ==
  ASSUME JobInv, NEW w \in Workers, worker[w].at # "idle",
         NEW p \in {"read", "extract", "recheck", "verify", "commit"}, Go(w, p)
  PROVE  /\ worker' \in [Workers -> Doing]
         /\ \A v \in Workers : worker'[v].at # "idle" => worker'[v].n \in Ordinals
  <1>1. worker[w] \in Doing /\ worker \in [Workers -> Doing] /\ worker[w].n \in Ordinals
    BY Shapes DEF JobInv, Working
  <1>2. worker' = [worker EXCEPT ![w] = [worker[w] EXCEPT !.at = p]]
    BY <1>1 DEF Go
  <1>3. [worker[w] EXCEPT !.at = p] \in Doing
        /\ [worker[w] EXCEPT !.at = p].n = worker[w].n
    BY <1>1 DEF Doing
  <1> QED
    BY <1>1, <1>2, <1>3, MoveStep

-----------------------------------------------------------------------------
(* Every step goes on. *)

GoesOn == JobsGoOn /\ CursorGoesOn /\ RestGoesOn

LEMMA RecordStep ==
  ASSUME JobInv, Record \/ RecoverInbox
  PROVE  GoesOn
  <1>1. /\ turns \in Nat /\ turns + 1 \in Ordinals /\ turns' = turns + 1 /\ turns' \in turns .. Turns
        /\ forgotten' = forgotten /\ stored' = stored /\ worker' = worker /\ base' = base
    BY Shapes, JobsAssumption DEF Record, RecoverInbox, Ordinals
  <1>2. job[turns + 1].state \notin Complete
    BY <1>1 DEF JobInv, AbsentAhead, Complete
  <1>3. {"PENDING", "CANCELLED"} \subseteq States
    BY DEF States, Complete
  <1>4. RestGoesOn
    <2>1. forgotten \cup stored \subseteq 1 .. turns'
      BY <1>1, Shapes
    <2> QED
      BY <1>1, <2>1, Shapes DEF RestGoesOn, JobInv, Working
  <1>5. CursorGoesOn
    BY DEF Record, RecoverInbox, CursorGoesOn
  <1>6. \/ job' = job
        \/ \E s \in {"PENDING", "CANCELLED"} : Queued(turns + 1, s)
    BY DEF Record, RecoverInbox
  <1>7. JobsGoOn
    BY <1>1, <1>2, <1>3, <1>6, SameJobs, QueuedStep
  <1> QED
    BY <1>4, <1>5, <1>7 DEF GoesOn

\* Steps that leave workers, turns and what is stored alone.
LEMMA StillRest ==
  ASSUME JobInv, UNCHANGED <<turns, worker, base, forgotten, stored>>
  PROVE  RestGoesOn
  <1>1. turns \in turns .. Turns
    BY Shapes, JobsAssumption
  <1> QED
    BY <1>1, Shapes DEF RestGoesOn, JobInv, Working

LEMMA OperatorStep ==
  ASSUME JobInv, NEW n \in Ordinals, Recover(n) \/ Expire(n) \/ Dismiss(n) \/ Replay(n)
  PROVE  GoesOn
  <1>1. RestGoesOn /\ CursorGoesOn
    BY StillRest DEF Recover, Expire, Dismiss, Replay, CursorGoesOn
  <1>2. /\ turns' = turns /\ turns \in Nat /\ job \in [Ordinals -> JobRow] /\ job[n] \in JobRow
        /\ n \in Nat
    BY Shapes, JobsAssumption DEF Recover, Expire, Dismiss, Replay, Ordinals
  <1>3. {"PENDING", "CANCELLED"} \subseteq States
    BY DEF States, Complete
  <1>4. job[n].state \notin Complete
    BY DEF Recover, Expire, Dismiss, Replay, Complete
  <1>5. n <= turns
    BY <1>2 DEF Recover, Expire, Dismiss, Replay, JobInv, AbsentAhead
  <1>a. turns' \in Nat /\ turns <= turns' /\ n <= turns'
    BY <1>2, <1>5
  <1>6. CASE Recover(n) \/ Replay(n)
    <2>1. Queued(n, "PENDING")
      BY <1>6 DEF Recover, Replay, Queued
    <2> QED
      BY <2>1, <1>1, <1>2, <1>3, <1>4, <1>5, QueuedStep DEF GoesOn
  <1>7. CASE Expire(n)
    <2> DEFINE row == [job[n] EXCEPT !.owner = None]
    <2>1. job' = [job EXCEPT ![n] = row] /\ row \in JobRow /\ row.owner = None
      BY <1>2, <1>7, Lost DEF Expire
    <2> HIDE DEF row
    <2>9. JobsGoOn
      BY <2>1, <1>a, <1>4, OneJob
    <2> QED
      BY <2>9, <1>1 DEF GoesOn
  <1>8. CASE Dismiss(n)
    <2> DEFINE row == [job[n] EXCEPT !.state = "CANCELLED"]
    <2>1. job[n].owner = None
      BY <1>8, Shapes DEF Dismiss
    <2>2. job' = [job EXCEPT ![n] = row] /\ row \in JobRow /\ row.owner = None
      BY <1>2, <1>3, <1>8, <2>1, Moved DEF Dismiss
    <2> HIDE DEF row
    <2>9. JobsGoOn
      BY <2>2, <1>a, <1>4, OneJob
    <2> QED
      BY <2>9, <1>1 DEF GoesOn
  <1> QED
    BY <1>6, <1>7, <1>8

LEMMA PersonStep ==
  ASSUME JobInv, Edit \/ Pause \/ Resume \/ Delete \/ \E n \in Ordinals : Forget(n)
  PROVE  GoesOn
  <1>1. /\ job' = job /\ cursor' = cursor /\ turns' = turns /\ worker' = worker
        /\ stored' = stored /\ (base' = base \/ base' = base + 1)
    BY DEF Edit, Pause, Resume, Delete, Forget
  <1>2. forgotten' \cup stored \subseteq 1 .. turns
    <2>1. CASE forgotten' = forgotten
      BY <2>1, Shapes
    <2>2. CASE \E n \in Ordinals : Forget(n)
      <3>1. PICK n \in Ordinals : n <= turns /\ forgotten' = forgotten \cup {n}
        BY <2>2 DEF Forget
      <3>2. n \in 1 .. turns
        BY <3>1, Shapes, JobsAssumption DEF Ordinals
      <3> QED
        BY <3>1, <3>2, Shapes
    <2> QED
      BY <2>1, <2>2 DEF Edit, Pause, Resume, Delete
  <1>3. turns \in Nat /\ base' \in Nat /\ turns \in turns .. Turns
    BY <1>1, Shapes, JobsAssumption
  <1>4. RestGoesOn
    BY <1>1, <1>2, <1>3, Shapes DEF RestGoesOn, JobInv, Working
  <1> QED
    BY <1>1, <1>3, <1>4, SameJobs DEF GoesOn, CursorGoesOn

\* What claim_job buries was running and nobody's.
LEMMA BuriedFact ==
  ASSUME JobInv
  PROVE  /\ Buried \in [Ordinals -> JobRow]
         /\ \A n \in Ordinals : Buried[n].owner # None => Buried[n].state = "RUNNING"
         /\ \A n \in Ordinals : job[n].state \in Complete \cup {"absent"} => Buried[n] = job[n]
  <1>1. "DEAD" \in States
    BY DEF States
  <1>2. ASSUME NEW n \in Ordinals
        PROVE  /\ Buried[n] \in JobRow
               /\ Buried[n].owner # None => Buried[n].state = "RUNNING"
               /\ job[n].state \in Complete \cup {"absent"} => Buried[n] = job[n]
    <2>1. job[n] \in JobRow /\ (job[n].owner # None => job[n].state = "RUNNING")
      BY Shapes
    <2>2. CASE Exhausted(n)
      <3>1. job[n].state = "RUNNING" /\ job[n].owner = None
        BY <2>2 DEF Exhausted, Lapsed
      <3>2. Buried[n] = [job[n] EXCEPT !.state = "DEAD"]
        BY <2>2 DEF Buried
      <3>3. Buried[n] \in JobRow /\ Buried[n].owner = job[n].owner
        BY <3>2, <2>1, <1>1, Moved
      <3> QED
        BY <3>1, <3>3 DEF Complete
    <2>3. CASE ~Exhausted(n)
      BY <2>1, <2>3 DEF Buried
    <2> QED
      BY <2>2, <2>3
  <1>3. Buried \in [Ordinals -> JobRow]
    BY <1>2 DEF Buried
  <1> QED
    BY <1>2, <1>3

LEMMA TakeableFact ==
  ASSUME NEW n \in Ordinals, Takeable(n)
  PROVE  job[n].state \in {"PENDING", "RETRY", "RUNNING"} /\ job[n].tries < MaxAttempts
  BY DEF Takeable, Due, Lapsed

LEMMA ClaimStep ==
  ASSUME JobInv, NEW w \in Workers, Claim(w)
  PROVE  GoesOn
  <1>u. /\ turns' = turns /\ cursor' = cursor /\ base' = base /\ forgotten' = forgotten
        /\ stored' = stored
    BY DEF Claim
  <1>0. /\ turns' = turns /\ cursor' = cursor /\ base' = base /\ forgotten' = forgotten
        /\ stored' = stored /\ turns \in Nat /\ Ordinals \subseteq Nat
        /\ turns \in turns .. Turns
    BY <1>u, Shapes, JobsAssumption DEF Ordinals
  <1>a. \A k \in Ordinals : k > turns => Buried[k].state = "absent"
    BY BuriedFact DEF JobInv, AbsentAhead
  <1>1. CursorGoesOn
    BY <1>0 DEF CursorGoesOn
  <1>2. CASE \E n \in Ordinals :
               /\ Takeable(n)
               /\ job' = [Buried EXCEPT ![n] =
                    [state |-> "RUNNING", tries |-> job[n].tries + 1, owner |-> w]]
               /\ worker' = [worker EXCEPT ![w] =
                    [at |-> "read", n |-> n, tries |-> job[n].tries + 1, base |-> 0]]
    <2>1. PICK n \in Ordinals :
               /\ Takeable(n)
               /\ job' = [Buried EXCEPT ![n] =
                    [state |-> "RUNNING", tries |-> job[n].tries + 1, owner |-> w]]
               /\ worker' = [worker EXCEPT ![w] =
                    [at |-> "read", n |-> n, tries |-> job[n].tries + 1, base |-> 0]]
      BY <1>2
    <2> DEFINE row == [state |-> "RUNNING", tries |-> job[n].tries + 1, owner |-> w]
               doing == [at |-> "read", n |-> n, tries |-> job[n].tries + 1, base |-> 0]
    <2>2. job[n].tries \in 0 .. MaxAttempts /\ job[n].tries < MaxAttempts
      BY <2>1, Shapes, TakeableFact DEF JobRow
    <2>3. row \in JobRow /\ row.state = "RUNNING"
      BY <2>2, JobsAssumption DEF JobRow, States
    <2>4. doing \in Doing /\ doing.n = n
      BY <2>2, JobsAssumption DEF Doing, Ordinals
    <2>5. job[n].state \notin Complete /\ n <= turns
      <3>1. job[n].state \notin Complete \cup {"absent"}
        BY <2>1, TakeableFact DEF Complete
      <3> QED
        BY <3>1, <1>0 DEF JobInv, AbsentAhead
    <2>6. job' = [Buried EXCEPT ![n] = row] /\ worker' = [worker EXCEPT ![w] = doing]
      BY <2>1
    <2> HIDE DEF row, doing
    <2>7. job'[n] = row /\ (\A k \in Ordinals \ {n} : job'[k] = Buried[k])
          /\ job' \in [Ordinals -> JobRow]
      BY <2>3, <2>6, BuriedFact
    <2>8. JobsGoOn
      BY <2>7, <2>5, <2>3, <1>0, <1>a, BuriedFact DEF JobsGoOn
    <2>9. /\ worker' \in [Workers -> Doing]
          /\ \A v \in Workers : worker'[v].at # "idle" => worker'[v].n \in Ordinals
      BY <2>6, <2>4, Shapes DEF JobInv, Working
    <2>10. RestGoesOn
      BY <2>9, <1>0, Shapes DEF RestGoesOn
    <2> QED
      BY <1>1, <2>8, <2>10 DEF GoesOn
  <1>3. CASE /\ job' = [n \in Ordinals |->
                  IF Takeable(n) THEN [job[n] EXCEPT !.state = "CANCELLED", !.owner = None]
                  ELSE Buried[n]]
             /\ UNCHANGED worker
    <2>1. "CANCELLED" \in States
      BY DEF States, Complete
    <2>2. ASSUME NEW n \in Ordinals
          PROVE  /\ job'[n] \in JobRow
                 /\ job'[n].owner # None => job'[n].state = "RUNNING"
                 /\ job[n].state \in Complete \cup {"absent"} => job'[n] = job[n]
      <3>1. CASE Takeable(n)
        <4>1. job'[n] = [job[n] EXCEPT !.state = "CANCELLED", !.owner = None]
          BY <3>1, <1>3
        <4>2. job[n].state \notin Complete \cup {"absent"}
          BY <3>1, TakeableFact DEF Complete
        <4>3. job'[n] \in JobRow /\ job'[n].owner = None
          <5>1. job[n] \in JobRow
            BY Shapes
          <5> QED
            BY <4>1, <2>1, <5>1, Freed
        <4> QED
          BY <4>2, <4>3
      <3>2. CASE ~Takeable(n)
        <4>1. job'[n] = Buried[n]
          BY <3>2, <1>3
        <4> QED
          BY <4>1, BuriedFact
      <3> QED
        BY <3>1, <3>2
    <2>3. job' \in [Ordinals -> JobRow]
      <3>1. job' = [n \in Ordinals |-> job'[n]]
        BY <1>3
      <3> QED
        BY <2>2, <3>1
    <2>4. JobsGoOn
      BY <2>2, <2>3, <1>0 DEF JobsGoOn, JobInv, AbsentAhead
    <2>5. RestGoesOn
      BY <1>0, <1>3, StillRest
    <2> QED
      BY <1>1, <2>4, <2>5 DEF GoesOn
  <1> QED
    BY <1>2, <1>3 DEF Claim

\* Steps of a worker between its claim and its end.
LEMMA OutcomesAreStates ==
  ASSUME NEW w \in Workers
  PROVE  {"CANCELLED", "DEAD", "SUCCEEDED", AfterError(w)} \subseteq States
  BY DEF States, Complete, AfterError

\* The worker ends, whatever it wrote.
LEMMA EndRest ==
  ASSUME JobInv, NEW w \in Workers, Drop(w), UNCHANGED <<turns, base, forgotten, stored>>
  PROVE  RestGoesOn
  <1>1. turns \in turns .. Turns
    BY Shapes, JobsAssumption
  <1> QED
    BY <1>1, DropStep, Shapes DEF RestGoesOn

\* The worker goes on, and nothing is written.
LEMMA GoRest ==
  ASSUME JobInv, UNCHANGED <<turns, base, forgotten, stored, job, cursor>>,
         worker' \in [Workers -> Doing],
         \A v \in Workers : worker'[v].at # "idle" => worker'[v].n \in Ordinals
  PROVE  GoesOn
  <1>1. turns \in turns .. Turns /\ turns \in Nat
    BY Shapes, JobsAssumption
  <1> QED
    BY <1>1, SameJobs, Shapes DEF RestGoesOn, GoesOn, CursorGoesOn

LEMMA FailGoesOn ==
  ASSUME JobInv, NEW w \in Workers, worker[w].at # "idle", NEW s \in States, FailJob(w, s),
         UNCHANGED <<turns, base, forgotten, stored>>
  PROVE  GoesOn
  <1>1. Drop(w)
    BY DEF FailJob, Drop
  <1> QED
    BY <1>1, FailStep, EndRest DEF GoesOn

LEMMA DropGoesOn ==
  ASSUME JobInv, NEW w \in Workers, Drop(w),
         UNCHANGED <<turns, base, forgotten, stored, job, cursor>>
  PROVE  GoesOn
  BY DropStep, GoRest

LEMMA ReadStep ==
  ASSUME JobInv, NEW w \in Workers, Read(w)
  PROVE  GoesOn
  <1>1. UNCHANGED <<turns, base, forgotten, stored>> /\ worker[w].at = "read"
    BY DEF Read
  <1>2. CASE Drop(w) /\ UNCHANGED <<job, cursor>>
    BY <1>1, <1>2, DropGoesOn
  <1>3. CASE FailJob(w, "CANCELLED")
    BY <1>1, <1>3, FailGoesOn, OutcomesAreStates
  <1>4. CASE /\ worker' = [worker EXCEPT ![w].at = "extract", ![w].base = base]
             /\ UNCHANGED <<job, cursor>>
    <2> DEFINE doing == [worker[w] EXCEPT !.at = "extract", !.base = base]
    <2>1. worker[w] \in Doing /\ worker \in [Workers -> Doing] /\ base \in Nat
          /\ worker[w].n \in Ordinals
      BY <1>1, Shapes DEF JobInv, Working
    <2>2. doing \in Doing /\ doing.n = worker[w].n
      BY <2>1 DEF Doing
    <2>3. worker' = [worker EXCEPT ![w] = doing]
      BY <1>4, <2>1
    <2> HIDE DEF doing
    <2>4. /\ worker' \in [Workers -> Doing]
          /\ \A v \in Workers : worker'[v].at # "idle" => worker'[v].n \in Ordinals
      BY <1>1, <2>1, <2>2, <2>3, MoveStep
    <2> QED
      BY <2>4, <1>1, <1>4, GoRest
  <1> QED
    BY <1>2, <1>3, <1>4 DEF Read

LEMMA ExtractStep ==
  ASSUME JobInv, NEW w \in Workers, Extract(w)
  PROVE  GoesOn
  BY GoStep, GoRest DEF Extract

LEMMA RaiseStep ==
  ASSUME JobInv, NEW w \in Workers, Raise(w)
  PROVE  GoesOn
  BY FailGoesOn, OutcomesAreStates DEF Raise

\* A check that refuses.
LEMMA RefusedStep ==
  ASSUME JobInv, NEW w \in Workers, worker[w].at # "idle", Checked(w, FALSE),
         UNCHANGED <<turns, forgotten>>
  PROVE  GoesOn
  <1>1. UNCHANGED <<base, stored>>
    BY DEF Checked
  <1>2. CASE Drop(w) /\ UNCHANGED <<job, cursor>>
    BY <1>1, <1>2, DropGoesOn
  <1>3. CASE \E s \in {AfterError(w), "CANCELLED"} : FailJob(w, s)
    BY <1>1, <1>3, FailGoesOn, OutcomesAreStates
  <1> QED
    BY <1>2, <1>3 DEF Checked

LEMMA RecheckStep ==
  ASSUME JobInv, NEW w \in Workers, Recheck(w)
  PROVE  GoesOn
  <1>1. UNCHANGED <<turns, forgotten>> /\ worker[w].at = "recheck"
    BY DEF Recheck
  <1>2. Checked(w, FALSE) \/ Verify(w)
    BY DEF Recheck, Checked
  <1>3. CASE Verify(w)
    BY <1>1, <1>3, GoStep, GoRest DEF Verify
  <1> QED
    BY <1>1, <1>2, <1>3, RefusedStep

LEMMA CommitStep ==
  ASSUME JobInv, NEW w \in Workers, Commit(w)
  PROVE  GoesOn
  <1>1. UNCHANGED <<turns, forgotten>> /\ worker[w].at = "commit"
    BY DEF Commit
  <1>2. Checked(w, FALSE) \/ (Holds(w) /\ Store(w))
    BY DEF Commit, Checked
  <1>3. CASE Holds(w) /\ Store(w)
    <2>1. JobsGoOn /\ worker[w].n \in 1 .. turns
      BY <1>1, <1>3, ConcludeStep, OutcomesAreStates DEF Store
    <2>2. CursorGoesOn
      BY <1>3 DEF Store, CursorGoesOn
    <2>3. stored' \subseteq 1 .. turns /\ base' \in Nat
      BY <1>3, <2>1, Shapes DEF Store
    <2>4. /\ worker' \in [Workers -> Doing]
          /\ \A v \in Workers : worker'[v].at # "idle" => worker'[v].n \in Ordinals
      BY <1>3, DropStep DEF Store
    <2>5. turns \in turns .. Turns
      BY Shapes, JobsAssumption
    <2>6. RestGoesOn
      BY <1>1, <2>3, <2>4, <2>5, Shapes DEF RestGoesOn
    <2> QED
      BY <2>1, <2>2, <2>6 DEF GoesOn
  <1> QED
    BY <1>1, <1>2, <1>3, RefusedStep

LEMMA CrashStep ==
  ASSUME JobInv, NEW w \in Workers, Crash(w)
  PROVE  GoesOn
  BY DropGoesOn DEF Crash

LEMMA EveryStep ==
  ASSUME JobInv, Next
  PROVE  GoesOn
  BY RecordStep, OperatorStep, PersonStep, ClaimStep, ReadStep, ExtractStep, RaiseStep,
     RecheckStep, CommitStep, CrashStep DEF Next, Work

-----------------------------------------------------------------------------
LEMMA JobInitially == Init => JobInv
  <1> SUFFICES ASSUME Init PROVE JobInv
    OBVIOUS
  <1>1. turns = 0 /\ cursor = 0 /\ base = 0 /\ forgotten = {} /\ stored = {}
        /\ job = [n \in Ordinals |-> Absent] /\ worker = [w \in Workers |-> Idle]
    BY DEF Init
  <1>2. Absent \in JobRow /\ Absent.owner = None /\ Absent.state = "absent"
    BY JobsAssumption DEF Absent, JobRow, States
  <1>3. Idle \in Doing /\ Idle.at = "idle"
    BY JobsAssumption DEF Idle, Doing
  <1>4. 0 \in 0 .. Turns /\ 1 .. 0 = {}
    BY JobsAssumption
  <1>5. TypeOK
    BY <1>1, <1>2, <1>3, <1>4 DEF TypeOK, JobRow, Doing, States
  <1>6. AbsentAhead /\ Working /\ NoHolePassed /\ base \in Nat
    BY <1>1, <1>2, <1>3, <1>4 DEF AbsentAhead, Working, NoHolePassed
  <1> QED
    BY <1>5, <1>6 DEF JobInv

LEMMA JobInductive == JobInv /\ [Next]_vars => JobInv'
  <1> SUFFICES ASSUME JobInv, [Next]_vars PROVE JobInv'
    OBVIOUS
  <1>1. CASE Next
    <2>1. JobsGoOn /\ CursorGoesOn /\ RestGoesOn
      BY <1>1, EveryStep DEF GoesOn
    <2>2. turns \in 0 .. Turns /\ cursor \in 0 .. Turns
      BY Shapes
    <2>3. /\ cursor' \in cursor .. Turns /\ cursor \in 0 .. Turns
          /\ \A n \in (cursor + 1) .. cursor' : job'[n].state \in Complete
      <3>1. CASE cursor' = cursor
        BY <3>1, <2>2, JobsAssumption
      <3>2. CASE cursor' = Advance(job', cursor)
        BY <3>2, <2>2, AdvanceFact
      <3> QED
        BY <3>1, <3>2, <2>1 DEF CursorGoesOn
    <2>4. ASSUME NEW n \in 1 .. cursor' PROVE job'[n].state \in Complete
      <3>1. CASE n \in 1 .. cursor
        <4>1. n \in Ordinals /\ job[n].state \in Complete
          BY <3>1, <2>2, JobsAssumption DEF JobInv, NoHolePassed, Ordinals
        <4> QED
          BY <4>1, <2>1 DEF JobsGoOn
      <3>2. CASE n \notin 1 .. cursor
        <4>1. n \in (cursor + 1) .. cursor'
          BY <3>2, <2>3, JobsAssumption
        <4> QED
          BY <4>1, <2>3
      <3> QED
        BY <3>1, <3>2
    <2>5. turns' \in 0 .. Turns /\ cursor' \in 0 .. Turns
      BY <2>1, <2>2, <2>3, JobsAssumption DEF RestGoesOn
    <2>6. TypeOK'
      BY <2>1, <2>5 DEF TypeOK, JobsGoOn, RestGoesOn, JobRow, Doing, States
    <2>7. (base \in Nat)' /\ AbsentAhead' /\ Working'
      BY <2>1 DEF AbsentAhead, Working, JobsGoOn, RestGoesOn
    <2>8. NoHolePassed'
      BY <2>4 DEF NoHolePassed
    <2> QED
      BY <2>6, <2>7, <2>8 DEF JobInv
  <1>2. CASE UNCHANGED vars
    BY <1>2 DEF vars, JobInv, TypeOK, AbsentAhead, Working, NoHolePassed
  <1> QED
    BY <1>1, <1>2

\* The cursor of a branch stands before the first turn that is not done, for
\* any number of turns and workers, whatever dies, is replayed, dismissed or
\* overtaken (completed_ordinal in memory/jobs.py).
THEOREM CursorSafe == Spec => []CursorSound
  <1>1. Init => JobInv
    BY JobInitially
  <1>2. JobInv /\ [Next]_vars => JobInv'
    BY JobInductive
  <1>3. JobInv => CursorSound
    BY DEF JobInv, CursorSound
  <1> QED
    BY <1>1, <1>2, <1>3, PTL DEF Spec

-----------------------------------------------------------------------------
(* Who comes late, on the side of the jobs. *)

LEMMA DoneStep ==
  ASSUME JobInv, [Next]_vars, NEW n \in Ordinals, job[n].state \in Complete
  PROVE  job'[n] = job[n]
  <1>1. CASE Next
    BY <1>1, EveryStep DEF GoesOn, JobsGoOn
  <1>2. CASE UNCHANGED vars
    BY <1>2 DEF vars
  <1> QED
    BY <1>1, <1>2

LEMMA StoredStep ==
  ASSUME JobInv, [Next]_vars, NEW n \in stored' \ stored
  PROVE  /\ n \notin forgotten /\ ~paused /\ ~deleted
         /\ \E w \in Workers : worker[w].n = n /\ worker[w].base = base
  <1>1. stored' # stored
    OBVIOUS
  <1>2. \E w \in Workers : Commit(w)
    BY <1>1 DEF Next, Work, vars, Record, RecoverInbox, Edit, Pause, Resume, Delete, Recover,
       Expire, Forget, Dismiss, Replay, Claim, Read, Extract, Raise, Recheck, Checked, Verify, Crash
  <1>3. PICK w \in Workers : Commit(w)
    BY <1>2
  <1>4. Holds(w) /\ Valid(worker[w].n) /\ worker[w].base = base /\ Store(w)
    BY <1>1, <1>3 DEF Commit, Checked
  <1>5. n = worker[w].n
    BY <1>4 DEF Store
  <1> QED
    BY <1>4, <1>5 DEF Valid

-----------------------------------------------------------------------------
(* The search index: a delivery whose grace period is over writes no more. *)

RowStates == {"PENDING", "RETRY", "RUNNING", "DEAD", "SUCCEEDED", "CANCELLED"}
IndexRow  == [op : {"UPSERT", "DELETE"}, rev : Nat, status : RowStates, tries : Nat,
              lease : X!Leases, seen : (SUBSET Nat) \cup {None}]
CourierPoints == {"idle", "start", "embedded", "ready", "sent", "wrote", "prune", "undo",
                  "purge", "indexed", "ineligible", "deleted"}
Delivery  == [at : CourierPoints, e : X!Slots \cup {None}]

IndexState == [desired : Nat, indexed : Nat,
               status : {"PENDING", "DELETE_PENDING", "INDEXED", "INELIGIBLE", "DELETED",
                         "RETRY", "DEAD"}]
Look == [at : {"idle", "look", "repair"}, rev : Nat, live : BOOLEAN, fits : BOOLEAN,
         seen : SUBSET Nat]

RowTypes     == rows \in [X!Slots -> IndexRow]
CourierTypes == /\ courier \in [Workers -> Delivery]
                /\ \A w \in Workers : courier[w].at # "idle" => courier[w].e \in X!Slots
ValueTypes   == /\ rev \in Nat /\ points \subseteq Nat
                /\ idx \in IndexState
                /\ scan \in Look

Graced(table, e) == table[e].status = "RUNNING" /\ table[e].lease = "graced"
GracedQuiet == \A e \in X!Slots : Graced(rows, e) => ~X!WriteUnderWay(e)

IndexInv == RowTypes /\ CourierTypes /\ ValueTypes /\ GracedQuiet

\* A table no row of which got its grace period in this step.
Tame(table) == /\ table \in [X!Slots -> IndexRow]
               /\ \A e \in X!Slots : Graced(table, e) => Graced(rows, e)

LEMMA TameOne ==
  ASSUME NEW table, Tame(table), NEW e \in X!Slots, NEW row \in IndexRow,
         row.status # "RUNNING" \/ row.lease # "graced"
  PROVE  Tame([table EXCEPT ![e] = row])
  <1> DEFINE t == [table EXCEPT ![e] = row]
  <1>1. t \in [X!Slots -> IndexRow] /\ t[e] = row /\ \A d \in X!Slots \ {e} : t[d] = table[d]
    BY DEF Tame
  <1> HIDE DEF t
  <1>2. Tame(t)
    BY <1>1 DEF Tame, Graced
  <1> QED
    BY <1>2 DEF t

LEMMA TameRows == RowTypes => Tame(rows)
  BY DEF RowTypes, Tame

\* Rows as the operations write them.
LEMMA EventRow ==
  ASSUME NEW op \in {"UPSERT", "DELETE"}, NEW r \in Nat, NEW seen \in (SUBSET Nat) \cup {None}
  PROVE  X!Event(op, r, seen) \in IndexRow /\ X!Event(op, r, seen).status = "PENDING"
  BY DEF X!Event, X!NoRow, IndexRow, RowStates, X!Leases

LEMMA DoneRow ==
  ASSUME NEW row \in IndexRow, NEW st \in {"SUCCEEDED", "CANCELLED"}
  PROVE  X!Done(row, st) \in IndexRow /\ X!Done(row, st).status = st
  <1>1. None \in X!Leases /\ st \in RowStates /\ None \in (SUBSET Nat) \cup {None}
    BY DEF X!Leases, RowStates
  <1> QED
    BY <1>1 DEF X!Done, IndexRow

LEMMA EndedRow ==
  ASSUME NEW row \in IndexRow, NEW st \in {"CANCELLED", "DEAD", "RETRY"}
  PROVE  /\ [row EXCEPT !.status = st, !.lease = None] \in IndexRow
         /\ [row EXCEPT !.status = st, !.lease = None].status = st
  BY DEF IndexRow, RowStates, X!Leases

LEMMA LeaseRow ==
  ASSUME NEW row \in IndexRow, NEW l \in X!Leases
  PROVE  /\ [row EXCEPT !.lease = l] \in IndexRow
         /\ [row EXCEPT !.lease = l].lease = l
  BY DEF IndexRow

LEMMA TakenRow ==
  ASSUME NEW row \in IndexRow, NEW w \in Workers
  PROVE  /\ [row EXCEPT !.status = "RUNNING", !.lease = w, !.tries = row.tries + 1] \in IndexRow
         /\ [row EXCEPT !.status = "RUNNING", !.lease = w, !.tries = row.tries + 1].lease = w
  <1>1. w \in X!Leases /\ "RUNNING" \in RowStates /\ row.tries + 1 \in Nat
    BY DEF X!Leases, RowStates, IndexRow
  <1> QED
    BY <1>1 DEF IndexRow

LEMMA TameTables ==
  ASSUME RowTypes
  PROVE  Tame(X!Superseded) /\ Tame(X!Buried) /\ Tame(X!Cleared)
  <1>1. ASSUME NEW e \in X!Slots PROVE rows[e] \in IndexRow
    BY DEF RowTypes
  <1>2. Tame(X!Superseded)
    <2>1. ASSUME NEW e \in X!Slots
          PROVE  X!Superseded[e] \in IndexRow
                 /\ (X!Superseded[e] = rows[e] \/ X!Superseded[e].status = "CANCELLED")
      BY <1>1, DoneRow DEF X!Superseded
    <2>2. X!Superseded \in [X!Slots -> IndexRow]
      BY <2>1 DEF X!Superseded
    <2> QED
      BY <2>1, <2>2 DEF Tame, Graced
  <1>3. Tame(X!Buried)
    <2>1. ASSUME NEW e \in X!Slots
          PROVE  X!Buried[e] \in IndexRow
                 /\ (X!Buried[e] = rows[e] \/ X!Buried[e].status = "DEAD")
      BY <1>1, EndedRow DEF X!Buried
    <2>2. X!Buried \in [X!Slots -> IndexRow]
      BY <2>1 DEF X!Buried
    <2> QED
      BY <2>1, <2>2 DEF Tame, Graced
  <1>4. Tame(X!Cleared)
    <2>1. ASSUME NEW e \in X!Slots
          PROVE  X!Cleared[e] \in IndexRow
                 /\ (X!Cleared[e] = rows[e] \/ X!Cleared[e].status \in {"CANCELLED", "SUCCEEDED"})
      BY <1>1, DoneRow DEF X!Cleared
    <2>2. X!Cleared \in [X!Slots -> IndexRow]
      BY <2>1 DEF X!Cleared
    <2> QED
      BY <2>1, <2>2 DEF Tame, Graced
  <1> QED
    BY <1>2, <1>3, <1>4

\* An event is queued in a row that is free.
LEMMA AddTame ==
  ASSUME NEW table, Tame(table), NEW event \in IndexRow, event.status = "PENDING",
         X!Add(table, event)
  PROVE  Tame(rows')
  <1>1. X!FreeRow \in X!Slots
    BY DEF X!Add, X!FreeRow
  <1>2. rows' = [table EXCEPT ![X!FreeRow] = event]
    BY DEF X!Add
  <1> QED
    BY <1>1, <1>2, TameOne

-----------------------------------------------------------------------------
(* What a step does to the writes under way, and to the rows. *)

\* A write gets under way only by the holder of the row.
WritesGoOn ==
  /\ CourierTypes'
  /\ \A e \in X!Slots :
       X!WriteUnderWay(e)' => \/ X!WriteUnderWay(e)
                             \/ /\ rows' = rows
                                /\ \E w \in Workers : courier[w].e = e /\ X!Holds(w)

\* A row gets its grace period only when no write is under way.
RowsGoOn ==
  \/ Tame(rows')
  \/ /\ rows' \in [X!Slots -> IndexRow] /\ UNCHANGED <<late, courier>>
     /\ \A e \in X!Slots : Graced(rows', e) => Graced(rows, e) \/ ~X!WriteUnderWay(e)

LEMMA QuietKept ==
  ASSUME IndexInv, WritesGoOn, RowsGoOn
  PROVE  RowTypes' /\ GracedQuiet'
  <1>1. RowTypes'
    BY DEF RowsGoOn, Tame, RowTypes
  <1>2. ASSUME NEW e \in X!Slots, Graced(rows', e), X!WriteUnderWay(e)'
        PROVE  FALSE
    <2>1. CASE Graced(rows, e)
      <3>1. ~X!WriteUnderWay(e)
        BY <2>1 DEF IndexInv, GracedQuiet
      <3>2. PICK w \in Workers : courier[w].e = e /\ X!Holds(w)
        BY <1>2, <3>1 DEF WritesGoOn
      <3>3. rows[e].lease = w
        BY <3>2 DEF X!Holds
      <3> QED
        BY <2>1, <3>3, IndexAssumption DEF Graced
    <2>2. CASE ~Graced(rows, e)
      <3>1. UNCHANGED <<late, courier>> /\ ~X!WriteUnderWay(e)
        BY <1>2, <2>2 DEF RowsGoOn, Tame
      <3> QED
        BY <1>2, <3>1 DEF X!WriteUnderWay
    <2> QED
      BY <2>1, <2>2
  <1> QED
    BY <1>1, <1>2 DEF GracedQuiet, Graced

LEMMA SameWrites ==
  ASSUME IndexInv, UNCHANGED <<courier, late>>
  PROVE  WritesGoOn
  BY DEF IndexInv, CourierTypes, WritesGoOn, X!WriteUnderWay

LEMMA SameRows ==
  ASSUME IndexInv, rows' = rows
  PROVE  RowsGoOn
  BY TameRows DEF IndexInv, RowsGoOn

\* A worker lets go; a write it was at may still arrive.
LEMMA LetGo ==
  ASSUME IndexInv, NEW w \in Workers, X!Drop(w),
         \/ late' = late
         \/ courier[w].at = "sent" /\ late' = late \cup {courier[w].e}
  PROVE  WritesGoOn
  <1>1. courier \in [Workers -> Delivery]
    BY DEF IndexInv, CourierTypes
  <1>2. X!Idle \in Delivery /\ X!Idle.at = "idle"
    BY DEF X!Idle, Delivery, CourierPoints
  <1>3. courier' \in [Workers -> Delivery] /\ courier'[w] = X!Idle
        /\ \A v \in Workers \ {w} : courier'[v] = courier[v]
    BY <1>1, <1>2 DEF X!Drop
  <1>4. CourierTypes'
    BY <1>2, <1>3 DEF CourierTypes, IndexInv
  <1>5. ASSUME NEW e \in X!Slots, X!WriteUnderWay(e)'
        PROVE  X!WriteUnderWay(e)
    <2>1. CASE e \in late'
      BY <2>1 DEF X!WriteUnderWay
    <2>2. CASE \E v \in Workers : courier'[v].e = e /\ courier'[v].at = "sent"
      BY <2>2, <1>2, <1>3 DEF X!WriteUnderWay
    <2> QED
      BY <1>5, <2>1, <2>2 DEF X!WriteUnderWay
  <1> QED
    BY <1>4, <1>5 DEF WritesGoOn

\* A worker goes on to a point, which is a write only under its lease.
LEMMA GoOn ==
  ASSUME IndexInv, NEW w \in Workers, courier[w].at # "idle", NEW p \in CourierPoints,
         X!Go(w, p), late' \subseteq late, p = "sent" => X!Holds(w) /\ rows' = rows
  PROVE  WritesGoOn
  <1>1. courier \in [Workers -> Delivery] /\ courier[w] \in Delivery /\ courier[w].e \in X!Slots
    BY DEF IndexInv, CourierTypes
  <1> DEFINE doing == [courier[w] EXCEPT !.at = p]
  <1>2. doing \in Delivery /\ doing.at = p /\ doing.e = courier[w].e
    BY <1>1 DEF Delivery
  <1>3. courier' = [courier EXCEPT ![w] = doing]
    BY <1>1 DEF X!Go
  <1> HIDE DEF doing
  <1>4. courier' \in [Workers -> Delivery] /\ courier'[w] = doing
        /\ \A v \in Workers \ {w} : courier'[v] = courier[v]
    BY <1>1, <1>2, <1>3
  <1>5. CourierTypes'
    BY <1>1, <1>2, <1>4 DEF CourierTypes, IndexInv
  <1>6. ASSUME NEW e \in X!Slots, X!WriteUnderWay(e)', ~X!WriteUnderWay(e)
        PROVE  rows' = rows /\ \E v \in Workers : courier[v].e = e /\ X!Holds(v)
    <2>1. e \notin late'
      BY <1>6 DEF X!WriteUnderWay
    <2>2. PICK v \in Workers : courier'[v].e = e /\ courier'[v].at = "sent"
      BY <1>6, <2>1 DEF X!WriteUnderWay
    <2>3. v = w
      BY <1>4, <1>6, <2>2 DEF X!WriteUnderWay
    <2> QED
      BY <1>2, <1>4, <2>2, <2>3
  <1> QED
    BY <1>5, <1>6 DEF WritesGoOn

-----------------------------------------------------------------------------
(* Every step of the index. *)

IndexGoesOn == WritesGoOn /\ RowsGoOn /\ ValueTypes'

LEMMA SameValues ==
  ASSUME IndexInv, UNCHANGED <<rev, points, idx, scan>>
  PROVE  ValueTypes'
  BY DEF IndexInv, ValueTypes

LEMMA IndexPersonStep ==
  ASSUME IndexInv, X!Correct \/ X!Forget \/ X!Switch
  PROVE  IndexGoesOn
  <1>1. UNCHANGED <<courier, late, points, scan>>
    BY DEF X!Correct, X!Forget, X!Switch, X!passes
  <1>2. WritesGoOn
    BY <1>1, SameWrites
  <1>3. rev \in Nat /\ rev + 1 \in Nat /\ RowTypes
        /\ idx \in IndexState
    BY DEF IndexInv, ValueTypes
  <1>4. CASE X!Correct
    <2>1. rev' = rev + 1 /\ X!Add(rows, X!Event("UPSERT", rev + 1, None))
          /\ idx' = [idx EXCEPT !.desired = rev + 1, !.status = "PENDING"]
      BY <1>4 DEF X!Correct
    <2>2. RowsGoOn
      BY <1>3, <2>1, EventRow, TameRows, AddTame DEF RowsGoOn
    <2>3. idx' \in IndexState
      BY <1>3, <2>1 DEF IndexState
    <2>4. ValueTypes'
      BY <1>1, <1>3, <2>1, <2>3 DEF IndexInv, ValueTypes
    <2> QED
      BY <1>2, <2>2, <2>4 DEF IndexGoesOn
  <1>5. CASE X!Forget
    <2>1. rev' = rev + 1 /\ X!Add(X!Superseded, X!Event("DELETE", rev + 1, None))
          /\ idx' = [idx EXCEPT !.desired = rev + 1, !.status = "DELETE_PENDING"]
      BY <1>5 DEF X!Forget
    <2>2. RowsGoOn
      BY <1>3, <2>1, EventRow, TameTables, AddTame DEF RowsGoOn
    <2>3. idx' \in IndexState
      BY <1>3, <2>1 DEF IndexState
    <2>4. ValueTypes'
      BY <1>1, <1>3, <2>1, <2>3 DEF IndexInv, ValueTypes
    <2> QED
      BY <1>2, <2>2, <2>4 DEF IndexGoesOn
  <1>6. CASE X!Switch
    BY <1>1, <1>2, <1>6, SameRows, SameValues DEF X!Switch, X!sql, IndexGoesOn
  <1> QED
    BY <1>4, <1>5, <1>6

LEMMA IndexClaimStep ==
  ASSUME IndexInv, NEW w \in Workers, X!Claim(w)
  PROVE  IndexGoesOn
  <1>1. UNCHANGED <<late, rev, points, idx, scan>> /\ RowTypes
    BY DEF X!Claim, X!sql, X!passes, IndexInv
  <1>2. ValueTypes'
    BY <1>1, SameValues
  <1>3. CASE rows' = X!Buried /\ UNCHANGED courier
    BY <1>1, <1>2, <1>3, TameTables, SameWrites DEF RowsGoOn, IndexGoesOn
  <1>4. CASE \E e \in X!Slots :
               /\ rows' = [X!Buried EXCEPT ![e].status = "RUNNING", ![e].lease = w,
                                           ![e].tries = @ + 1]
               /\ courier' = [courier EXCEPT ![w] = [at |-> "start", e |-> e]]
    <2>1. PICK e \in X!Slots :
               /\ rows' = [X!Buried EXCEPT ![e].status = "RUNNING", ![e].lease = w,
                                           ![e].tries = @ + 1]
               /\ courier' = [courier EXCEPT ![w] = [at |-> "start", e |-> e]]
      BY <1>4
    <2> DEFINE row == [X!Buried[e] EXCEPT !.status = "RUNNING", !.lease = w,
                                          !.tries = X!Buried[e].tries + 1]
    <2>2. X!Buried[e] \in IndexRow /\ X!Buried \in [X!Slots -> IndexRow]
      BY <1>1, TameTables DEF Tame
    <2>3. rows' = [X!Buried EXCEPT ![e] = row]
      BY <2>1, <2>2
    <2>4. row \in IndexRow /\ row.lease = w /\ w # "graced"
      BY <2>2, TakenRow, IndexAssumption
    <2> HIDE DEF row
    <2>5. RowsGoOn
      BY <1>1, <2>3, <2>4, TameTables, TameOne DEF RowsGoOn
    <2> DEFINE doing == [at |-> "start", e |-> e]
    <2>6. doing \in Delivery /\ doing.at = "start" /\ doing.e = e
      BY DEF Delivery, CourierPoints
    <2>7. courier' = [courier EXCEPT ![w] = doing] /\ courier \in [Workers -> Delivery]
      BY <2>1 DEF IndexInv, CourierTypes
    <2> HIDE DEF doing
    <2>8. courier' \in [Workers -> Delivery] /\ courier'[w] = doing
          /\ \A v \in Workers \ {w} : courier'[v] = courier[v]
      BY <2>6, <2>7
    <2>9. CourierTypes'
      BY <2>6, <2>8 DEF CourierTypes, IndexInv
    <2>10. WritesGoOn
      BY <1>1, <2>6, <2>8, <2>9 DEF WritesGoOn, X!WriteUnderWay
    <2> QED
      BY <1>2, <2>5, <2>10 DEF IndexGoesOn
  <1> QED
    BY <1>3, <1>4 DEF X!Claim

\* Points of the index after a write.
LEMMA RevisionFact ==
  ASSUME IndexInv, NEW e \in X!Slots
  PROVE  rows[e].rev \in Nat /\ rows[e] \in IndexRow
  BY DEF IndexInv, RowTypes, IndexRow

\* The steps of a delivery up to its transaction.
LEMMA DeliverStep ==
  ASSUME IndexInv, NEW w \in Workers,
         \/ X!Start(w) \/ X!Recheck(w) \/ X!Send(w) \/ X!Write(w) \/ X!AfterWrite(w)
         \/ X!Prune(w) \/ X!Undo(w) \/ X!Purge(w)
  PROVE  IndexGoesOn
  <1>1. UNCHANGED <<rows, late, rev, idx, scan>> /\ courier[w].at # "idle"
    BY DEF X!Start, X!Recheck, X!Send, X!Write, X!AfterWrite, X!Prune, X!Undo, X!Purge,
           X!sql, X!passes
  <1>2. courier[w].e \in X!Slots
    BY <1>1 DEF IndexInv, CourierTypes
  <1>3. points' \subseteq points \cup {rows[courier[w].e].rev}
    BY DEF X!Start, X!Recheck, X!Send, X!Write, X!AfterWrite, X!Prune, X!Undo, X!Purge
  <1>4. ValueTypes'
    BY <1>1, <1>2, <1>3, RevisionFact DEF IndexInv, ValueTypes
  <1>5. \/ X!Drop(w)
        \/ \E p \in CourierPoints \ {"sent"} : X!Go(w, p)
        \/ X!Holds(w) /\ X!Go(w, "sent")
    BY DEF X!Start, X!Recheck, X!Send, X!Write, X!AfterWrite, X!Prune, X!Undo, X!Purge,
           CourierPoints
  <1>6. "sent" \in CourierPoints
    BY DEF CourierPoints
  <1>7. WritesGoOn
    BY <1>1, <1>5, <1>6, LetGo, GoOn
  <1> QED
    BY <1>1, <1>4, <1>7, SameRows DEF IndexGoesOn

\* The transaction that ends a delivery, and the one that records its failure.
LEMMA SettleStep ==
  ASSUME IndexInv, NEW w \in Workers, X!Settle(w)
  PROVE  IndexGoesOn
  <1> DEFINE e == courier[w].e
  <1>1. UNCHANGED <<late, rev, points, scan>> /\ X!Drop(w) /\ courier[w].at # "idle"
        /\ courier[w].at \in {"indexed", "ineligible", "deleted"}
    BY DEF X!Settle, X!sql, X!passes, X!Status
  <1>2. e \in X!Slots /\ rows \in [X!Slots -> IndexRow] /\ idx \in IndexState
    BY <1>1 DEF IndexInv, CourierTypes, RowTypes, ValueTypes
  <1>3. WritesGoOn
    BY <1>1, LetGo
  <1>4. rows[e] \in IndexRow /\ rows[e].rev \in Nat
    BY <1>2 DEF IndexRow
  <1>5. X!Status[courier[w].at] \in {"INDEXED", "INELIGIBLE", "DELETED"}
    BY <1>1 DEF X!Status
  <1>6. CASE X!Holds(w)
    <2>1. rows' = [rows EXCEPT ![e] = X!Done(rows[e], "SUCCEEDED")]
      BY <1>2, <1>6 DEF X!Settle
    <2>2. RowsGoOn
      <3>1. X!Done(rows[e], "SUCCEEDED") \in IndexRow
            /\ X!Done(rows[e], "SUCCEEDED").status # "RUNNING" /\ Tame(rows)
        BY <1>4, DoneRow, TameRows DEF IndexInv
      <3> HIDE DEF e
      <3> QED
        BY <1>2, <2>1, <3>1, TameOne DEF RowsGoOn
    <2>3. \/ idx' = idx
          \/ idx' = [idx EXCEPT !.status = X!Status[courier[w].at], !.indexed = rows[e].rev]
      BY <1>6 DEF X!Settle
    <2>4. idx' \in IndexState
      BY <1>2, <1>4, <1>5, <2>3 DEF IndexState
    <2> QED
      BY <1>1, <1>3, <2>2, <2>4 DEF IndexGoesOn, IndexInv, ValueTypes
  <1>7. CASE ~X!Holds(w)
    <2>1. rows' = rows /\ idx' = idx
      BY <1>7 DEF X!Settle
    <2> QED
      BY <1>1, <1>3, <2>1, SameRows, SameValues DEF IndexGoesOn
  <1> QED
    BY <1>6, <1>7

LEMMA IndexFailStep ==
  ASSUME IndexInv, NEW w \in Workers, X!Fail(w)
  PROVE  IndexGoesOn
  <1> DEFINE e == courier[w].e
  <1>1. /\ UNCHANGED <<rev, points, scan>> /\ X!Drop(w) /\ courier[w].at # "idle"
        /\ \/ late' = late
           \/ courier[w].at = "sent" /\ late' = late \cup {e}
    BY DEF X!Fail, X!sql, X!passes
  <1>2. e \in X!Slots /\ rows \in [X!Slots -> IndexRow] /\ idx \in IndexState
    BY <1>1 DEF IndexInv, CourierTypes, RowTypes, ValueTypes
  <1>3. WritesGoOn
    BY <1>1, LetGo
  <1>4. rows[e] \in IndexRow
    BY <1>2
  <1>6. CASE X!Holds(w)
    <2>1. \/ rows' = [rows EXCEPT ![e] = X!Done(rows[e], "CANCELLED")]
          \/ \E st \in {"DEAD", "RETRY"} :
                rows' = [rows EXCEPT ![e] = [rows[e] EXCEPT !.status = st, !.lease = None]]
      BY <1>2, <1>6 DEF X!Fail
    <2>2. RowsGoOn
      <3>1. /\ X!Done(rows[e], "CANCELLED") \in IndexRow
            /\ X!Done(rows[e], "CANCELLED").status = "CANCELLED" /\ Tame(rows)
            /\ \A st \in {"DEAD", "RETRY"} :
                 /\ [rows[e] EXCEPT !.status = st, !.lease = None] \in IndexRow
                 /\ [rows[e] EXCEPT !.status = st, !.lease = None].status = st
        BY <1>4, DoneRow, EndedRow, TameRows DEF IndexInv
      <3>2. CASE rows' = [rows EXCEPT ![e] = X!Done(rows[e], "CANCELLED")]
        <4> HIDE DEF e
        <4> QED BY <1>2, <3>1, <3>2, TameOne DEF RowsGoOn
      <3>3. ASSUME NEW st \in {"DEAD", "RETRY"},
                   rows' = [rows EXCEPT ![e] = [rows[e] EXCEPT !.status = st, !.lease = None]]
            PROVE  RowsGoOn
        <4> HIDE DEF e
        <4> QED BY <1>2, <3>1, <3>3, TameOne DEF RowsGoOn
      <3> QED
        BY <2>1, <3>2, <3>3
    <2>3. \/ idx' = idx
          \/ \E st \in {"DEAD", "RETRY"} : idx' = [idx EXCEPT !.status = st]
      BY <1>6 DEF X!Fail
    <2>4. idx' \in IndexState
      BY <1>2, <2>3 DEF IndexState
    <2> QED
      BY <1>1, <1>3, <2>2, <2>4 DEF IndexGoesOn, IndexInv, ValueTypes
  <1>7. CASE ~X!Holds(w)
    <2>1. rows' = rows /\ idx' = idx
      BY <1>7 DEF X!Fail
    <2> QED
      BY <1>1, <1>3, <2>1, SameRows, SameValues DEF IndexGoesOn
  <1> QED
    BY <1>6, <1>7

LEMMA IndexCrashStep ==
  ASSUME IndexInv, NEW w \in Workers, X!Crash(w)
  PROVE  IndexGoesOn
  <1>1. /\ UNCHANGED <<rows, rev, points, idx, scan>> /\ X!Drop(w)
        /\ \/ late' = late
           \/ courier[w].at = "sent" /\ late' = late \cup {courier[w].e}
    BY DEF X!Crash, X!sql, X!passes
  <1> QED
    BY <1>1, LetGo, SameRows, SameValues DEF IndexGoesOn

\* The clock.
LEMMA PassStep ==
  ASSUME IndexInv, NEW e \in X!Slots, X!Arrive(e) \/ X!Lapse(e) \/ X!Grace(e)
  PROVE  IndexGoesOn
  <1>1. UNCHANGED <<courier, rev, idx, scan>>
    BY DEF X!Arrive, X!Lapse, X!Grace, X!sql, X!passes
  <1>2. rows \in [X!Slots -> IndexRow] /\ rows[e] \in IndexRow /\ rows[e].rev \in Nat
    BY DEF IndexInv, RowTypes, IndexRow
  <1>3. CASE X!Arrive(e)
    <2>1. rows' = rows /\ late' \subseteq late /\ points' = points \cup {rows[e].rev}
      BY <1>3 DEF X!Arrive
    <2>2. WritesGoOn
      BY <1>1, <2>1 DEF IndexInv, CourierTypes, WritesGoOn, X!WriteUnderWay
    <2> QED
      BY <1>1, <1>2, <2>1, <2>2, SameRows DEF IndexGoesOn, IndexInv, ValueTypes
  <1>4. CASE X!Lapse(e)
    <2>1. late' = late /\ points' = points
          /\ rows' = [rows EXCEPT ![e] = [rows[e] EXCEPT !.lease = "lapsed"]]
      BY <1>2, <1>4 DEF X!Lapse
    <2>2. [rows[e] EXCEPT !.lease = "lapsed"] \in IndexRow
          /\ [rows[e] EXCEPT !.lease = "lapsed"].lease = "lapsed"
      BY <1>2, LeaseRow DEF X!Leases
    <2>3. Tame(rows')
      BY <2>1, <2>2, TameOne, TameRows DEF IndexInv
    <2> QED
      BY <1>1, <2>1, <2>3, SameWrites, SameValues DEF IndexGoesOn, RowsGoOn
  <1>5. CASE X!Grace(e)
    <2>1. late' = late /\ points' = points /\ ~X!WriteUnderWay(e)
          /\ rows' = [rows EXCEPT ![e] = [rows[e] EXCEPT !.lease = "graced"]]
      BY <1>2, <1>5 DEF X!Grace, X!WriteUnderWay
    <2>2. [rows[e] EXCEPT !.lease = "graced"] \in IndexRow
      BY <1>2, LeaseRow DEF X!Leases
    <2>3. rows' \in [X!Slots -> IndexRow] /\ \A d \in X!Slots \ {e} : rows'[d] = rows[d]
      BY <1>2, <2>1, <2>2
    <2>4. RowsGoOn
      BY <1>1, <2>1, <2>3 DEF RowsGoOn, Graced
    <2> QED
      BY <1>1, <2>1, <2>4, SameWrites, SameValues DEF IndexGoesOn
  <1> QED
    BY <1>3, <1>4, <1>5

\* The pass that finishes deletions.
LEMMA SweepStep ==
  ASSUME IndexInv, X!Sweep
  PROVE  IndexGoesOn
  <1>1. UNCHANGED <<courier, late, rev, scan>> /\ points' \subseteq points
    BY DEF X!Sweep, X!SweepDelete, X!SweepVerify, X!SweepCommit, X!sql
  <1>2. \/ rows' = rows /\ idx' = idx
        \/ rows' = X!Cleared /\ idx' = [idx EXCEPT !.status = "DELETED", !.indexed = idx.desired]
    BY DEF X!Sweep, X!SweepDelete, X!SweepVerify, X!SweepCommit
  <1>3. idx \in IndexState /\ idx.desired \in Nat
    BY DEF IndexInv, ValueTypes, IndexState
  <1>4. idx' \in IndexState
    BY <1>2, <1>3 DEF IndexState
  <1>5. RowsGoOn
    BY <1>2, SameRows, TameTables DEF RowsGoOn, IndexInv
  <1> QED
    BY <1>1, <1>4, <1>5, SameWrites DEF IndexGoesOn, IndexInv, ValueTypes

\* The pass that compares.
LEMMA ScanStep ==
  ASSUME IndexInv, X!Scan
  PROVE  IndexGoesOn
  <1>1. UNCHANGED <<courier, late, rev, points>>
    BY DEF X!Scan, X!ScanRead, X!ScanLook, X!ScanRepair, X!sql
  <1>2. /\ scan \in Look /\ idx \in IndexState /\ idx.desired \in Nat /\ rev \in Nat
        /\ points \in SUBSET Nat /\ scan.rev \in Nat /\ scan.seen \in SUBSET Nat
    BY DEF IndexInv, ValueTypes, IndexState, Look
  <1>3. X!NoScan \in Look
    BY DEF X!NoScan, Look
  <1>4. CASE X!ScanRead
    <2>1. rows' = rows /\ idx' = idx
      BY <1>4 DEF X!ScanRead
    <2> DEFINE live == ~gone
               fits == IF gone THEN idx.status \in {"DELETED", "INELIGIBLE"}
                       ELSE idx.status = "INDEXED" /\ idx.indexed = rev
               at == IF gone THEN idx.desired ELSE rev
    <2>a. scan' = [at |-> "look", live |-> live, seen |-> {}, rev |-> at, fits |-> fits]
      BY <1>4 DEF X!ScanRead
    <2>b. live \in BOOLEAN
      OBVIOUS
    <2>c. fits \in BOOLEAN
      <3>1. CASE fits
        <4>1. fits = TRUE
          BY <3>1
        <4> QED BY <4>1
      <3>2. CASE ~fits
        <4>1. fits = FALSE
          BY <3>2
        <4> QED BY <4>1
      <3> QED BY <3>1, <3>2
    <2>d. at \in Nat
      BY <1>2
    <2> HIDE DEF live, fits, at
    <2>2. scan' \in Look
      BY <2>a, <2>b, <2>c, <2>d DEF Look
    <2> QED
      BY <1>1, <2>1, <2>2, SameRows, SameWrites DEF IndexGoesOn, IndexInv, ValueTypes
  <1>5. CASE X!ScanLook
    <2>1. rows' = rows /\ idx' = idx
      BY <1>5 DEF X!ScanLook
    <2>2. scan' = X!NoScan \/ scan' = [scan EXCEPT !.at = "repair", !.seen = points]
      BY <1>5 DEF X!ScanLook
    <2>3. scan' \in Look
      BY <1>2, <1>3, <2>2 DEF Look
    <2> QED
      BY <1>1, <2>1, <2>3, SameRows, SameWrites DEF IndexGoesOn, IndexInv, ValueTypes
  <1>6. CASE X!ScanRepair
    <2>1. scan' \in Look
      BY <1>3, <1>6 DEF X!ScanRepair
    <2>2. CASE rows' = rows /\ idx' = idx
      BY <1>1, <2>1, <2>2, SameRows, SameWrites DEF IndexGoesOn, IndexInv, ValueTypes
    <2>3. CASE /\ \E op \in {"UPSERT", "DELETE"} :
                    X!Add(rows, X!Event(op, scan.rev, scan.seen))
               /\ idx' = [idx EXCEPT !.desired = scan.rev, !.status = "PENDING"]
      <3>1. Tame(rows')
        BY <1>2, <2>3, EventRow, TameRows, AddTame DEF IndexInv
      <3>2. idx' \in IndexState
        BY <1>2, <2>3 DEF IndexState
      <3> QED
        BY <1>1, <2>1, <3>1, <3>2, SameWrites DEF IndexGoesOn, RowsGoOn, IndexInv, ValueTypes
    <2> QED
      BY <1>6, <2>2, <2>3 DEF X!ScanRepair
  <1> QED
    BY <1>4, <1>5, <1>6 DEF X!Scan

LEMMA IndexInitially == X!Init => IndexInv
  <1> SUFFICES ASSUME X!Init PROVE IndexInv
    OBVIOUS
  <1>1. /\ rev = 1 /\ points = {} /\ late = {} /\ scan = X!NoScan
        /\ rows = [e \in X!Slots |-> IF e = 1 THEN X!Event("UPSERT", 1, None) ELSE X!NoRow]
        /\ idx = [desired |-> 1, indexed |-> 0, status |-> "PENDING"]
        /\ courier = [w \in Workers |-> X!Idle]
    BY DEF X!Init
  <1>2. X!NoRow \in IndexRow /\ X!NoRow.status = "CANCELLED"
    BY DEF X!NoRow, IndexRow, RowStates, X!Leases
  <1>3. X!Event("UPSERT", 1, None) \in IndexRow /\ X!Event("UPSERT", 1, None).status = "PENDING"
    BY EventRow
  <1>4. X!Idle \in Delivery /\ X!Idle.at = "idle" /\ X!NoScan \in Look
    BY DEF X!Idle, Delivery, CourierPoints, X!NoScan, Look
  <1>5. RowTypes /\ \A e \in X!Slots : rows[e].status # "RUNNING"
    BY <1>1, <1>2, <1>3 DEF RowTypes
  <1>6. CourierTypes
    BY <1>1, <1>4 DEF CourierTypes
  <1>7. ValueTypes
    BY <1>1, <1>4 DEF ValueTypes, IndexState
  <1>8. GracedQuiet
    BY <1>5 DEF GracedQuiet, Graced
  <1> QED
    BY <1>5, <1>6, <1>7, <1>8 DEF IndexInv

LEMMA IndexInductive == IndexInv /\ [X!Next]_(X!vars) => IndexInv'
  <1> SUFFICES ASSUME IndexInv, [X!Next]_(X!vars) PROVE IndexInv'
    OBVIOUS
  <1>1. CASE X!Next
    <2>1. IndexGoesOn
      BY <1>1, IndexPersonStep, IndexClaimStep, DeliverStep, SettleStep, IndexFailStep,
         IndexCrashStep, PassStep, SweepStep, ScanStep DEF X!Next, X!Deliver
    <2> QED
      BY <2>1, QuietKept DEF IndexGoesOn, IndexInv, WritesGoOn
  <1>2. CASE UNCHANGED X!vars
    <2>1. UNCHANGED <<rows, courier, late, rev, points, idx, scan>>
      BY <1>2 DEF X!vars
    <2> QED
      BY <2>1, SameRows, SameWrites, SameValues, QuietKept DEF IndexInv, WritesGoOn
  <1> QED
    BY <1>1, <1>2

\* The deletion pass ends no running delivery whose write is under way.
LEMMA SweepQuiet ==
  ASSUME IndexInv, [X!Next]_(X!vars)
  PROVE  X!SweepCancelsQuiet
  <1> SUFFICES ASSUME sweep = "commit", sweep' # sweep, rows' # rows,
                      NEW e \in X!Slots, rows[e].status = "RUNNING"
               PROVE  ~X!WriteUnderWay(e)
    BY DEF X!SweepCancelsQuiet
  <1>1. X!SweepCommit
    <2>1. ASSUME NEW w \in Workers, X!Claim(w) \/ X!Fail(w) \/ X!Crash(w)
          PROVE  sweep' = sweep
      BY <2>1 DEF X!Claim, X!Fail, X!Crash, X!passes
    <2>2. ASSUME NEW w \in Workers, X!Deliver(w)
          PROVE  sweep' = sweep
      BY <2>2 DEF X!Deliver, X!Start, X!Recheck, X!Send, X!Write, X!AfterWrite, X!Prune, X!Undo,
         X!Purge, X!Settle, X!passes
    <2>3. ASSUME NEW f \in X!Slots, X!Arrive(f) \/ X!Lapse(f) \/ X!Grace(f)
          PROVE  sweep' = sweep
      BY <2>3 DEF X!Arrive, X!Lapse, X!Grace, X!passes
    <2>4. ASSUME X!Correct \/ X!Forget \/ X!Switch \/ X!Scan
          PROVE  sweep' = sweep
      BY <2>4 DEF X!Correct, X!Forget, X!Switch, X!Scan, X!ScanRead, X!ScanLook, X!ScanRepair,
         X!passes
    <2>5. ASSUME X!Sweep
          PROVE  X!SweepCommit
      BY <2>5 DEF X!Sweep, X!SweepDelete, X!SweepVerify
    <2>6. X!Next
      BY DEF X!vars
    <2> QED
      BY <2>1, <2>2, <2>3, <2>4, <2>5, <2>6 DEF X!Next
  <1>2. ~X!Blocked
    BY <1>1 DEF X!SweepCommit
  <1>3. rows[e].lease = "graced"
    BY <1>2 DEF X!Blocked
  <1> QED
    BY <1>3 DEF IndexInv, GracedQuiet, Graced

\* Nobody who comes late does harm, for any number of turns, workers, revisions
\* and outbox rows: a finished turn stays finished, what an extraction stores
\* was checked against the conversation as it is (commit_extraction), and the
\* deletion pass ends no running delivery whose write is under way (reconcile.py:
\* lease_blocks).  A delivery that has failed is not running: README section 5.
THEOREM LateSafe == Spec /\ X!Spec => LateIsHarmless
  <1>1. Init => JobInv
    BY JobInitially
  <1>2. JobInv /\ [Next]_vars => JobInv'
    BY JobInductive
  <1>3. X!Init => IndexInv
    BY IndexInitially
  <1>4. IndexInv /\ [X!Next]_(X!vars) => IndexInv'
    BY IndexInductive
  <1>5. JobInv /\ [Next]_vars
          => [\A n \in Ordinals : job[n].state \in Complete => job'[n] = job[n]]_vars
    BY DoneStep
  <1>6. JobInv /\ [Next]_vars
          => [\A n \in stored' \ stored :
                /\ n \notin forgotten /\ ~paused /\ ~deleted
                /\ \E w \in Workers : worker[w].n = n /\ worker[w].base = base]_vars
    BY StoredStep
  <1>7. IndexInv /\ [X!Next]_(X!vars) => [X!SweepCancelsQuiet]_all
    BY SweepQuiet
  <1>8. Spec => DoneStaysDone /\ StoredIsCurrent
    BY <1>1, <1>2, <1>5, <1>6, PTL DEF Spec, DoneStaysDone, StoredIsCurrent
  <1>9. X!Spec => [][X!SweepCancelsQuiet]_all
    BY <1>3, <1>4, <1>7, PTL DEF X!Spec
  <1> QED
    BY <1>8, <1>9, PTL DEF LateIsHarmless

-----------------------------------------------------------------------------
(* What the index state claims. *)

\* Rows as TypeOK has them; RUNNING is what has a lease.
TypedRow == [op : {"UPSERT", "DELETE"}, rev : 0 .. MaxRev, tries : 0 .. MaxAttempts,
             status : X!Outstanding \cup {"SUCCEEDED", "CANCELLED"},
             lease : X!Leases, seen : (SUBSET X!Revs) \cup {None}]
Leased(row) == (row.status = "RUNNING") <=> (row.lease # None)
RowShape == rows \in [X!Slots -> TypedRow] /\ \A e \in X!Slots : Leased(rows[e])

\* What the comparing pass holds is of a revision the memory has had; what it
\* read as forgotten is, and what it read before that is of an older revision.
Compared == scan.at # "idle" =>
  /\ scan.rev \in X!Revs /\ scan.rev <= rev /\ scan.seen \subseteq X!Revs
  /\ ~scan.live => gone
  /\ scan.live /\ gone => scan.rev < rev

Memory == /\ rev \in X!Revs /\ gone \in BOOLEAN /\ sync \in BOOLEAN /\ stale \in BOOLEAN
         /\ idx.desired \in X!Revs /\ idx.desired <= rev /\ (~stale => idx.desired = rev)
         /\ idx.indexed \in 0 .. MaxRev
         /\ points \subseteq X!Revs /\ late \subseteq X!Slots /\ Compared

\* An event is of a revision the memory has had, and once it is forgotten every
\* write is of an older one than the deletion.
Aged == \A e \in X!Slots :
  /\ rows[e].rev <= rev /\ (rows[e].status \in X!Outstanding => rows[e].rev # 0)
  /\ rows[e].op = "DELETE" => gone
  /\ gone /\ rows[e].op = "UPSERT" => rows[e].rev < rev

\* The revision SQL wants in the index, if any.
Want == IF gone THEN 0 ELSE rev

\* What the place of a worker says: it deletes only for a deletion and, unless
\* the comparing pass repaired by an outdated reading, takes back only what SQL
\* does not want any more, and what it has written is there as long as SQL wants
\* it.
Place(at, e, pts) ==
  /\ e \in X!Slots /\ rows[e].rev # 0
  /\ at \in {"purge", "deleted"} => rows[e].op = "DELETE"
  /\ at \notin {"start", "purge", "deleted"} => rows[e].op = "UPSERT"
  /\ at \in {"undo", "ineligible"} /\ ~stale => rows[e].rev # Want
  /\ at \in {"wrote", "prune", "indexed"} /\ rows[e].rev = Want /\ ~stale => Want \in pts
Placed == /\ \A e \in late : rows[e].rev # 0
          /\ \A w \in Workers :
               courier[w].at # "idle" => Place(courier[w].at, courier[w].e, points)

Indexed == ~stale /\ idx.status = "INDEXED" => ~gone /\ idx.indexed = rev /\ rev \in points

Purged == /\ purge \in {"none", "PENDING", "SUCCEEDED"} /\ (purge # "none" => gone)
          /\ X!PurgedIsQuiet

StoreInv == RowShape /\ Memory /\ Aged /\ Placed /\ Indexed /\ Purged

-----------------------------------------------------------------------------
(* Rows as the operations write them. *)

LEMMA TypedEvent ==
  ASSUME NEW op \in {"UPSERT", "DELETE"}, NEW r \in 0 .. MaxRev,
         NEW seen \in (SUBSET X!Revs) \cup {None}
  PROVE  LET event == X!Event(op, r, seen)
         IN  /\ event \in TypedRow /\ Leased(event) /\ event.status = "PENDING"
             /\ event.op = op /\ event.rev = r /\ event.seen = seen
  <1> DEFINE event == X!Event(op, r, seen)
  <1>1. 0 \in 0 .. MaxAttempts /\ None \in X!Leases /\ "PENDING" \in X!Outstanding
    BY JobsAssumption DEF X!Leases, X!Outstanding
  <1>2. event \in TypedRow
    BY <1>1 DEF TypedRow, X!Event, X!NoRow
  <1>3. /\ event.status = "PENDING" /\ event.op = op /\ event.seen = seen
        /\ event.rev = r /\ event.lease = None
    BY DEF X!Event, X!NoRow
  <1> QED
    BY <1>2, <1>3 DEF Leased

\* The same event, whatever else became of it; it is not opened again.
SameEvent(a, b) == /\ a.op = b.op /\ a.rev = b.rev
                   /\ a.status \in X!Outstanding => b.status \in X!Outstanding /\ a.seen = b.seen

LEMMA TypedDone ==
  ASSUME NEW row \in TypedRow, NEW st \in {"SUCCEEDED", "CANCELLED"}
  PROVE  /\ X!Done(row, st) \in TypedRow /\ Leased(X!Done(row, st))
         /\ SameEvent(X!Done(row, st), row) /\ X!Done(row, st).status = st
  <1>1. None \in X!Leases /\ 0 \in 0 .. MaxAttempts /\ None \in (SUBSET X!Revs) \cup {None}
    BY JobsAssumption DEF X!Leases
  <1>2. X!Done(row, st) \in TypedRow
    BY <1>1 DEF X!Done, TypedRow
  <1>3. /\ X!Done(row, st).status = st /\ X!Done(row, st).lease = None
        /\ X!Done(row, st).op = row.op /\ X!Done(row, st).rev = row.rev
    BY DEF X!Done, TypedRow
  <1>4. st \notin X!Outstanding
    BY DEF X!Outstanding
  <1> QED
    BY <1>2, <1>3, <1>4 DEF Leased, SameEvent

LEMMA TypedEnded ==
  ASSUME NEW row \in TypedRow, NEW st \in {"DEAD", "RETRY"}, row.status \in X!Outstanding
  PROVE  LET new == [row EXCEPT !.status = st, !.lease = None]
         IN  new \in TypedRow /\ Leased(new) /\ SameEvent(new, row)
  BY DEF TypedRow, X!Outstanding, X!Leases, Leased, SameEvent

LEMMA TypedLease ==
  ASSUME NEW row \in TypedRow, row.status = "RUNNING", NEW l \in X!Leases, l # None
  PROVE  LET new == [row EXCEPT !.lease = l]
         IN  new \in TypedRow /\ Leased(new) /\ SameEvent(new, row)
  BY DEF TypedRow, Leased, SameEvent

LEMMA TypedTaken ==
  ASSUME NEW row \in TypedRow, NEW w \in Workers, row.tries < MaxAttempts,
         row.status \in X!Outstanding
  PROVE  LET new == [row EXCEPT !.status = "RUNNING", !.lease = w, !.tries = row.tries + 1]
         IN  new \in TypedRow /\ Leased(new) /\ SameEvent(new, row)
  <1>1. w \in X!Leases /\ w # None /\ row.tries + 1 \in 0 .. MaxAttempts
    BY JobsAssumption DEF X!Leases, TypedRow
  <1>2. [row EXCEPT !.status = "RUNNING", !.lease = w, !.tries = row.tries + 1] \in TypedRow
    BY <1>1 DEF TypedRow, X!Outstanding
  <1> QED
    BY <1>1, <1>2 DEF TypedRow, Leased, SameEvent

\* A table whose events are those of the outbox.
SameTable(table) == /\ table \in [X!Slots -> TypedRow]
                    /\ \A e \in X!Slots : Leased(table[e]) /\ SameEvent(table[e], rows[e])

LEMMA SameAsItself == ASSUME RowShape PROVE SameTable(rows)
  BY DEF RowShape, SameTable, SameEvent

LEMMA SameButOne ==
  ASSUME NEW table, SameTable(table), NEW e \in X!Slots, NEW row \in TypedRow, Leased(row),
         SameEvent(row, rows[e])
  PROVE  SameTable([table EXCEPT ![e] = row])
  <1> DEFINE t == [table EXCEPT ![e] = row]
  <1>1. t \in [X!Slots -> TypedRow] /\ t[e] = row /\ \A d \in X!Slots \ {e} : t[d] = table[d]
    BY DEF SameTable
  <1> HIDE DEF t
  <1>2. SameTable(t)
    BY <1>1 DEF SameTable
  <1> QED
    BY <1>2 DEF t

LEMMA SameTables ==
  ASSUME RowShape
  PROVE  /\ SameTable(X!Superseded) /\ SameTable(X!Buried) /\ SameTable(X!Cleared)
         /\ \A e \in X!Slots : X!Cleared[e].status \notin X!Outstanding
  <1>1. ASSUME NEW e \in X!Slots
        PROVE  rows[e] \in TypedRow /\ Leased(rows[e]) /\ SameEvent(rows[e], rows[e])
    BY DEF RowShape, SameEvent
  <1>2. SameTable(X!Superseded)
    <2>1. ASSUME NEW e \in X!Slots
          PROVE  /\ X!Superseded[e] \in TypedRow /\ Leased(X!Superseded[e])
                 /\ SameEvent(X!Superseded[e], rows[e])
      BY <1>1, TypedDone DEF X!Superseded
    <2>2. X!Superseded \in [X!Slots -> TypedRow]
      BY <2>1 DEF X!Superseded
    <2> QED
      BY <2>1, <2>2 DEF SameTable
  <1>3. SameTable(X!Buried)
    <2>1. ASSUME NEW e \in X!Slots
          PROVE  /\ X!Buried[e] \in TypedRow /\ Leased(X!Buried[e])
                 /\ SameEvent(X!Buried[e], rows[e])
      <3>1. X!Claimable(e) => rows[e].status \in X!Outstanding
        BY DEF X!Claimable, X!Outstanding
      <3> QED
        BY <1>1, <3>1, TypedEnded DEF X!Buried
    <2>2. X!Buried \in [X!Slots -> TypedRow]
      BY <2>1 DEF X!Buried
    <2> QED
      BY <2>1, <2>2 DEF SameTable
  <1>4. SameTable(X!Cleared) /\ \A e \in X!Slots : X!Cleared[e].status \notin X!Outstanding
    <2>1. ASSUME NEW e \in X!Slots
          PROVE  /\ X!Cleared[e] \in TypedRow /\ Leased(X!Cleared[e])
                 /\ SameEvent(X!Cleared[e], rows[e])
                 /\ X!Cleared[e].status \notin X!Outstanding
      <3>1. "CANCELLED" \notin X!Outstanding /\ "SUCCEEDED" \notin X!Outstanding
        BY DEF X!Outstanding
      <3> QED
        BY <1>1, <3>1, TypedDone DEF X!Cleared
    <2>2. X!Cleared \in [X!Slots -> TypedRow]
      BY <2>1 DEF X!Cleared
    <2> QED
      BY <2>1, <2>2 DEF SameTable
  <1> QED
    BY <1>2, <1>3, <1>4

-----------------------------------------------------------------------------
(* A step of anybody but the person. *)

Onward ==
  /\ UNCHANGED <<rev, gone, scan, stale>> /\ sync' \in BOOLEAN
  /\ SameTable(rows')
  /\ idx'.desired = idx.desired /\ idx'.indexed \in 0 .. MaxRev
  /\ points' \subseteq X!Revs /\ (~stale /\ Want \in points => Want \in points')
  /\ late' \subseteq X!Slots /\ \A e \in late' : rows[e].rev # 0
  /\ \A w \in Workers : courier'[w].at # "idle" => Place(courier'[w].at, courier'[w].e, points')
  /\ ~stale /\ idx'.status = "INDEXED" => ~gone /\ idx'.indexed = rev /\ rev \in points'
  /\ \/ purge' = purge
     \/ /\ gone /\ purge' \in {"PENDING", "SUCCEEDED"}
        /\ purge' = "SUCCEEDED" => \A e \in X!Slots : rows'[e].status \notin X!Outstanding

LEMMA OnwardKept ==
  ASSUME StoreInv, Onward
  PROVE  StoreInv'
  <1>1. rows' \in [X!Slots -> TypedRow]
        /\ \A e \in X!Slots : Leased(rows'[e]) /\ SameEvent(rows'[e], rows[e])
    BY DEF Onward, SameTable
  <1>2. RowShape'
    BY <1>1 DEF RowShape, Leased
  <1>3. Want' = Want /\ rev' = rev /\ gone' = gone /\ scan' = scan /\ stale' = stale
    BY DEF Want, Onward
  <1>4. Memory'
    BY <1>3 DEF StoreInv, Onward, Memory, Compared
  <1>5. Aged'
    BY <1>1, <1>3 DEF StoreInv, Aged, SameEvent
  <1>6. ASSUME NEW w \in Workers, courier'[w].at # "idle"
        PROVE  Place(courier[w].at, courier[w].e, points)'
    <2>1. Place(courier'[w].at, courier'[w].e, points')
      BY <1>6 DEF Onward
    <2>2. courier'[w].e \in X!Slots
      BY <2>1 DEF Place
    <2>3. rows'[courier'[w].e].op = rows[courier'[w].e].op
          /\ rows'[courier'[w].e].rev = rows[courier'[w].e].rev
      BY <1>1, <2>2 DEF SameEvent
    <2> QED
      BY <1>3, <2>1, <2>3 DEF Place
  <1>7. \A e \in late' : rows'[e].rev # 0
    BY <1>1 DEF Onward, SameEvent
  <1>8. Placed'
    BY <1>6, <1>7 DEF Placed
  <1>9. Indexed'
    BY <1>3 DEF Onward, Indexed
  <1>10. Purged'
    BY <1>1, <1>3 DEF StoreInv, Onward, Purged, X!PurgedIsQuiet, SameEvent
  <1> QED
    BY <1>2, <1>4, <1>5, <1>8, <1>9, <1>10 DEF StoreInv

\* The parts of it.
LEMMA CurrentIsWanted ==
  ASSUME StoreInv, ~stale, NEW e \in X!Slots, rows[e].rev # 0
  PROVE  X!Current(e) <=> rows[e].rev = Want
  BY DEF StoreInv, Memory, X!Current, Want

LEMMA StillPlaced ==
  ASSUME StoreInv, NEW w \in Workers, courier[w].at # "idle", ~stale /\ Want \in points => Want \in points'
  PROVE  Place(courier[w].at, courier[w].e, points')
  BY DEF StoreInv, Placed, Place

LEMMA AllStay ==
  ASSUME StoreInv, courier' = courier, ~stale /\ Want \in points => Want \in points'
  PROVE  \A w \in Workers : courier'[w].at # "idle" => Place(courier'[w].at, courier'[w].e, points')
  BY StillPlaced

LEMMA OneDrops ==
  ASSUME IndexInv, StoreInv, NEW w \in Workers, X!Drop(w), ~stale /\ Want \in points => Want \in points'
  PROVE  \A v \in Workers : courier'[v].at # "idle" => Place(courier'[v].at, courier'[v].e, points')
  <1>1. courier' = [courier EXCEPT ![w] = X!Idle] /\ courier \in [Workers -> Delivery]
    BY DEF X!Drop, IndexInv, CourierTypes
  <1>2. X!Idle.at = "idle"
    BY DEF X!Idle
  <1>3. \A v \in Workers : courier'[v] = IF v = w THEN X!Idle ELSE courier[v]
    BY <1>1
  <1> QED
    BY <1>2, <1>3, StillPlaced

LEMMA OneGoes ==
  ASSUME IndexInv, StoreInv, NEW w \in Workers, NEW p, X!Go(w, p),
         ~stale /\ Want \in points => Want \in points', Place(p, courier[w].e, points')
  PROVE  \A v \in Workers : courier'[v].at # "idle" => Place(courier'[v].at, courier'[v].e, points')
  <1>1. courier' = [courier EXCEPT ![w].at = p] /\ courier \in [Workers -> Delivery]
        /\ courier[w] \in Delivery
    BY DEF X!Go, IndexInv, CourierTypes
  <1>2. courier'[w].at = p /\ courier'[w].e = courier[w].e
    BY <1>1 DEF Delivery
  <1>3. \A v \in Workers \ {w} : courier'[v] = courier[v]
    BY <1>1
  <1>4. ASSUME NEW v \in Workers, courier'[v].at # "idle"
        PROVE  Place(courier'[v].at, courier'[v].e, points')
    <2>1. CASE v = w
      BY <1>2, <2>1
    <2>2. CASE v # w
      BY <1>3, <1>4, <2>2, StillPlaced
    <2> QED
      BY <2>1, <2>2
  <1> QED
    BY <1>4

-----------------------------------------------------------------------------
(* The person queues an event of a new revision. *)

LEMMA EventQueued ==
  ASSUME IndexInv, StoreInv, ~gone, NEW table, SameTable(table), NEW op \in {"UPSERT", "DELETE"},
         X!Add(table, X!Event(op, rev + 1, None)), rev < MaxRev, rev' = rev + 1,
         gone' = (op = "DELETE"), UNCHANGED <<courier, late, points, stale>>
  PROVE  RowShape' /\ Aged' /\ Placed'
  <1>1. X!FreeRow \in X!Slots /\ X!Free(X!FreeRow)
    BY DEF X!Add, X!FreeRow
  <1>2. PICK f \in X!Slots : f = X!FreeRow
    BY <1>1
  <1>3. f \notin late /\ \A w \in Workers : courier[w].e # f
    BY <1>1, <1>2 DEF X!Free
  <1> DEFINE event == X!Event(op, rev + 1, None)
  <1>5. rev \in Nat /\ MaxRev \in Nat /\ rev >= 1 /\ rev + 1 \in 0 .. MaxRev
    BY IndexAssumption DEF StoreInv, Memory, X!Revs
  <1>6. event \in TypedRow /\ Leased(event) /\ event.op = op /\ event.rev = rev + 1
    BY <1>5, TypedEvent
  <1> HIDE DEF event
  <1>7. rows' = [table EXCEPT ![f] = event]
    BY <1>2 DEF X!Add, event
  <1>8. /\ rows' \in [X!Slots -> TypedRow] /\ rows'[f] = event
        /\ \A e \in X!Slots \ {f} : rows'[e] = table[e]
    BY <1>6, <1>7 DEF SameTable
  <1>9. \A e \in X!Slots \ {f} : Leased(rows'[e]) /\ SameEvent(rows'[e], rows[e])
    BY <1>8 DEF SameTable
  <1>10. RowShape'
    BY <1>6, <1>8, <1>9 DEF RowShape, Leased
  <1>11. \A e \in X!Slots : rows[e].rev <= rev /\ rows[e].rev \in Nat /\ rows[e].op = "UPSERT"
    BY DEF StoreInv, Aged, RowShape, TypedRow
  <1>12. Aged'
    <2>1. ASSUME NEW e \in X!Slots \ {f}
          PROVE  /\ rows'[e].rev <= rev /\ rows'[e].rev \in Nat /\ rows'[e].op = "UPSERT"
                 /\ rows'[e].status \in X!Outstanding => rows'[e].rev # 0
      BY <1>9, <1>11 DEF SameEvent, StoreInv, Aged
    <2>2. rows'[f].rev = rev + 1 /\ rows'[f].op = op
      BY <1>6, <1>8
    <2>3. ASSUME NEW e \in X!Slots
          PROVE  /\ rows'[e].rev <= rev' /\ (rows'[e].status \in X!Outstanding => rows'[e].rev # 0)
                 /\ rows'[e].op = "DELETE" => gone'
                 /\ gone' /\ rows'[e].op = "UPSERT" => rows'[e].rev < rev'
      <3>1. CASE e = f
        <4>1. (op = "DELETE" => gone') /\ (op = "UPSERT" => ~gone')
          OBVIOUS
        <4> QED
          BY <1>5, <2>2, <3>1, <4>1
      <3>2. CASE e # f
        BY <1>5, <2>1, <3>2
      <3> QED
        BY <3>1, <3>2
    <2> QED
      BY <2>3 DEF Aged
  <1>13. Want' = 0 \/ Want' = rev + 1
    BY DEF Want
  <1>14. ASSUME NEW w \in Workers, courier'[w].at # "idle"
         PROVE  Place(courier[w].at, courier[w].e, points)'
    <2>1. courier' = courier /\ Place(courier[w].at, courier[w].e, points)
      BY <1>14 DEF StoreInv, Placed
    <2>2. PICK e \in X!Slots : e = courier[w].e
      BY <2>1 DEF Place
    <2>3. rows'[e].op = rows[e].op /\ rows'[e].rev = rows[e].rev /\ rows[e].rev <= rev
          /\ rows[e].rev \in Nat
      BY <1>3, <1>9, <1>11, <2>2 DEF SameEvent
    <2>4. rows[e].rev # 0
      BY <2>1, <2>2 DEF Place
    <2>5. rows'[e].rev # Want'
      BY <1>5, <1>13, <2>3, <2>4
    <2> QED
      BY <2>1, <2>2, <2>3, <2>4, <2>5 DEF Place
  <1>15. \A e \in late' : rows'[e].rev # 0
    BY <1>3, <1>9 DEF StoreInv, Memory, Placed, SameEvent
  <1>16. Placed'
    BY <1>14, <1>15 DEF Placed
  <1> QED
    BY <1>10, <1>12, <1>16

\* edit_note_in_session, _forget_in_session, and the rollout's switch.
LEMMA PersonKept ==
  ASSUME IndexInv, StoreInv, X!Correct \/ X!Forget \/ X!Switch
  PROVE  StoreInv'
  <1>1. /\ rev \in Nat /\ rev >= 1 /\ MaxRev \in Nat /\ X!Revs = 1 .. MaxRev /\ idx \in IndexState
        /\ idx.indexed \in 0 .. MaxRev /\ scan \in Look /\ RowShape
    BY IndexAssumption DEF StoreInv, Memory, X!Revs, IndexInv, ValueTypes
  <1>2. CASE X!Correct
    <2>1. /\ ~gone /\ rev < MaxRev /\ rev' = rev + 1 /\ UNCHANGED <<courier, late, points, stale>>
          /\ gone' = gone /\ purge' = purge /\ sync' = sync /\ scan' = scan
          /\ idx' = [idx EXCEPT !.desired = rev + 1, !.status = "PENDING"]
          /\ X!Add(rows, X!Event("UPSERT", rev + 1, None))
      BY <1>2 DEF X!Correct, X!passes
    <2>2. gone' = ("UPSERT" = "DELETE")
      BY <2>1 DEF StoreInv, Memory
    <2>3. RowShape' /\ Aged' /\ Placed'
      BY <1>1, <2>1, <2>2, SameAsItself, EventQueued
    <2>4. idx'.desired = rev + 1 /\ idx'.indexed = idx.indexed /\ idx'.status = "PENDING"
      BY <1>1, <2>1 DEF IndexState
    <2>5. Memory' /\ Indexed'
      BY <1>1, <2>1, <2>4 DEF StoreInv, Memory, Indexed, Compared
    <2>6. Purged'
      BY <2>1 DEF StoreInv, Purged, X!PurgedIsQuiet
    <2> QED
      BY <2>3, <2>5, <2>6 DEF StoreInv
  <1>3. CASE X!Forget
    <2>1. /\ ~gone /\ rev < MaxRev /\ rev' = rev + 1 /\ UNCHANGED <<courier, late, points, stale>>
          /\ gone' = TRUE /\ purge' \in {"PENDING", "none"} /\ sync' = sync /\ scan' = scan
          /\ idx' = [idx EXCEPT !.desired = rev + 1, !.status = "DELETE_PENDING"]
          /\ X!Add(X!Superseded, X!Event("DELETE", rev + 1, None))
      BY <1>3 DEF X!Forget, X!passes
    <2>2. gone' = ("DELETE" = "DELETE")
      BY <2>1
    <2>a. PICK table : table = X!Superseded
      OBVIOUS
    <2>b. SameTable(table) /\ X!Add(table, X!Event("DELETE", rev + 1, None))
      BY <1>1, <2>1, <2>a, SameTables
    <2>3. RowShape' /\ Aged' /\ Placed'
      BY <1>1, <2>1, <2>2, <2>b, EventQueued
    <2>4. idx'.desired = rev + 1 /\ idx'.indexed = idx.indexed /\ idx'.status = "DELETE_PENDING"
      BY <1>1, <2>1 DEF IndexState
    <2>5. Memory' /\ Indexed'
      BY <1>1, <2>1, <2>4 DEF StoreInv, Memory, Indexed, Compared
    <2>6. Purged'
      BY <2>1 DEF Purged, X!PurgedIsQuiet
    <2> QED
      BY <2>3, <2>5, <2>6 DEF StoreInv
  <1>4. CASE X!Switch
    <2>1. UNCHANGED <<rev, gone, scan, stale, rows, idx, points, late, courier, purge>> /\ sync' \in BOOLEAN
      <3>1. UNCHANGED <<rev, gone, scan, stale, rows, idx, points, late, courier, purge>> /\ sync' = ~sync
        BY <1>4 DEF X!Switch, X!sql, X!passes
      <3>2. (~sync) \in BOOLEAN
        OBVIOUS
      <3> QED
        BY <3>1, <3>2
    <2>2. Onward
      BY <1>1, <2>1, SameAsItself, AllStay DEF StoreInv, Onward, Memory, Placed, Indexed
    <2> QED
      BY <2>2, OnwardKept
  <1> QED
    BY <1>2, <1>3, <1>4

-----------------------------------------------------------------------------
(* A delivery. *)

\* What such a step leaves alone.
SameState == UNCHANGED <<rev, gone, scan, stale, sync, idx, purge>>

LEMMA OnwardFrom ==
  ASSUME StoreInv, SameState, SameTable(rows'), points' \subseteq X!Revs,
         ~stale /\ Want \in points => Want \in points',
         late' \subseteq X!Slots, \A e \in late' : rows[e].rev # 0,
         \A w \in Workers : courier'[w].at # "idle" => Place(courier'[w].at, courier'[w].e, points')
  PROVE  StoreInv'
  <1>1. ~stale /\ idx.status = "INDEXED" => ~gone /\ idx.indexed = rev /\ rev \in points'
    BY DEF StoreInv, Indexed, Want
  <1>2. Onward
    BY <1>1 DEF StoreInv, Memory, SameState, Onward
  <1> QED
    BY <1>2, OnwardKept

LEMMA ClaimKept ==
  ASSUME IndexInv, StoreInv, NEW w \in Workers, X!Claim(w)
  PROVE  StoreInv'
  <1>1. SameState /\ UNCHANGED <<points, late>> /\ RowShape
    BY DEF X!Claim, X!sql, X!passes, SameState, StoreInv
  <1>2. points \subseteq X!Revs /\ late \subseteq X!Slots /\ \A e \in late : rows[e].rev # 0
    BY DEF StoreInv, Memory, Placed
  <1>3. CASE rows' = X!Buried /\ UNCHANGED courier
    BY <1>1, <1>2, <1>3, SameTables, AllStay, OnwardFrom
  <1>4. CASE \E e \in X!Slots :
               /\ X!Claimable(e) /\ rows[e].tries < MaxAttempts
               /\ rows' = [X!Buried EXCEPT ![e].status = "RUNNING", ![e].lease = w,
                                           ![e].tries = @ + 1]
               /\ courier' = [courier EXCEPT ![w] = [at |-> "start", e |-> e]]
    <2>1. PICK e \in X!Slots :
               /\ X!Claimable(e) /\ rows[e].tries < MaxAttempts
               /\ rows' = [X!Buried EXCEPT ![e].status = "RUNNING", ![e].lease = w,
                                           ![e].tries = @ + 1]
               /\ courier' = [courier EXCEPT ![w] = [at |-> "start", e |-> e]]
      BY <1>4
    <2>2. rows[e] \in TypedRow /\ rows[e].status \in X!Outstanding /\ rows[e].tries \in Nat
      BY <1>1, <2>1 DEF RowShape, TypedRow, X!Claimable, X!Outstanding
    <2>3. X!Buried[e] = rows[e] /\ X!Buried \in [X!Slots -> TypedRow]
      <3>1. ~(rows[e].tries >= MaxAttempts)
        BY <2>1, <2>2, JobsAssumption
      <3>2. X!Buried[e] = rows[e]
        BY <3>1 DEF X!Buried
      <3> QED
        BY <1>1, <3>2, SameTables DEF SameTable
    <2> DEFINE row == [rows[e] EXCEPT !.status = "RUNNING", !.lease = w, !.tries = rows[e].tries + 1]
    <2>4. rows' = [X!Buried EXCEPT ![e] = row]
      BY <2>1, <2>3
    <2>5. row \in TypedRow /\ Leased(row) /\ SameEvent(row, rows[e])
      BY <2>1, <2>2, TypedTaken
    <2> HIDE DEF row
    <2>a. PICK table : table = X!Buried
      OBVIOUS
    <2>6. SameTable(rows')
      BY <1>1, <2>4, <2>5, <2>a, SameTables, SameButOne
    <2>7. rows[e].rev # 0
      BY <2>2 DEF StoreInv, Aged
    <2>8. Place("start", e, points')
      BY <2>7 DEF Place
    <2>9. \A v \in Workers : courier'[v].at # "idle" => Place(courier'[v].at, courier'[v].e, points')
      <3>1. courier \in [Workers -> Delivery]
        BY DEF IndexInv, CourierTypes
      <3>2. courier'[w] = [at |-> "start", e |-> e] /\ \A v \in Workers \ {w} : courier'[v] = courier[v]
        BY <2>1, <3>1
      <3>3. courier'[w].at = "start" /\ courier'[w].e = e
        BY <3>2
      <3> QED
        BY <1>1, <2>8, <3>2, <3>3, StillPlaced
    <2> QED
      BY <1>1, <1>2, <2>6, <2>9, OnwardFrom
  <1> QED
    BY <1>3, <1>4 DEF X!Claim

\* A worker that is at work, and its event.
LEMMA AtWork ==
  ASSUME IndexInv, StoreInv, NEW w \in Workers, courier[w].at # "idle"
  PROVE  /\ courier[w].e \in X!Slots /\ Place(courier[w].at, courier[w].e, points)
         /\ rows[courier[w].e] \in TypedRow
         /\ rows[courier[w].e].rev \in Nat /\ rows[courier[w].e].rev \in X!Revs
         /\ rows[courier[w].e].rev <= rev /\ rev \in Nat
         /\ ~stale => (X!Current(courier[w].e) <=> rows[courier[w].e].rev = Want)
  <1>1. Place(courier[w].at, courier[w].e, points)
    BY DEF StoreInv, Placed
  <1>2. courier[w].e \in X!Slots /\ rows[courier[w].e].rev # 0
    BY <1>1 DEF Place
  <1>3. rows[courier[w].e] \in TypedRow /\ rows[courier[w].e].rev \in 0 .. MaxRev
    BY <1>2 DEF StoreInv, RowShape, TypedRow
  <1>4. rows[courier[w].e].rev <= rev /\ rev \in X!Revs
    BY <1>2 DEF StoreInv, Aged, Memory
  <1>5. ~stale => (X!Current(courier[w].e) <=> rows[courier[w].e].rev = Want)
    BY <1>2, CurrentIsWanted
  <1> QED
    BY <1>1, <1>2, <1>3, <1>4, <1>5, IndexAssumption DEF X!Revs

\* What is wanted is a revision of the memory, unless it is forgotten.
LEMMA WantFact ==
  ASSUME StoreInv
  PROVE  /\ gone => Want = 0 /\ Want \notin points
         /\ ~gone => Want = rev
         /\ Want \in Nat
  BY IndexAssumption DEF StoreInv, Memory, Want, X!Revs

LEMMA DeliveryKept ==
  ASSUME IndexInv, StoreInv, NEW w \in Workers,
         \/ X!Start(w) \/ X!Recheck(w) \/ X!Send(w) \/ X!Write(w) \/ X!AfterWrite(w)
         \/ X!Prune(w) \/ X!Undo(w) \/ X!Purge(w)
  PROVE  StoreInv'
  <1>1. SameState /\ UNCHANGED <<rows, late>> /\ courier[w].at # "idle"
    BY DEF X!Start, X!Recheck, X!Send, X!Write, X!AfterWrite, X!Prune, X!Undo, X!Purge,
           X!sql, X!passes, SameState
  <1>2. PICK e \in X!Slots : e = courier[w].e
    BY <1>1, AtWork
  <1>3. /\ Place(courier[w].at, e, points) /\ rows[e] \in TypedRow /\ rows[e].rev \in Nat
        /\ rows[e].rev \in X!Revs /\ rows[e].rev <= rev /\ rev \in Nat
        /\ ~stale => (X!Current(e) <=> rows[e].rev = Want)
    BY <1>1, <1>2, AtWork
  <1>4. rows[e].rev # 0 /\ rows[e].op \in {"UPSERT", "DELETE"}
    BY <1>3 DEF Place, TypedRow
  <1>5. /\ points \subseteq X!Revs /\ late \subseteq X!Slots /\ \A d \in late : rows[d].rev # 0
        /\ SameTable(rows)
    BY SameAsItself DEF StoreInv, Memory, Placed
  <1>6. ASSUME points' \subseteq X!Revs, ~stale /\ Want \in points => Want \in points',
               \/ X!Drop(w)
               \/ \E p \in CourierPoints : X!Go(w, p) /\ Place(p, e, points')
        PROVE  StoreInv'
    <2>1. \A v \in Workers : courier'[v].at # "idle" => Place(courier'[v].at, courier'[v].e, points')
      BY <1>2, <1>6, OneDrops, OneGoes
    <2> QED
      BY <1>1, <1>5, <1>6, <2>1, OnwardFrom
  <1>7. CASE X!Start(w)
    <2>1. points' = points
      BY <1>7 DEF X!Start
    <2>2. \/ X!Drop(w)
          \/ rows[e].op = "DELETE" /\ X!Go(w, "purge")
          \/ rows[e].op = "UPSERT" /\ (~stale => rows[e].rev # Want) /\ X!Go(w, "undo")
          \/ rows[e].op = "UPSERT" /\ X!Go(w, "embedded")
      BY <1>2, <1>3, <1>7 DEF X!Start
    <2>3. \/ X!Drop(w)
          \/ \E p \in CourierPoints : X!Go(w, p) /\ Place(p, e, points')
      BY <1>4, <2>2 DEF Place, CourierPoints
    <2> QED
      BY <1>5, <1>6, <2>1, <2>3
  <1>8. CASE X!Recheck(w) \/ X!Send(w)
    <2>1. points' = points /\ rows[e].op = "UPSERT"
      BY <1>3, <1>8 DEF X!Recheck, X!Send, Place
    <2>2. \/ X!Drop(w)
          \/ (~stale => rows[e].rev # Want) /\ X!Go(w, "undo")
          \/ X!Go(w, "ready") \/ X!Go(w, "sent")
      BY <1>2, <1>3, <1>8 DEF X!Recheck, X!Send
    <2>3. \/ X!Drop(w)
          \/ \E p \in CourierPoints : X!Go(w, p) /\ Place(p, e, points')
      BY <1>4, <2>1, <2>2 DEF Place, CourierPoints
    <2> QED
      BY <1>5, <1>6, <2>1, <2>3
  <1>9. CASE X!Write(w)
    <2>1. points' = points \cup {rows[e].rev} /\ rows[e].op = "UPSERT" /\ X!Go(w, "wrote")
      BY <1>2, <1>3, <1>9 DEF X!Write, Place
    <2>2. Place("wrote", e, points') /\ "wrote" \in CourierPoints
      BY <1>4, <2>1 DEF Place, CourierPoints
    <2> QED
      BY <1>3, <1>5, <1>6, <2>1, <2>2
  <1>10. CASE X!AfterWrite(w)
    <2>1. /\ points' = points /\ rows[e].op = "UPSERT"
          /\ ~stale /\ rows[e].rev = Want => Want \in points
      BY <1>3, <1>10 DEF X!AfterWrite, Place
    <2>2. \/ X!Drop(w)
          \/ (~stale => rows[e].rev # Want) /\ X!Go(w, "undo")
          \/ X!Go(w, "prune")
      BY <1>2, <1>3, <1>10 DEF X!AfterWrite
    <2>3. \/ X!Drop(w)
          \/ \E p \in CourierPoints : X!Go(w, p) /\ Place(p, e, points')
      BY <1>4, <2>1, <2>2 DEF Place, CourierPoints
    <2> QED
      BY <1>5, <1>6, <2>1, <2>3
  <1>11. CASE X!Prune(w)
    <2>1. /\ points' = {r \in points : r >= rows[e].rev} /\ rows[e].op = "UPSERT"
          /\ ~stale /\ rows[e].rev = Want => Want \in points
          /\ X!Go(w, "indexed")
      BY <1>2, <1>3, <1>11 DEF X!Prune, Place
    <2>2. ~stale /\ Want \in points => Want \in points'
      BY <1>3, <2>1, WantFact
    <2>3. Place("indexed", e, points') /\ "indexed" \in CourierPoints
      BY <1>4, <2>1, <2>2 DEF Place, CourierPoints
    <2> QED
      BY <1>5, <1>6, <2>1, <2>2, <2>3
  <1>12. CASE X!Undo(w)
    <2>1. /\ points' = points \ {rows[e].rev} /\ rows[e].op = "UPSERT" /\ (~stale => rows[e].rev # Want)
          /\ X!Go(w, "ineligible")
      BY <1>2, <1>3, <1>12 DEF X!Undo, Place
    <2>2. Place("ineligible", e, points') /\ "ineligible" \in CourierPoints
      BY <1>4, <2>1 DEF Place, CourierPoints
    <2> QED
      BY <1>5, <1>6, <2>1, <2>2
  <1>13. CASE X!Purge(w)
    <2>1. points' = {} /\ rows[e].op = "DELETE" /\ X!Go(w, "deleted")
      BY <1>2, <1>3, <1>13 DEF X!Purge, Place
    <2>2. gone
      BY <2>1 DEF StoreInv, Aged
    <2>3. Place("deleted", e, points') /\ "deleted" \in CourierPoints
      BY <1>4, <2>1 DEF Place, CourierPoints
    <2> QED
      BY <1>6, <2>1, <2>2, <2>3, WantFact
  <1> QED
    BY <1>7, <1>8, <1>9, <1>10, <1>11, <1>12, <1>13

\* The transaction at the end of deliver_outbox: what it calls indexed is there,
\* and it calls a tombstone purged only if its own event was the last one open.
LEMMA SettleKept ==
  ASSUME IndexInv, StoreInv, NEW w \in Workers, X!Settle(w)
  PROVE  StoreInv'
  <1>1. /\ UNCHANGED <<rev, gone, scan, stale, sync, points, late>> /\ X!Drop(w)
        /\ courier[w].at \in {"indexed", "ineligible", "deleted"} /\ courier[w].at # "idle"
    BY DEF X!Settle, X!sql, X!passes, X!Status
  <1>2. PICK e \in X!Slots : e = courier[w].e
    BY <1>1, AtWork
  <1>3. /\ Place(courier[w].at, e, points) /\ rows[e] \in TypedRow /\ rows[e].rev \in Nat
        /\ rows[e].rev \in X!Revs /\ rows[e].rev <= rev /\ rev \in Nat
    BY <1>1, <1>2, AtWork
  <1>4. /\ points \subseteq X!Revs /\ late \subseteq X!Slots /\ \A d \in late : rows[d].rev # 0
        /\ SameTable(rows) /\ rows \in [X!Slots -> TypedRow]
    BY SameAsItself DEF StoreInv, Memory, Placed, RowShape
  <1>5. \A v \in Workers : courier'[v].at # "idle" => Place(courier'[v].at, courier'[v].e, points')
    BY <1>1, OneDrops
  <1>6. CASE ~X!Holds(w)
    <2>1. SameState /\ rows' = rows
      BY <1>1, <1>6 DEF X!Settle, SameState
    <2> QED
      BY <1>1, <1>4, <1>5, <2>1, OnwardFrom
  <1>7. CASE X!Holds(w)
    <2>1. rows' = [rows EXCEPT ![e] = X!Done(rows[e], "SUCCEEDED")]
      BY <1>2, <1>4, <1>7 DEF X!Settle
    <2> DEFINE row == X!Done(rows[e], "SUCCEEDED")
    <2>2. row \in TypedRow /\ Leased(row) /\ SameEvent(row, rows[e]) /\ row.status = "SUCCEEDED"
      BY <1>3, TypedDone
    <2> HIDE DEF row
    <2>3. SameTable(rows') /\ rows'[e] = row /\ \A d \in X!Slots \ {e} : rows'[d] = rows[d]
      BY <1>4, <2>1, <2>2, SameButOne DEF row
    <2>4. \/ idx' = idx
          \/ /\ idx.desired = rows[e].rev
             /\ idx' = [idx EXCEPT !.status = X!Status[courier[w].at], !.indexed = rows[e].rev]
      BY <1>2, <1>7 DEF X!Settle
    <2>5. idx \in IndexState /\ (~stale => idx.desired = rev) /\ idx.indexed \in 0 .. MaxRev
          /\ rows[e].rev \in 0 .. MaxRev
      BY <1>3, IndexAssumption DEF IndexInv, ValueTypes, StoreInv, Memory, X!Revs
    <2>6. /\ idx'.desired = idx.desired /\ idx'.indexed \in 0 .. MaxRev
          /\ ~stale /\ idx'.status = "INDEXED" => ~gone /\ idx'.indexed = rev /\ rev \in points'
      <3>1. CASE idx' = idx
        BY <1>1, <2>5, <3>1 DEF StoreInv, Indexed
      <3>2. CASE /\ idx.desired = rows[e].rev
                 /\ idx' = [idx EXCEPT !.status = X!Status[courier[w].at], !.indexed = rows[e].rev]
        <4>1. /\ idx'.desired = idx.desired /\ idx'.indexed = rows[e].rev
              /\ idx'.status = X!Status[courier[w].at]
          BY <2>5, <3>2 DEF IndexState
        <4>2. ASSUME ~stale, idx'.status = "INDEXED"
              PROVE  ~gone /\ rev \in points
          <5>1. courier[w].at = "indexed"
            BY <1>1, <4>1, <4>2 DEF X!Status
          <5>2. rows[e].op = "UPSERT" /\ (rows[e].rev = Want => Want \in points)
            BY <1>3, <4>2, <5>1 DEF Place
          <5>3. ~gone
            BY <1>3, <2>5, <3>2, <4>2, <5>2 DEF StoreInv, Aged
          <5> QED
            BY <2>5, <3>2, <4>2, <5>2, <5>3, WantFact
        <4> QED
          BY <1>1, <2>5, <3>2, <4>1, <4>2
      <3> QED
        BY <2>4, <3>1, <3>2
    <2>7. \/ purge' = purge
          \/ /\ purge # "none" /\ purge' = "PENDING"
          \/ /\ purge # "none" /\ purge' = "SUCCEEDED" /\ ~X!OthersOpen(e)
      BY <1>2, <1>7 DEF X!Settle
    <2>8. purge # "none" => gone
      BY DEF StoreInv, Purged
    <2>9. ~X!OthersOpen(e) => \A d \in X!Slots : rows'[d].status \notin X!Outstanding
      <3>1. "SUCCEEDED" \notin X!Outstanding
        BY DEF X!Outstanding
      <3> QED
        BY <2>2, <2>3, <3>1 DEF X!OthersOpen
    <2>10. Onward
      BY <1>1, <1>4, <1>5, <2>3, <2>6, <2>7, <2>8, <2>9 DEF StoreInv, Memory, Onward
    <2> QED
      BY <2>10, OnwardKept
  <1> QED
    BY <1>6, <1>7

\* A worker lets go of its event, by a failure or a crash; its write may arrive.
LEMMA LetGoKept ==
  ASSUME IndexInv, StoreInv, NEW w \in Workers, X!Fail(w) \/ X!Crash(w)
  PROVE  StoreInv'
  <1>1. /\ UNCHANGED <<rev, gone, scan, stale, sync, points, purge>> /\ X!Drop(w) /\ courier[w].at # "idle"
        /\ late' = late \/ late' = late \cup {courier[w].e}
    BY DEF X!Fail, X!Crash, X!sql, X!passes
  <1>2. PICK e \in X!Slots : e = courier[w].e
    BY <1>1, AtWork
  <1>3. Place(courier[w].at, e, points) /\ rows[e] \in TypedRow
    BY <1>1, <1>2, AtWork
  <1>4. /\ points \subseteq X!Revs /\ SameTable(rows) /\ rows \in [X!Slots -> TypedRow]
        /\ late' \subseteq X!Slots /\ \A d \in late' : rows[d].rev # 0
    BY <1>1, <1>2, <1>3, SameAsItself DEF StoreInv, Memory, Placed, RowShape, Place
  <1>5. \A v \in Workers : courier'[v].at # "idle" => Place(courier'[v].at, courier'[v].e, points')
    BY <1>1, OneDrops
  <1>6. CASE X!Crash(w) \/ ~X!Holds(w)
    <2>1. SameState /\ rows' = rows
      BY <1>1, <1>6 DEF X!Fail, X!Crash, SameState
    <2> QED
      BY <1>1, <1>4, <1>5, <2>1, OnwardFrom
  <1>7. CASE X!Fail(w) /\ X!Holds(w)
    <2>1. \/ rows' = [rows EXCEPT ![e] = X!Done(rows[e], "CANCELLED")]
          \/ \E st \in {"DEAD", "RETRY"} :
                rows' = [rows EXCEPT ![e] = [rows[e] EXCEPT !.status = st, !.lease = None]]
      BY <1>2, <1>4, <1>7 DEF X!Fail
    <2>2. rows[e].status \in X!Outstanding
      BY <1>2, <1>7 DEF X!Holds, X!Outstanding
    <2>3. SameTable(rows')
      <3>1. ASSUME rows' = [rows EXCEPT ![e] = X!Done(rows[e], "CANCELLED")]
            PROVE  SameTable(rows')
        BY <1>3, <1>4, <3>1, TypedDone, SameButOne
      <3>2. ASSUME NEW st \in {"DEAD", "RETRY"},
                   rows' = [rows EXCEPT ![e] = [rows[e] EXCEPT !.status = st, !.lease = None]]
            PROVE  SameTable(rows')
        <4> DEFINE row == [rows[e] EXCEPT !.status = st, !.lease = None]
        <4>1. row \in TypedRow /\ Leased(row) /\ SameEvent(row, rows[e])
          BY <1>3, <2>2, TypedEnded
        <4>2. rows' = [rows EXCEPT ![e] = row]
          BY <3>2
        <4> HIDE DEF row
        <4> QED
          BY <1>4, <4>1, <4>2, SameButOne
      <3> QED
        BY <2>1, <3>1, <3>2
    <2>4. \/ idx' = idx
          \/ \E st \in {"DEAD", "RETRY"} : idx' = [idx EXCEPT !.status = st]
      BY <1>7 DEF X!Fail
    <2>5. idx \in IndexState /\ idx.indexed \in 0 .. MaxRev
      BY DEF IndexInv, ValueTypes, StoreInv, Memory
    <2>6. /\ idx'.desired = idx.desired /\ idx'.indexed = idx.indexed
          /\ idx'.status = "INDEXED" => idx.status = "INDEXED"
      BY <2>4, <2>5 DEF IndexState
    <2>7. ~stale /\ idx'.status = "INDEXED" => ~gone /\ idx'.indexed = rev /\ rev \in points'
      BY <1>1, <2>6 DEF StoreInv, Indexed
    <2>8. Onward
      BY <1>1, <1>4, <1>5, <2>3, <2>5, <2>6, <2>7 DEF StoreInv, Memory, Onward
    <2> QED
      BY <2>8, OnwardKept
  <1> QED
    BY <1>6, <1>7

\* The clock.
LEMMA ClockKept ==
  ASSUME IndexInv, StoreInv, NEW e \in X!Slots, X!Arrive(e) \/ X!Lapse(e) \/ X!Grace(e)
  PROVE  StoreInv'
  <1>1. SameState /\ courier' = courier
    BY DEF X!Arrive, X!Lapse, X!Grace, X!sql, X!passes, SameState
  <1>2. /\ rows \in [X!Slots -> TypedRow] /\ rows[e] \in TypedRow /\ SameTable(rows)
        /\ points \subseteq X!Revs /\ late \subseteq X!Slots /\ \A d \in late : rows[d].rev # 0
    BY SameAsItself DEF StoreInv, RowShape, Memory, Placed
  <1>3. CASE X!Arrive(e)
    <2>1. rows' = rows /\ late' \subseteq late /\ e \in late /\ points' = points \cup {rows[e].rev}
      BY <1>3 DEF X!Arrive
    <2>2. rows[e].rev \in X!Revs
      BY <1>2, <2>1, IndexAssumption DEF TypedRow, X!Revs
    <2> QED
      BY <1>1, <1>2, <2>1, <2>2, AllStay, OnwardFrom
  <1>4. CASE X!Lapse(e) \/ X!Grace(e)
    <2>1. PICK l \in {"lapsed", "graced"} :
            rows' = [rows EXCEPT ![e] = [rows[e] EXCEPT !.lease = l]]
      BY <1>2, <1>4 DEF X!Lapse, X!Grace
    <2>2. late' = late /\ points' = points /\ rows[e].status = "RUNNING"
      BY <1>4 DEF X!Lapse, X!Grace
    <2> DEFINE row == [rows[e] EXCEPT !.lease = l]
    <2>3. row \in TypedRow /\ Leased(row) /\ SameEvent(row, rows[e])
      <3>1. l \in X!Leases /\ l # None
        BY IndexAssumption DEF X!Leases
      <3> QED
        BY <1>2, <2>2, <3>1, TypedLease
    <2> HIDE DEF row
    <2>4. SameTable(rows')
      BY <1>2, <2>1, <2>3, SameButOne DEF row
    <2> QED
      BY <1>1, <1>2, <2>2, <2>4, AllStay, OnwardFrom
  <1> QED
    BY <1>3, <1>4

\* The pass that finishes deletions: it deletes only what is forgotten, and
\* leaves no event open.
LEMMA SweepKept ==
  ASSUME IndexInv, StoreInv, X!Sweep, sweep # "idle" => gone
  PROVE  StoreInv'
  <1>1. UNCHANGED <<courier, late, rev, gone, scan, stale, sync>>
    BY DEF X!Sweep, X!SweepDelete, X!SweepVerify, X!SweepCommit, X!sql
  <1>2. /\ RowShape /\ SameTable(rows) /\ points \subseteq X!Revs /\ late \subseteq X!Slots
        /\ \A d \in late : rows[d].rev # 0
    BY SameAsItself DEF StoreInv, Memory, Placed
  <1>3. gone
    BY DEF X!Sweep, X!SweepDelete, X!SweepVerify, X!SweepCommit
  <1>4. Want \notin points
    BY <1>3, WantFact
  <1>5. points' = points \/ points' = {}
    BY DEF X!Sweep, X!SweepDelete, X!SweepVerify, X!SweepCommit
  <1>6. \A v \in Workers : courier'[v].at # "idle" => Place(courier'[v].at, courier'[v].e, points')
    BY <1>1, <1>4, AllStay
  <1>7. CASE UNCHANGED <<rows, idx, purge>>
    BY <1>1, <1>2, <1>4, <1>5, <1>6, <1>7, OnwardFrom DEF SameState
  <1>8. CASE ~UNCHANGED <<rows, idx, purge>>
    <2>1. /\ rows' = X!Cleared
          /\ idx' = [idx EXCEPT !.status = "DELETED", !.indexed = idx.desired]
          /\ purge' = purge \/ purge' = "SUCCEEDED"
      BY <1>8 DEF X!Sweep, X!SweepDelete, X!SweepVerify, X!SweepCommit
    <2>2. SameTable(rows') /\ \A e \in X!Slots : rows'[e].status \notin X!Outstanding
      BY <1>2, <2>1, SameTables
    <2>3. idx \in IndexState /\ idx.desired \in 0 .. MaxRev
      BY IndexAssumption DEF IndexInv, ValueTypes, StoreInv, Memory, X!Revs
    <2>4. idx'.desired = idx.desired /\ idx'.indexed \in 0 .. MaxRev /\ idx'.status = "DELETED"
      BY <2>1, <2>3 DEF IndexState
    <2>5. Onward
      BY <1>1, <1>2, <1>3, <1>4, <1>5, <1>6, <2>1, <2>2, <2>4 DEF StoreInv, Memory, Onward
    <2> QED
      BY <2>5, OnwardKept
  <1> QED
    BY <1>7, <1>8

\* The pass looks only after what is forgotten.
SweepGone == sweep # "idle" => gone

LEMMA SweepGoneKept ==
  ASSUME SweepGone, X!Next
  PROVE  SweepGone'
  <1>1. (sweep' = sweep \/ sweep' = "idle" \/ gone) /\ (gone' = gone \/ gone')
    <2>1. ASSUME NEW w \in Workers, X!Claim(w) \/ X!Fail(w) \/ X!Crash(w)
          PROVE  sweep' = sweep /\ gone' = gone
      BY <2>1 DEF X!Claim, X!Fail, X!Crash, X!passes, X!sql
    <2>2. ASSUME NEW w \in Workers, X!Deliver(w)
          PROVE  sweep' = sweep /\ gone' = gone
      BY <2>2 DEF X!Deliver, X!Start, X!Recheck, X!Send, X!Write, X!AfterWrite, X!Prune, X!Undo,
         X!Purge, X!Settle, X!passes, X!sql
    <2>3. ASSUME NEW f \in X!Slots, X!Arrive(f) \/ X!Lapse(f) \/ X!Grace(f)
          PROVE  sweep' = sweep /\ gone' = gone
      BY <2>3 DEF X!Arrive, X!Lapse, X!Grace, X!passes, X!sql
    <2>4. ASSUME X!Correct \/ X!Forget \/ X!Switch \/ X!Scan
          PROVE  sweep' = sweep /\ (gone' = gone \/ gone')
      BY <2>4 DEF X!Correct, X!Forget, X!Switch, X!Scan, X!ScanRead, X!ScanLook, X!ScanRepair,
         X!passes, X!sql
    <2>5. ASSUME X!Sweep
          PROVE  (sweep' = sweep \/ sweep' = "idle" \/ gone) /\ gone' = gone
      BY <2>5 DEF SweepGone, X!Sweep, X!SweepDelete, X!SweepVerify, X!SweepCommit, X!sql
    <2> QED
      BY <2>1, <2>2, <2>3, <2>4, <2>5 DEF X!Next
  <1> QED
    BY <1>1 DEF SweepGone

\* The comparing pass queues a repair: the events there are stay as they are,
\* and nobody is at the row it takes.
LEMMA RepairQueued ==
  ASSUME IndexInv, StoreInv, scan.at # "idle", NEW op \in {"UPSERT", "DELETE"},
         scan.live <=> op = "UPSERT", X!Add(rows, X!Event(op, scan.rev, scan.seen)),
         UNCHANGED <<rev, gone, courier, late, points, purge>>, stale => stale',
         ~stale' /\ gone => op = "DELETE"
  PROVE  RowShape' /\ Aged' /\ Placed' /\ Purged'
  <1>1. X!FreeRow \in X!Slots /\ X!Free(X!FreeRow)
    BY DEF X!Add, X!FreeRow
  <1>2. PICK f \in X!Slots : f = X!FreeRow
    BY <1>1
  <1>3. f \notin late /\ \A w \in Workers : courier[w].e # f
    BY <1>1, <1>2 DEF X!Free
  <1> DEFINE event == X!Event(op, scan.rev, scan.seen)
  <1>4. /\ scan.rev \in 0 .. MaxRev /\ scan.rev # 0 /\ scan.rev <= rev
        /\ scan.seen \in SUBSET X!Revs /\ (op = "DELETE" => gone)
        /\ (op = "UPSERT" /\ gone => scan.rev < rev)
    BY IndexAssumption DEF StoreInv, Memory, Compared, X!Revs
  <1>5. /\ event \in TypedRow /\ Leased(event) /\ event.op = op /\ event.rev = scan.rev
        /\ event.seen = scan.seen
    BY <1>4, TypedEvent
  <1>6. event.seen # None
    BY <1>4, <1>5, IndexAssumption DEF X!Revs
  <1> HIDE DEF event
  <1>7. rows' = [rows EXCEPT ![f] = event]
    BY <1>2 DEF X!Add, event
  <1>8. /\ rows \in [X!Slots -> TypedRow] /\ rows' \in [X!Slots -> TypedRow] /\ rows'[f] = event
        /\ \A e \in X!Slots \ {f} : rows'[e] = rows[e]
    BY <1>5, <1>7 DEF StoreInv, RowShape
  <1>9. RowShape'
    BY <1>5, <1>8 DEF StoreInv, RowShape, Leased
  <1>10. Aged'
    <2>1. ASSUME NEW e \in X!Slots
          PROVE  /\ rows'[e].rev <= rev /\ (rows'[e].status \in X!Outstanding => rows'[e].rev # 0)
                 /\ rows'[e].op = "DELETE" => gone
                 /\ gone /\ rows'[e].op = "UPSERT" => rows'[e].rev < rev
      <3>1. CASE e = f
        BY <1>4, <1>5, <1>8, <3>1
      <3>2. CASE e # f
        BY <1>8, <3>2 DEF StoreInv, Aged
      <3> QED
        BY <3>1, <3>2
    <2> QED
      BY <2>1 DEF Aged
  <1>11. Want' = Want /\ courier' = courier /\ points' = points /\ late' = late
    BY DEF Want
  <1>12. ASSUME NEW w \in Workers, courier'[w].at # "idle"
         PROVE  Place(courier[w].at, courier[w].e, points)'
    <2>1. Place(courier[w].at, courier[w].e, points)
      BY <1>11, <1>12 DEF StoreInv, Placed
    <2>2. PICK e \in X!Slots : e = courier[w].e
      BY <2>1 DEF Place
    <2>3. rows'[e] = rows[e]
      BY <1>3, <1>8, <2>2
    <2> QED
      BY <1>11, <2>1, <2>2, <2>3 DEF Place
  <1>13. Placed'
    BY <1>3, <1>8, <1>11, <1>12 DEF StoreInv, Memory, Placed
  <1>14. Purged'
    <2>1. ASSUME purge' = "SUCCEEDED", NEW e \in X!Slots, rows'[e].status \in X!Outstanding
          PROVE  rows'[e].seen # None /\ (stale' \/ rows'[e].op = "DELETE")
      <3>1. CASE e = f
        BY <1>5, <1>6, <1>8, <2>1, <3>1 DEF StoreInv, Purged
      <3>2. CASE e # f
        BY <1>8, <2>1, <3>2 DEF StoreInv, Purged, X!PurgedIsQuiet
      <3> QED
        BY <3>1, <3>2
    <2> QED
      BY <2>1 DEF StoreInv, Purged, X!PurgedIsQuiet
  <1> QED
    BY <1>9, <1>10, <1>13, <1>14

\* A reading, a look at the index, and a repair by what was read.
LEMMA ScanKept ==
  ASSUME IndexInv, StoreInv, X!Scan
  PROVE  StoreInv'
  <1>1. UNCHANGED <<courier, late, rev, gone, points, purge, sync>>
    BY DEF X!Scan, X!ScanRead, X!ScanLook, X!ScanRepair, X!sql
  <1>2. /\ scan \in Look /\ idx \in IndexState /\ points \subseteq X!Revs /\ rev \in X!Revs
        /\ gone \in BOOLEAN /\ stale \in BOOLEAN /\ rev \in Nat /\ idx.desired \in Nat
        /\ scan.live \in BOOLEAN
    BY DEF IndexInv, ValueTypes, StoreInv, Memory, IndexState, Look
  <1>3. CASE X!ScanRead \/ X!ScanLook \/ UNCHANGED <<rows, idx, stale>>
    <2>1. UNCHANGED <<rows, idx, stale>>
      BY <1>3 DEF X!ScanRead, X!ScanLook
    <2>2. Compared'
      <3>1. CASE X!ScanRead
        <4>1. /\ scan'.seen = {} /\ scan'.rev = (IF gone THEN idx.desired ELSE rev)
              /\ scan'.live <=> ~gone
          BY <3>1 DEF X!ScanRead
        <4> QED
          BY <1>1, <1>2, <4>1 DEF Compared, StoreInv, Memory
      <3>2. CASE X!ScanLook
        <4>1. \/ scan' = X!NoScan
              \/ /\ scan.at # "idle" /\ scan'.rev = scan.rev /\ scan'.live = scan.live
                 /\ scan'.seen = points
          BY <1>2, <3>2 DEF X!ScanLook, Look
        <4>2. CASE scan' = X!NoScan
          BY <4>2 DEF Compared, X!NoScan
        <4>3. CASE /\ scan.at # "idle" /\ scan'.rev = scan.rev /\ scan'.live = scan.live
                   /\ scan'.seen = points
          BY <1>1, <1>2, <4>3 DEF Compared, StoreInv, Memory
        <4> QED
          BY <4>1, <4>2, <4>3
      <3>3. CASE X!ScanRepair
        BY <3>3 DEF X!ScanRepair, Compared, X!NoScan
      <3> QED
        BY <3>1, <3>2, <3>3 DEF X!Scan
    <2>3. Want' = Want
      BY <1>1 DEF Want
    <2>4. RowShape' /\ Memory' /\ Indexed' /\ Purged'
      BY <1>1, <2>1, <2>2 DEF StoreInv, RowShape, Memory, Indexed, Purged, X!PurgedIsQuiet
    <2>5. Aged'
      BY <1>1, <2>1 DEF StoreInv, Aged
    <2>6. Placed'
      BY <1>1, <2>1, <2>3 DEF StoreInv, Placed, Place
    <2> QED
      BY <2>4, <2>5, <2>6 DEF StoreInv
  <1>4. CASE X!ScanRepair /\ ~UNCHANGED <<rows, idx, stale>>
    <2>1. /\ scan.at # "idle" /\ scan' = X!NoScan
          /\ X!Add(rows, X!Event(IF scan.live THEN "UPSERT" ELSE "DELETE", scan.rev, scan.seen))
          /\ idx' = [idx EXCEPT !.desired = scan.rev, !.status = "PENDING"]
          /\ stale' = (stale \/ ~X!Fresh)
      BY <1>4 DEF X!ScanRepair
    <2>2. stale' \in BOOLEAN /\ (stale => stale') /\ (~stale' => ~stale /\ X!Fresh)
      <3>1. (stale \/ ~X!Fresh) \in BOOLEAN
        OBVIOUS
      <3> QED
        BY <1>2, <2>1, <3>1
    <2>3. X!Fresh => /\ scan.live <=> ~gone
                     /\ scan.rev = IF gone THEN idx.desired ELSE rev
      BY DEF X!Fresh
    <2>4. PICK op \in {"UPSERT", "DELETE"} :
            (scan.live <=> op = "UPSERT") /\ X!Add(rows, X!Event(op, scan.rev, scan.seen))
      BY <2>1
    <2>5. RowShape' /\ Aged' /\ Placed' /\ Purged'
      BY <1>1, <2>1, <2>2, <2>3, <2>4, RepairQueued
    <2>6. idx'.desired = scan.rev /\ idx'.indexed = idx.indexed /\ idx'.status = "PENDING"
      BY <1>2, <2>1 DEF IndexState
    <2>7. scan.rev \in X!Revs /\ scan.rev <= rev /\ (~stale' => scan.rev = rev)
      BY <2>1, <2>2, <2>3 DEF StoreInv, Memory, Compared
    <2>8. Compared'
      BY <2>1 DEF Compared, X!NoScan
    <2>9. Memory' /\ Indexed'
      BY <1>1, <2>2, <2>6, <2>7, <2>8 DEF StoreInv, Memory, Indexed
    <2> QED
      BY <2>5, <2>9 DEF StoreInv
  <1> QED
    BY <1>3, <1>4 DEF X!Scan

LEMMA StoreInitially == X!Init => StoreInv /\ SweepGone
  <1> SUFFICES ASSUME X!Init PROVE StoreInv /\ SweepGone
    OBVIOUS
  <1>1. /\ rev = 1 /\ gone = FALSE /\ purge = "none" /\ points = {} /\ late = {}
        /\ scan = X!NoScan /\ stale = FALSE /\ sync = TRUE /\ sweep = "idle"
        /\ rows = [e \in X!Slots |-> IF e = 1 THEN X!Event("UPSERT", 1, None) ELSE X!NoRow]
        /\ idx = [desired |-> 1, indexed |-> 0, status |-> "PENDING"]
        /\ courier = [w \in Workers |-> X!Idle]
    BY DEF X!Init
  <1>2. 1 \in 0 .. MaxRev /\ 0 \in 0 .. MaxRev /\ 1 \in X!Revs
    BY IndexAssumption DEF X!Revs
  <1>3. X!NoRow \in TypedRow /\ Leased(X!NoRow) /\ X!NoRow.status \notin X!Outstanding
        /\ X!NoRow.rev = 0 /\ X!NoRow.op = "UPSERT"
    BY <1>2, JobsAssumption DEF X!NoRow, TypedRow, X!Outstanding, X!Leases, Leased
  <1>4. /\ X!Event("UPSERT", 1, None) \in TypedRow /\ Leased(X!Event("UPSERT", 1, None))
        /\ X!Event("UPSERT", 1, None).op = "UPSERT" /\ X!Event("UPSERT", 1, None).rev = 1
    BY <1>2, TypedEvent
  <1>5. RowShape
    BY <1>1, <1>3, <1>4 DEF RowShape
  <1>a. Compared
    BY <1>1 DEF Compared, X!NoScan
  <1>6. Memory /\ Indexed
    <2>1. gone \in BOOLEAN /\ sync \in BOOLEAN /\ stale \in BOOLEAN
      BY <1>1
    <2>2. idx.desired = 1 /\ idx.indexed = 0 /\ idx.status = "PENDING"
      BY <1>1
    <2>3. points \subseteq X!Revs /\ late \subseteq X!Slots /\ rev = 1 /\ 1 <= 1
      BY <1>1
    <2> QED
      BY <1>2, <1>a, <2>1, <2>2, <2>3 DEF Memory, Indexed
  <1>7. Aged
    BY <1>1, <1>3, <1>4 DEF Aged
  <1>8. Placed
    BY <1>1 DEF Placed, X!Idle
  <1>9. Purged /\ SweepGone
    BY <1>1 DEF Purged, X!PurgedIsQuiet, SweepGone
  <1> QED
    BY <1>5, <1>6, <1>7, <1>8, <1>9 DEF StoreInv

LEMMA StoreInductive ==
  ASSUME IndexInv, StoreInv, SweepGone, [X!Next]_(X!vars)
  PROVE  StoreInv' /\ SweepGone'
  <1>1. CASE X!Next
    <2>1. StoreInv'
      BY <1>1, PersonKept, ClaimKept, DeliveryKept, SettleKept, LetGoKept, ClockKept, SweepKept,
         ScanKept DEF X!Next, X!Deliver, SweepGone
    <2> QED
      BY <1>1, <2>1, SweepGoneKept
  <1>2. CASE UNCHANGED X!vars
    <2>1. UNCHANGED <<rows, courier, late, rev, gone, points, idx, scan, stale, sync, purge, sweep>>
      BY <1>2 DEF X!vars
    <2>2. StoreInv'
      BY <2>1, SameAsItself, AllStay, OnwardFrom DEF StoreInv, Memory, Placed, SameState
    <2> QED
      BY <2>1, <2>2 DEF SweepGone
  <1> QED
    BY <1>1, <1>2

\* What the index state and the tombstone claim is true (deliver_outbox,
\* reconcile_pending_deletions, reconcile), for any number of workers, revisions,
\* outbox rows, failures, crashes, lost leases, switches and repairs: a tombstone
\* is called purged when no event is left but repairs, and, as long as no repair
\* was queued by an outdated reading, a revision called indexed is in the index.
THEOREM IndexSafe == X!Spec => []IndexSound
  <1>1. X!Init => IndexInv /\ StoreInv /\ SweepGone
    BY IndexInitially, StoreInitially
  <1>2. IndexInv /\ StoreInv /\ SweepGone /\ [X!Next]_(X!vars)
          => (IndexInv /\ StoreInv /\ SweepGone)'
    BY IndexInductive, StoreInductive
  <1>3. IndexInv /\ StoreInv => IndexSound
    <2> SUFFICES ASSUME IndexInv, StoreInv PROVE IndexSound
      OBVIOUS
    <2>1. idx \in IndexState /\ (~stale => idx.desired = rev) /\ idx.desired \in X!Revs
      BY DEF IndexInv, ValueTypes, StoreInv, Memory
    <2>2. X!TypeOK
      BY <2>1 DEF X!TypeOK, StoreInv, Memory, RowShape, TypedRow, Leased, Purged, IndexState
    <2>3. X!IndexedIsThere
      BY <2>1 DEF X!IndexedIsThere, StoreInv, Indexed
    <2> QED
      BY <2>2, <2>3 DEF IndexSound, StoreInv, Purged
  <1> QED
    BY <1>1, <1>2, <1>3, PTL DEF X!Spec

=============================================================================
