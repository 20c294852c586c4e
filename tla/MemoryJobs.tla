----------------------------- MODULE MemoryJobs -----------------------------
(***************************************************************************)
(* Extraction of long-term memories from finished turns (memory/jobs.py and *)
(* the worker of memory/extraction.py), for one branch of one chat.         *)
(*                                                                          *)
(* Every finished turn has a receipt with an ordinal and, possibly later, a *)
(* job.  Workers of several processes claim jobs under a lease, read the    *)
(* turn and the memories it is compared with, call a model without holding  *)
(* anything, and commit what they found only if all of it still stands.     *)
(* Meanwhile the person goes on: forgets a turn, corrects a memory, pauses  *)
(* saving, deletes the chat, dismisses or replays a job that died.  A       *)
(* cursor marks how far the turns are done without a hole.                  *)
(***************************************************************************)
EXTENDS Naturals, FiniteSets

CONSTANTS Turns,         \* bound on the turns of the branch
          Workers,
          None,
          MaxAttempts,   \* MAX_ATTEMPTS
          MaxEdits,      \* bound on corrections of memories by the person
          MaxErrors,     \* bound on failed model calls
          MaxStops,      \* bound on crashes and stalls that cost a lease
          MaxPauses,     \* bound on switching saving off
          MaxReplays     \* bound on explicit replays

ASSUME JobsAssumption ==
    /\ Turns \in Nat /\ MaxAttempts \in Nat \ {0}
    /\ None \notin Workers

VARIABLES
    turns,       \* receipts written so far
    job,         \* the job of each ordinal
    cursor,      \* completed_ordinal
    worker,      \* what each worker is doing, with what it has frozen
    paused,      \* automatic saving is off
    forgotten,   \* turns whose sources are gone or changed
    deleted,     \* the chat is deleted, or isolated from memory
    base,        \* the revision of the memories turns are compared with
    stored,      \* turns a memory was stored from
    spent        \* how often each bounded event has happened

vars == <<turns, job, cursor, worker, paused, forgotten, deleted, base, stored, spent>>

Ordinals == 1..Turns
Complete == {"SUCCEEDED", "CANCELLED"}      \* COMPLETE_STATES
Absent == [state |-> "absent", tries |-> 0, owner |-> None]
Idle == [at |-> "idle", n |-> 0, tries |-> 0, base |-> 0]

Init ==
    /\ turns = 0 /\ cursor = 0 /\ base = 0
    /\ job = [n \in Ordinals |-> Absent]
    /\ worker = [w \in Workers |-> Idle]
    /\ paused = FALSE /\ deleted = FALSE
    /\ forgotten = {} /\ stored = {}
    /\ spent = [edit |-> 0, error |-> 0, stop |-> 0, pause |-> 0, replay |-> 0]

Spend(kind, bound) == spent[kind] < bound /\ spent' = [spent EXCEPT ![kind] = @ + 1]

-----------------------------------------------------------------------------
(* The cursor.                                                              *)

\* Mutant: a hole is skipped when a later turn is done.
AdvanceOverHoles(jobs, c) ==
    CHOOSE k \in c..Turns : /\ k = c \/ jobs[k].state \in Complete
                            /\ \A n \in (k + 1)..Turns : jobs[n].state \notin Complete

\* _advance_cursor_locked: as far as every ordinal is complete.
Advance(jobs, c) ==
    CHOOSE k \in c..Turns : /\ \A n \in (c + 1)..k : jobs[n].state \in Complete
                            /\ k = Turns \/ jobs[k + 1].state \notin Complete

-----------------------------------------------------------------------------
(* A turn ends, and its job is queued.                                      *)

Queued(n, state) == job' = [job EXCEPT ![n] = [Absent EXCEPT !.state = state]]

\* record_completion_locked: the receipt and its job, in the transaction that
\* settles the turn.  While saving is off the turn is recorded as one never to
\* extract.  A failure to schedule loses the job and keeps the receipt.
Record ==
    /\ turns < Turns /\ ~deleted
    /\ turns' = turns + 1
    /\ IF paused THEN Queued(turns + 1, "CANCELLED") /\ cursor' = Advance(job', cursor)
       ELSE /\ UNCHANGED cursor
            /\ \/ Queued(turns + 1, "PENDING")
               \/ UNCHANGED job
    /\ UNCHANGED <<worker, paused, forgotten, deleted, base, stored, spent>>

\* recover_extraction_jobs: a receipt without a job.
Recover(n) ==
    /\ n <= turns /\ job[n].state = "absent" /\ ~deleted
    /\ Queued(n, "PENDING")
    /\ UNCHANGED <<turns, cursor, worker, paused, forgotten, deleted, base, stored, spent>>

\* ... and a settled inbox turn without a receipt.
RecoverInbox ==
    /\ turns < Turns /\ ~deleted
    /\ turns' = turns + 1
    /\ Queued(turns + 1, IF paused THEN "CANCELLED" ELSE "PENDING")
    /\ UNCHANGED <<cursor, worker, paused, forgotten, deleted, base, stored, spent>>

-----------------------------------------------------------------------------
(* A worker.                                                                *)

\* _lease_conditions: running, owned by this worker, and not run out.
Holds(w) == LET n == worker[w].n IN job[n].state = "RUNNING" /\ job[n].owner = w

\* A lease that ran out leaves the job running and owned by nobody.
Lapsed(n) == job[n].state = "RUNNING" /\ job[n].owner = None

\* Mutant: a job whose worker is gone is not due.
DueQueued(n) == job[n].state \in {"PENDING", "RETRY"}
Due(n) == job[n].state \in {"PENDING", "RETRY"} \/ Lapsed(n)
Exhausted(n) == Lapsed(n) /\ job[n].tries >= MaxAttempts

\* claim_job: jobs whose last attempt was lost are dead; a due one is taken,
\* or all are cancelled when the chat is gone.
Buried == [n \in Ordinals |->
             IF Exhausted(n) THEN [job[n] EXCEPT !.state = "DEAD"] ELSE job[n]]
Takeable(n) == Due(n) /\ job[n].tries < MaxAttempts
Claim(w) ==
    /\ worker[w].at = "idle"
    /\ \/ /\ ~deleted
          /\ \E n \in Ordinals :
               /\ Takeable(n)
               /\ job' = [Buried EXCEPT ![n] =
                    [state |-> "RUNNING", tries |-> job[n].tries + 1, owner |-> w]]
               /\ worker' = [worker EXCEPT ![w] =
                    [at |-> "read", n |-> n, tries |-> job[n].tries + 1, base |-> 0]]
       \/ /\ deleted \/ \A n \in Ordinals : ~Takeable(n)
          /\ \E n \in Ordinals : Takeable(n) \/ Exhausted(n)
          /\ job' = [n \in Ordinals |->
                IF Takeable(n) THEN [job[n] EXCEPT !.state = "CANCELLED", !.owner = None]
                ELSE Buried[n]]
          /\ UNCHANGED worker
    /\ UNCHANGED <<turns, cursor, paused, forgotten, deleted, base, stored, spent>>

\* Mutant: the outcome of a worker whose lease ran out is applied.
FailUnfenced(w, state) ==
    LET n == worker[w].n IN
    /\ job' = [job EXCEPT ![n].state = state, ![n].owner = None]
    /\ cursor' = IF state = "CANCELLED" THEN Advance(job', cursor) ELSE cursor
    /\ worker' = [worker EXCEPT ![w] = Idle]

\* fail_job, under the fence: a cancelled turn also moves the cursor.
FailJob(w, state) ==
    LET n == worker[w].n IN
    /\ IF Holds(w)
       THEN /\ job' = [job EXCEPT ![n].state = state, ![n].owner = None]
            /\ cursor' = IF state = "CANCELLED" THEN Advance(job', cursor) ELSE cursor
       ELSE UNCHANGED <<job, cursor>>
    /\ worker' = [worker EXCEPT ![w] = Idle]

AfterError(w) == IF worker[w].tries >= MaxAttempts THEN "DEAD" ELSE "RETRY"

\* The sources of a turn can still be used: _validate_sources_locked, and the
\* switches of the person.
Valid(n) == n \notin forgotten /\ ~paused /\ ~deleted

Go(w, p) == worker' = [worker EXCEPT ![w].at = p]
Drop(w) == worker' = [worker EXCEPT ![w] = Idle]

\* read_extraction_input: freeze the turn and the memories it is compared with.
Read(w) ==
    /\ worker[w].at = "read"
    /\ \/ ~Holds(w) /\ Drop(w) /\ UNCHANGED <<job, cursor>>
       \/ Holds(w) /\ ~Valid(worker[w].n) /\ FailJob(w, "CANCELLED")
       \/ /\ Holds(w) /\ Valid(worker[w].n)
          /\ worker' = [worker EXCEPT ![w].at = "extract", ![w].base = base]
          /\ UNCHANGED <<job, cursor>>
    /\ UNCHANGED <<turns, paused, forgotten, deleted, base, stored, spent>>

\* The answers of the models that extract and, with automatic knowledge, verify
\* and reconcile: proposals.
Extract(w) ==
    /\ worker[w].at \in {"extract", "verify"}
    /\ \E p \in {"recheck", "commit"} :
         /\ worker[w].at = "verify" => p = "commit"
         /\ Go(w, p)
    /\ UNCHANGED <<turns, job, cursor, paused, forgotten, deleted, base, stored, spent>>

\* What run_once catches, wherever the worker is: an error worth another attempt
\* (a model's, a time out, any other), or an answer outside the schema or a turn
\* too long to read, which are final.  A commit that raises has written nothing.
Raise(w) ==
    /\ worker[w].at # "idle" /\ Spend("error", MaxErrors)
    /\ \E s \in {AfterError(w), "DEAD"} : FailJob(w, s)
    /\ UNCHANGED <<turns, paused, forgotten, deleted, base, stored>>

\* _check_frozen_locked: before another model call, and again in the commit.
Checked(w, ok) ==
    \/ ~Holds(w) /\ Drop(w) /\ UNCHANGED <<job, cursor, base, stored>>
    \/ /\ Holds(w) /\ ~Valid(worker[w].n)
       /\ FailJob(w, "CANCELLED") /\ UNCHANGED <<base, stored>>
    \/ /\ Holds(w) /\ Valid(worker[w].n) /\ worker[w].base # base
       /\ FailJob(w, AfterError(w)) /\ UNCHANGED <<base, stored>>
    \/ Holds(w) /\ Valid(worker[w].n) /\ worker[w].base = base /\ ok

\* recheck_extraction_input, before the proposals are verified.
Verify(w) == Go(w, "verify") /\ UNCHANGED <<job, cursor, base, stored>>
Recheck(w) ==
    /\ worker[w].at = "recheck"
    /\ Checked(w, Verify(w))
    /\ UNCHANGED <<turns, paused, forgotten, deleted, spent>>

\* Mutant: the job keeps its owner.
StoreOwned(w) ==
    /\ job' = [job EXCEPT ![worker[w].n].state = "SUCCEEDED"]
    /\ cursor' = Advance(job', cursor)
    /\ Drop(w)
    /\ \/ UNCHANGED <<base, stored>>
       \/ stored' = stored \cup {worker[w].n} /\ base' = base + 1

\* commit_extraction: everything is checked and written in one transaction;
\* what is stored changes the memories other turns are compared with.
Store(w) ==
    /\ job' = [job EXCEPT ![worker[w].n].state = "SUCCEEDED", ![worker[w].n].owner = None]
    /\ cursor' = Advance(job', cursor)
    /\ Drop(w)
    /\ \/ UNCHANGED <<base, stored>>
       \/ stored' = stored \cup {worker[w].n} /\ base' = base + 1

\* Mutant: what the recheck saw is not looked at again.
CommitChecked(w) ==
    /\ worker[w].at = "commit"
    /\ \/ ~Holds(w) /\ Drop(w) /\ UNCHANGED <<job, cursor, base, stored>>
       \/ Holds(w) /\ Store(w)
    /\ UNCHANGED <<turns, paused, forgotten, deleted, spent>>

Commit(w) ==
    /\ worker[w].at = "commit"
    /\ Checked(w, Store(w))
    /\ UNCHANGED <<turns, paused, forgotten, deleted, spent>>

\* The worker is gone, or stalls without renewing: its lease runs out, and in
\* the second case it goes on later.
Crash(w) ==
    /\ worker[w].at # "idle" /\ Spend("stop", MaxStops)
    /\ Drop(w)
    /\ UNCHANGED <<turns, job, cursor, paused, forgotten, deleted, base, stored>>

Expire(n) ==
    /\ job[n].state = "RUNNING" /\ job[n].owner # None
    /\ LET w == job[n].owner IN
       IF worker[w].n = n THEN Spend("stop", MaxStops) ELSE UNCHANGED spent
    /\ job' = [job EXCEPT ![n].owner = None]
    /\ UNCHANGED <<turns, cursor, worker, paused, forgotten, deleted, base, stored>>

-----------------------------------------------------------------------------
(* The person.                                                              *)

Forget(n) ==
    /\ n <= turns /\ forgotten' = forgotten \cup {n}
    /\ UNCHANGED <<turns, job, cursor, worker, paused, deleted, base, stored, spent>>

\* A correction, and the other changes that count as a new base.
Edit ==
    /\ Spend("edit", MaxEdits) /\ base' = base + 1
    /\ UNCHANGED <<turns, job, cursor, worker, paused, forgotten, deleted, stored>>

Pause ==
    /\ ~paused /\ Spend("pause", MaxPauses) /\ paused' = TRUE
    /\ UNCHANGED <<turns, job, cursor, worker, forgotten, deleted, base, stored>>
Resume ==
    /\ paused /\ paused' = FALSE
    /\ UNCHANGED <<turns, job, cursor, worker, forgotten, deleted, base, stored, spent>>

Delete ==
    /\ ~deleted /\ deleted' = TRUE
    /\ UNCHANGED <<turns, job, cursor, worker, paused, forgotten, base, stored, spent>>

\* dismiss_job
Dismiss(n) ==
    /\ job[n].state = "DEAD"
    /\ job' = [job EXCEPT ![n].state = "CANCELLED"]
    /\ UNCHANGED <<turns, cursor, worker, paused, forgotten, deleted, base, stored, spent>>

\* replay_job
Replay(n) ==
    /\ job[n].state \in {"DEAD", "RETRY"} /\ Spend("replay", MaxReplays)
    /\ job' = [job EXCEPT ![n] = [Absent EXCEPT !.state = "PENDING"]]
    /\ UNCHANGED <<turns, cursor, worker, paused, forgotten, deleted, base, stored>>

-----------------------------------------------------------------------------
Work(w) == Read(w) \/ Extract(w) \/ Recheck(w) \/ Commit(w)

Next ==
    \/ Record \/ RecoverInbox \/ Edit \/ Pause \/ Resume \/ Delete
    \/ \E n \in Ordinals : Recover(n) \/ Expire(n) \/ Forget(n) \/ Dismiss(n) \/ Replay(n)
    \/ \E w \in Workers : Claim(w) \/ Work(w) \/ Raise(w) \/ Crash(w)

Spec == Init /\ [][Next]_vars

\* Workers poll and go on, the recovery pass runs every half minute, and the
\* lease of a worker that is gone runs out.
Fairness ==
    /\ \A w \in Workers : WF_vars(Work(w))
    /\ WF_vars(\E w \in Workers : Claim(w))
    /\ WF_vars(\E n \in Ordinals : Recover(n))
    /\ WF_vars(\E n \in Ordinals : Expire(n) /\ UNCHANGED spent)

FairSpec == Spec /\ Fairness

-----------------------------------------------------------------------------
\* The shape of the state.  A running job is one some worker is at, or one
\* whose lease can still run out.
TypeOK ==
    /\ turns \in 0..Turns /\ cursor \in 0..Turns
    /\ job \in [Ordinals -> [state : {"absent", "PENDING", "RUNNING", "RETRY", "DEAD"} \cup Complete,
                             tries : 0..MaxAttempts, owner : Workers \cup {None}]]
    /\ worker \in [Workers -> [at : {"idle", "read", "extract", "recheck", "verify", "commit"},
                               n : 0..Turns, tries : 0..MaxAttempts, base : Nat]]
    /\ forgotten \cup stored \subseteq 1..turns
    /\ \A n \in Ordinals : job[n].owner # None => job[n].state = "RUNNING"

\* The cursor never passes a turn that is not done, however jobs overtake each
\* other, die, and are replayed.
NoHolePassed == \A n \in 1..cursor : job[n].state \in Complete

\* A turn that is done is never opened again: not by a replay, not by a worker
\* that comes back after its lease ran out.
DoneStaysDone == [][\A n \in Ordinals : job[n].state \in Complete => job'[n] = job[n]]_vars

\* Whatever happened during the model calls: what is stored comes from a turn
\* the person has not forgotten, while saving is on, and was compared with the
\* memories as they are.
StoredIsCurrent ==
    [][\A n \in stored' \ stored :
         /\ n \notin forgotten /\ ~paused /\ ~deleted
         /\ \E w \in Workers : worker[w].n = n /\ worker[w].base = base]_vars

\* Every turn is settled in the end, extracted, cancelled, or dead and on show,
\* and the cursor does not stay behind the turns that are done without a hole.
\* (There are finitely many turns, so there comes a time when all are settled.)
AllSettle ==
    []<>(/\ \A n \in 1..turns : job[n].state \in Complete \cup {"DEAD"} \/ deleted
         /\ cursor = Advance(job, cursor))
=============================================================================
