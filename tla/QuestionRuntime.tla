---------------------------- MODULE QuestionRuntime ----------------------------
(***************************************************************************)
(* Durable questions of one session (backend/question/): a run asks on a   *)
(* card and ends; the answer is saved with the intent to resume; a worker  *)
(* applies it and starts a new run.  The session_execution row says which  *)
(* run owns the turn (runtime.py), question_checkpoint holds the cards     *)
(* (question.py), continuation.py is the worker that every replica runs.   *)
(*                                                                         *)
(* A transaction is one step.  The driver only keeps two loops from being  *)
(* reserved at once; its own fence (AgentDriver) refuses more than is      *)
(* refused here.  Plain sessions: the assistant's detached cards, held     *)
(* tasks and main queue are left out, and so are drafts and texts.         *)
(***************************************************************************)
EXTENDS Naturals, FiniteSets

CONSTANTS
  Cards,       \* question_checkpoint ids
  WithTTL,     \* cards that have expires_at
  Workers,     \* replicas' continuation workers
  MaxInputs,   \* bound on messages, platform inputs and cancels
  MaxFaults    \* bound on deaths, stalls, shutdowns and failed runs

ASSUME QuestionAssumption ==
  /\ IsFiniteSet(Cards) /\ WithTTL \subseteq Cards
  /\ MaxInputs \in Nat /\ MaxFaults \in Nat

Runs == 1..(MaxInputs + MaxFaults + Cardinality(Cards))
Generations == 1..(MaxInputs + 1)   \* 0 in a ticket: none

VARIABLES
  generation,  \* execution.generation: the turn
  run, live,   \* execution.run_id (0: none) and an unexpired lease_until
  origin,      \* execution.run_origin
  progress,    \* execution.run_progress
  resume,      \* execution.resume_pending
  card,        \* the checkpoints
  driver,      \* run whose loop holds the session's driver, 0: none
  loop,        \* [Runs -> the run's loop]
  job,         \* [Workers -> what the worker does with the session]
  inputs, faults,
  redelivered, \* runs that were given up for a fresh delivery (history)
  fresh,       \* workers that handed over since the last run started (history)
  astray       \* answers whose intent a late hand-over took (history)

row == <<generation, run, live, origin, progress, resume>>
vars == <<row, card, driver, loop, job, inputs, faults, redelivered, fresh, astray>>
handed == <<fresh, astray>>

Card == [status: {"new", "pending", "answered", "superseded", "expired"},
         gen: Generations \cup {0},
         by: Runs \cup {0},  \* the run that asked
         applied: BOOLEAN,
         told: BOOLEAN,   \* the session showed an error for it (history)
         ran: BOOLEAN]    \* a run went on with it (history)

Loop == [at: {"none", "reserved", "started", "checked", "acted", "asked", "dead", "over"},
         expected: Generations \cup {0},  \* expected_generation
         gen: Generations \cup {0},       \* RunTicket.generation
         acted: BOOLEAN]                  \* it sent a request or ran a tool (history)

NoLoop == [at |-> "none", expected |-> 0, gen |-> 0, acted |-> FALSE]
NoJob == [do |-> "idle", gen |-> 0, run |-> 0]

Init ==
  /\ generation = 1
  /\ run = 0 /\ live = FALSE /\ origin = "prompt" /\ progress = FALSE /\ resume = FALSE
  /\ card = [c \in Cards |-> [status |-> "new", gen |-> 0, by |-> 0, applied |-> FALSE,
                              told |-> FALSE, ran |-> FALSE]]
  /\ driver = 0
  /\ loop = [r \in Runs |-> NoLoop]
  /\ job = [w \in Workers |-> NoJob]
  /\ inputs = 0 /\ faults = 0 /\ redelivered = {}
  /\ fresh = {} /\ astray = {}

-----------------------------------------------------------------------------
(* The row and the cards of the current turn.  Turns count from 1 here.    *)

Here(s) == {c \in Cards : card[c].status = s /\ card[c].gen = generation}
Saved == {c \in Here("answered") : ~card[c].applied}

BlockedAll(resuming) == resume \/ Here("pending") # {}

\* admission_blocked_locked: a card, or a saved answer, owns the next turn.
Blocked(resuming) == (resume /\ ~resuming) \/ Here("pending") # {}

OwnsLate(r) == live

\* owns: start_verdict finds nothing against the run.
Owns(r) == run = r /\ live /\ loop[r].gen = generation

\* The session shows an error unless a card or a saved answer waits.
Tell(resumes) ==
  [c \in Cards |-> IF c \in Here("answered") /\ ~card[c].ran
                        /\ ~resumes /\ Here("pending") = {}
                     THEN [card[c] EXCEPT !.told = TRUE] ELSE card[c]]

Freed(r) == IF driver = r THEN 0 ELSE driver

\* The worker's task ends with the loop it runs.
Retire(r) == [w \in Workers |-> IF job[w].run = r THEN NoJob ELSE job[w]]

InvalidateLeased ==
  /\ card' = [c \in Cards |-> IF c \in Here("pending") \cup Saved
                                THEN [card[c] EXCEPT !.status = "superseded"] ELSE card[c]]
  /\ generation' = generation + 1
  /\ run' = 0 /\ resume' = FALSE
  /\ UNCHANGED <<live, origin, progress>>

\* invalidate_locked: a replacement message or a cancel begins the next turn.
Invalidate ==
  /\ card' = [c \in Cards |-> IF c \in Here("pending") \cup Saved
                                THEN [card[c] EXCEPT !.status = "superseded"] ELSE card[c]]
  /\ generation' = generation + 1
  /\ run' = 0 /\ live' = FALSE /\ resume' = FALSE
  /\ UNCHANGED <<origin, progress>>

-----------------------------------------------------------------------------
(* Input.                                                                  *)

\* reserve_run by the next run.
Reserve(r, expected) ==
  /\ driver = 0
  /\ loop[r].at = "none" /\ \A q \in 1..(r - 1) : loop[q].at # "none"
  /\ driver' = r
  /\ loop' = [loop EXCEPT ![r].at = "reserved", ![r].expected = expected]

Input == inputs < MaxInputs /\ inputs' = inputs + 1

\* A person's message is claimed: it supersedes the turn and wakes a run.
UserMessage(r) ==
  /\ Input /\ Reserve(r, 0) /\ Invalidate
  /\ UNCHANGED <<job, faults, redelivered, handed>>

\* Platform input waits while a card or a saved answer owns the next turn.
PlatformInput(r) ==
  /\ Input /\ ~Blocked(FALSE) /\ Reserve(r, 0)
  /\ UNCHANGED <<row, card, job, faults, redelivered, handed>>

CancelSession ==
  /\ Input /\ Invalidate
  /\ UNCHANGED <<driver, loop, job, faults, redelivered, handed>>

ResumeIdle(c) == resume' = (resume \/ ~live)

ResumeSaved(c) == resume' = TRUE

\* resolve_locked: the decision and the intent to resume, whatever runs.
Answer(c) ==
  /\ c \in Here("pending")
  /\ card' = [card EXCEPT ![c].status = "answered"]
  /\ ResumeSaved(c)
  /\ UNCHANGED <<generation, run, live, origin, progress, driver, loop, job,
                 inputs, faults, redelivered, handed>>

\* expire_questions
Expire(c) ==
  /\ c \in WithTTL /\ card[c].status = "pending"
  /\ card' = [card EXCEPT ![c].status = "expired", ![c].applied = TRUE]
  /\ UNCHANGED <<row, driver, loop, job, inputs, faults, redelivered, handed>>

-----------------------------------------------------------------------------
(* A run's loop.                                                           *)

Refused(r) ==
  \/ Blocked(loop[r].expected # 0)
  \/ loop[r].expected # 0 /\ (loop[r].expected # generation \/ ~resume)
  \/ run # 0 /\ live /\ loop[run].gen = generation

\* start_run refuses, or a resumed run finds no free slot: nothing changes.
StartRefused(r) ==
  /\ loop[r].at = "reserved"
  /\ Refused(r) \/ loop[r].expected # 0
  /\ loop' = [loop EXCEPT ![r] = NoLoop]
  /\ driver' = Freed(r) /\ job' = Retire(r)
  /\ UNCHANGED <<row, card, inputs, faults, redelivered, handed>>

\* No other run started since its worker applied the answers.
HandsOver(r) == \E w \in fresh : job[w] = [do |-> "run", gen |-> generation, run |-> r]

StartRun(r) ==
  /\ loop[r].at = "reserved" /\ ~Refused(r)
  /\ loop' = [loop EXCEPT ![r].at = "started", ![r].gen = generation]
  /\ run' = r /\ live' = TRUE /\ progress' = FALSE /\ resume' = FALSE
  /\ origin' = IF loop[r].expected # 0 THEN "question" ELSE "prompt"
  /\ fresh' = {}
  /\ astray' = astray \cup {c \in Saved : ~HandsOver(r)}
  /\ UNCHANGED <<generation, card, driver, job, inputs, faults, redelivered>>

\* assert_current(progress=True) before a request or a tool; else RunRevoked.
CheckRun(r) ==
  /\ loop[r].at = "started"
  /\ progress' = (progress \/ Owns(r))
  /\ loop' = [loop EXCEPT ![r].at = IF Owns(r) THEN "checked" ELSE "over"]
  /\ driver' = IF Owns(r) THEN driver ELSE Freed(r)
  /\ job' = IF Owns(r) THEN job ELSE Retire(r)
  /\ UNCHANGED <<generation, run, live, origin, resume, card, inputs, faults, redelivered, handed>>

\* The request or the tool that follows the check, whenever it comes.
Act(r) ==
  /\ loop[r].at = "checked"
  /\ loop' = [loop EXCEPT ![r].at = "acted", ![r].acted = TRUE]
  /\ card' = [c \in Cards |-> IF card[c].gen = loop[r].gen /\ card[c].applied
                                THEN [card[c] EXCEPT !.ran = TRUE] ELSE card[c]]
  /\ UNCHANGED <<row, driver, job, inputs, faults, redelivered, handed>>

\* ask: the card, and QuestionSuspended ends the run after this batch.
Ask(r, c) ==
  /\ loop[r].at \in {"acted", "asked"} /\ card[c].status = "new"
  /\ Owns(r)
  /\ card' = [card EXCEPT ![c].status = "pending", ![c].gen = generation, ![c].by = r]
  /\ loop' = [loop EXCEPT ![r].at = "asked"]
  /\ UNCHANGED <<row, driver, job, inputs, faults, redelivered, handed>>

NextStep(r) ==
  /\ loop[r].at = "acted"
  /\ loop' = [loop EXCEPT ![r].at = "started"]
  /\ UNCHANGED <<row, card, driver, job, inputs, faults, redelivered, handed>>

RedeliversAlways(r) == origin = "question"

\* A delivered answer without progress is safe to deliver again.
Redelivers(r) == origin = "question" /\ ~progress

\* finish_run and the release of the driver: nothing for a run that lost the row.
FinishRun(r, how) ==
  LET again == how = "interrupted" /\ Redelivers(r)
      error == how = "failed" \/ (how = "interrupted" /\ progress)
  IN /\ loop[r].at \in (IF how = "done" THEN {"acted", "asked"}
                                        ELSE {"started", "checked", "acted", "asked"})
     /\ loop' = [loop EXCEPT ![r].at = "over"]
     /\ driver' = Freed(r) /\ job' = Retire(r)
     /\ IF Owns(r)
          THEN /\ run' = 0 /\ live' = FALSE /\ resume' = (resume \/ again)
               /\ card' = IF error THEN Tell(resume') ELSE card
               /\ redelivered' = redelivered \cup {q \in {r} : again}
          ELSE UNCHANGED <<run, live, resume, card, redelivered>>
     /\ UNCHANGED <<generation, origin, progress, inputs, handed>>

Finish(r) == FinishRun(r, "done") /\ UNCHANGED faults

-----------------------------------------------------------------------------
(* Faults, leases and their recovery.                                      *)

Fault == faults < MaxFaults /\ faults' = faults + 1
Busy == {r \in Runs : loop[r].at \in {"started", "checked", "acted", "asked"}}

\* A shutdown cancels the loop, or an exception ends it.
BreaksOff(r) ==
  Fault /\ \E how \in {"interrupted", "failed"} : FinishRun(r, how)

Dies(r) ==
  /\ Fault /\ r \in Busy
  /\ loop' = [loop EXCEPT ![r].at = "dead"]
  /\ job' = Retire(r)
  /\ UNCHANGED <<row, card, driver, inputs, redelivered, handed>>

\* The process hangs past both leases and goes on later.
Stalls(r) ==
  /\ Fault /\ r \in Busy
  /\ live' = (live /\ run # r)
  /\ driver' = Freed(r)
  /\ UNCHANGED <<generation, run, origin, progress, resume, card, loop, job, inputs, redelivered, handed>>

\* The leases of a dead process run out, each in its own time.
LeaseExpires ==
  /\ run # 0 /\ live /\ loop[run].at = "dead"
  /\ live' = FALSE
  /\ UNCHANGED <<generation, run, origin, progress, resume, card, driver, loop, job,
                 inputs, faults, redelivered, handed>>

DriverExpires ==
  /\ driver # 0 /\ loop[driver].at = "dead"
  /\ driver' = 0
  /\ UNCHANGED <<row, card, loop, job, inputs, faults, redelivered, handed>>

\* _recover_expired_run
RecoverExpiredRun ==
  /\ run # 0 /\ ~live
  /\ resume' = (resume \/ Redelivers(run))
  /\ card' = Tell(resume')
  /\ redelivered' = redelivered \cup {r \in {run} : Redelivers(r)}
  /\ run' = 0
  /\ UNCHANGED <<generation, live, origin, progress, driver, loop, job, inputs, faults, handed>>

-----------------------------------------------------------------------------
(* The continuation worker of a replica; one task per session at a time.   *)

Candidate(w) == job[w].do = "idle" /\ resume /\ ~live

\* apply_answers: every saved answer; the run waits for the other cards.
ApplyAnswers(w) ==
  /\ Candidate(w)
  /\ card' = [c \in Cards |-> IF c \in Saved THEN [card[c] EXCEPT !.applied = TRUE]
                                             ELSE card[c]]
  /\ resume' = (Here("pending") = {})
  /\ job' = [job EXCEPT ![w] = IF Here("pending") = {}
                                 THEN [do |-> "resume", gen |-> generation, run |-> 0] ELSE @]
  /\ fresh' = IF Here("pending") = {} THEN fresh \cup {w} ELSE fresh
  /\ UNCHANGED <<generation, run, live, origin, progress, driver, loop,
                 inputs, faults, redelivered, astray>>

\* A continuation that cannot be applied: rolled back, then reported.
ApplyFails(w) ==
  /\ Candidate(w) /\ Saved # {}
  /\ job' = [job EXCEPT ![w] = [do |-> "report", gen |-> generation, run |-> 0]]
  /\ UNCHANGED <<row, card, driver, loop, inputs, faults, redelivered, handed>>

\* apply_guard refuses the answer of a task's card: nothing is applied, and an
\* error is shown.
GuardFails(w, c) ==
  /\ Candidate(w) /\ c \in Saved
  /\ card' = [d \in Cards |->
                IF d = c THEN [card[d] EXCEPT !.status = "superseded", !.applied = TRUE]
                ELSE IF d \in Here("answered") THEN [card[d] EXCEPT !.told = TRUE] ELSE card[d]]
  /\ resume' = FALSE
  /\ UNCHANGED <<generation, run, live, origin, progress, driver, loop, job,
                 inputs, faults, redelivered, handed>>

\* _resume_candidate's ValueError branch, in a transaction of its own.
ReportFailure(w) ==
  /\ job[w].do = "report"
  /\ job' = [job EXCEPT ![w] = NoJob]
  /\ IF generation = job[w].gen /\ ~live
       THEN /\ resume' = FALSE
            /\ card' = [c \in Cards |-> IF c \in Here("answered")
                                          THEN [card[c] EXCEPT !.told = TRUE] ELSE card[c]]
       ELSE UNCHANGED <<resume, card>>
  /\ UNCHANGED <<generation, run, live, origin, progress, driver, loop,
                 inputs, faults, redelivered, handed>>

\* _resume: run_loop(expected_generation); a busy driver ends it.
Resume(w) ==
  /\ job[w].do = "resume"
  /\ \/ \E r \in Runs : /\ Reserve(r, job[w].gen)
                        /\ job' = [job EXCEPT ![w].do = "run", ![w].run = r]
     \/ driver # 0 /\ job' = [job EXCEPT ![w] = NoJob] /\ UNCHANGED <<driver, loop>>
  /\ UNCHANGED <<row, card, inputs, faults, redelivered, handed>>

-----------------------------------------------------------------------------
RunStep(r) ==
  \/ StartRun(r) \/ CheckRun(r) \/ Act(r) \/ NextStep(r) \/ Finish(r)
  \/ \E c \in Cards : Ask(r, c)

WorkerStep(w) == ApplyAnswers(w) \/ ReportFailure(w) \/ Resume(w)

Recover == LeaseExpires \/ DriverExpires \/ RecoverExpiredRun

Next ==
  \/ CancelSession
  \/ \E c \in Cards : Answer(c) \/ Expire(c)
  \/ \E r \in Runs : \/ UserMessage(r) \/ PlatformInput(r)
                      \/ RunStep(r) \/ StartRefused(r)
                      \/ BreaksOff(r) \/ Dies(r) \/ Stalls(r)
  \/ \E w \in Workers : WorkerStep(w) \/ ApplyFails(w) \/ \E c \in Cards : GuardFails(w, c)
  \/ Recover

Spec == Init /\ [][Next]_vars

(* The loops go on, the worker's sweep comes every two seconds, leases run *)
(* out in real time, a card past its time expires, and a resumed run that  *)
(* keeps trying gets a slot.                                               *)
Fairness ==
  /\ \A r \in Runs : WF_vars(StartRefused(r) \/ CheckRun(r) \/ Act(r) \/ Finish(r))
  /\ SF_vars(\E r \in Runs : StartRun(r))
  /\ \A w \in Workers : WF_vars(WorkerStep(w))
  /\ WF_vars(LeaseExpires) /\ WF_vars(DriverExpires) /\ WF_vars(RecoverExpiredRun)
  /\ \A c \in Cards : WF_vars(Expire(c))

FairSpec == Spec /\ Fairness

-----------------------------------------------------------------------------
TypeOK ==
  /\ generation \in Generations
  /\ run \in Runs \cup {0} /\ live \in BOOLEAN /\ (live => run # 0)
  /\ origin \in {"prompt", "question"} /\ progress \in BOOLEAN /\ resume \in BOOLEAN
  /\ card \in [Cards -> Card]
  /\ driver \in Runs \cup {0}
  /\ loop \in [Runs -> Loop]
  /\ job \in [Workers -> [do: {"idle", "resume", "run", "report"}, gen: Generations \cup {0},
                        run: Runs \cup {0}]]
  /\ inputs \in 0..MaxInputs /\ faults \in 0..MaxFaults
  /\ redelivered \subseteq Runs /\ fresh \subseteq Workers /\ astray \subseteq Cards

\* An answer is delivered again only when the run that had it did nothing,
\* and a run that was given up never does anything later, however long it
\* hung: no completed tool or paid request is replayed.
RedeliveredIdle == \A r \in redelivered : ~loop[r].acted

\* Cards wait only in the session's current turn and are of a run of that
\* turn: none survives its turn, and no late run files one into the next.
PendingIsCurrent ==
  \A c \in Cards : card[c].status = "pending" =>
    card[c].gen = generation /\ loop[card[c].by].gen = generation

\* A saved answer that is not applied keeps its intent to resume, or the
\* session has shown an error for it: none is silently dropped.  The exception
\* is an answer saved after a worker had applied the ones before it, which that
\* worker's run, overtaken by another worker's, took when it started at last.
IntentKept == \A c \in Saved : resume \/ card[c].told \/ c \in astray

\* A saved answer reaches a run that goes on with it, unless its turn is
\* replaced, another card of the turn still waits or has expired (the expiry
\* leaves nothing to resume), an error is shown, or an overtaken hand-over took
\* its intent.
AnswerResumes ==
  \A c \in Cards :
    card[c].status = "answered"
      ~> \/ card[c].ran \/ card[c].told \/ c \in astray
         \/ card[c].status = "superseded" \/ card[c].gen # generation
         \/ Here("pending") # {} \/ Here("expired") # {}

\* A card and its answer stay with the turn that asked: nothing that acted is
\* delivered again, no card waits outside its turn, and no saved answer loses
\* its intent to resume, but to a hand-over that another one overtook.
AnswerKept == TypeOK /\ RedeliveredIdle /\ PendingIsCurrent /\ IntentKept

\* "an expired card counts as rejected and the run carries on"
\* Known gap, README section 5.
ExpiredCarriesOn ==
  \A c \in Cards :
    card[c].status = "expired"
      ~> \/ card[c].ran \/ card[c].told \/ card[c].gen # generation
         \/ Here("pending") # {}
=============================================================================
