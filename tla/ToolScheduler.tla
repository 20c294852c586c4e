----------------------------- MODULE ToolScheduler -----------------------------
(***************************************************************************)
(* Tool calls of one model step (backend/agent/tool_scheduler.py): calls   *)
(* are prepared and committed one by one in model order, only the bodies   *)
(* of parallel-safe calls overlap, at most MaxParallel at once.  The       *)
(* coordinator awaits between any two of its steps; an abort, a            *)
(* cancellation, a reclassification and the ends of bodies come in there.  *)
(***************************************************************************)
EXTENDS Naturals, Sequences, FiniteSets

CONSTANTS
  N,           \* calls of the step, in model order 1..N
  MaxParallel  \* max_parallel

Calls == 1..N

VARIABLES
  pc,          \* where run_ordered_tool_calls is
  base, last,  \* the group: calls base+1..last
  parallel,    \* parallel_group
  started,     \* calls started so far, of all groups
  aborted,     \* the group's own flag
  failed,      \* first_failure is set
  slot,        \* [Calls -> the parked result]
  body,        \* [Calls -> its task: none, running, or done and not yet awaited]
  log,         \* commits so far: <<call, result>>
  abort,       \* the turn's abort event
  safe,        \* [Calls -> is_parallel_safe() now]
  ran, alone   \* calls whose body was started; calls started as exclusive (history)

group == <<base, last, parallel>>
vars == <<pc, group, started, aborted, failed, slot, body, log, abort, safe, ran, alone>>

Results == {"ready", "value", "timeout", "aborted"}

Init ==
  /\ pc = "outer" /\ base = 0 /\ last = 0 /\ parallel = FALSE
  /\ started = 0 /\ aborted = FALSE /\ failed = FALSE
  /\ slot = [c \in Calls |-> "empty"] /\ body = [c \in Calls |-> "none"]
  /\ log = <<>>
  /\ abort \in BOOLEAN /\ safe \in [Calls -> BOOLEAN]
  /\ ran = {} /\ alone = {}

Committed == Len(log)
InFlight == {c \in Calls : body[c] # "none"}
Bodies == {c \in Calls : body[c] = "running"}

RoomLate == Cardinality(InFlight) <= MaxParallel

Room == Cardinality(InFlight) < MaxParallel

MayJoinAny(c) == TRUE

\* A call that is no longer parallel-safe stays for the outer loop.
MayJoin(c) == c > base + 1 /\ parallel => safe[c]

CanStart == ~aborted /\ started < last /\ Room /\ MayJoin(started + 1)

ReadyAny == {c \in 1..started : slot[c] # "empty" /\ \A k \in 1..Committed : log[k][1] # c}

\* commit_ready takes the first uncommitted slot, if its result is there.
Ready == {c \in {Committed + 1} : c <= started /\ slot[c] # "empty"}

\* Everything is one event loop: the rest of the turn moves at an await only.
Waiting == pc = "fill" /\ ~CanStart /\ InFlight # {}
Awaiting ==
  \/ pc \in {"prepare", "suffix", "drain"}
  \/ pc = "commit" /\ Ready # {}
  \/ Waiting

-----------------------------------------------------------------------------
(* run_ordered_tool_calls: a parallel suffix, or one exclusive call.       *)

NextGroup ==
  /\ pc = "outer" /\ started < N
  /\ base' = started
  /\ parallel' = safe[started + 1]
  /\ last' = IF safe[started + 1] THEN N ELSE started + 1
  /\ aborted' = abort
  /\ pc' = "fill"
  /\ UNCHANGED <<started, failed, slot, body, log, abort, safe, ran, alone>>

Return ==
  /\ pc = "outer" /\ started = N
  /\ pc' = "done"
  /\ UNCHANGED <<group, started, aborted, failed, slot, body, log, abort, safe, ran, alone>>

-----------------------------------------------------------------------------
(* fill_pool and start_call.                                               *)

StartCall ==
  /\ pc = "fill" /\ CanStart
  /\ started' = started + 1
  /\ alone' = alone \cup {c \in {started + 1} : ~safe[c]}
  /\ pc' = "prepare"
  /\ UNCHANGED <<group, aborted, failed, slot, body, log, abort, safe, ran>>

PreparedUnchecked(hasBody) ==
  /\ pc = "prepare"
  /\ slot' = [slot EXCEPT ![started] = IF hasBody THEN @ ELSE "ready"]
  /\ body' = [body EXCEPT ![started] = IF hasBody THEN "running" ELSE @]
  /\ ran' = ran \cup {c \in {started} : hasBody}
  /\ pc' = "check"
  /\ UNCHANGED <<group, started, aborted, failed, log, abort, safe, alone>>

\* The preparation ends with a result, or a body that is dispatched unless
\* the abort came while it was awaited.
Prepared(hasBody) ==
  LET dispatch == hasBody /\ ~abort IN
  /\ pc = "prepare"
  /\ slot' = [slot EXCEPT ![started] = IF dispatch THEN @
                                       ELSE IF hasBody THEN "aborted" ELSE "ready"]
  /\ body' = [body EXCEPT ![started] = IF dispatch THEN "running" ELSE @]
  /\ ran' = ran \cup {c \in {started} : dispatch}
  /\ pc' = "check"
  /\ UNCHANGED <<group, started, aborted, failed, log, abort, safe, alone>>

\* settle: a value, the scheduler's own deadline, or an error to remember.
Settle(c, result) ==
  /\ Awaiting /\ body[c] = "running"
  /\ body' = [body EXCEPT ![c] = "done"]
  /\ slot' = [slot EXCEPT ![c] = IF result = "error" THEN @ ELSE result]
  /\ failed' = (failed \/ result = "error")
  /\ UNCHANGED <<pc, group, started, aborted, log, abort, safe, ran, alone>>

\* asyncio.wait: every task that is done by now.
Reap ==
  /\ Waiting /\ \E c \in Calls : body[c] = "done"
  /\ body' = [c \in Calls |-> IF body[c] = "done" THEN "none" ELSE body[c]]
  /\ pc' = "check"
  /\ UNCHANGED <<group, started, aborted, failed, slot, log, abort, safe, ran, alone>>

-----------------------------------------------------------------------------
(* raise_failure, commit_ready, raise_failure and the abort check.         *)

Check ==
  /\ pc = "check"
  /\ pc' = IF failed THEN "drain" ELSE "commit"
  /\ UNCHANGED <<group, started, aborted, failed, slot, body, log, abort, safe, ran, alone>>

CommitReady(c) ==
  /\ pc = "commit" /\ c \in Ready
  /\ log' = Append(log, <<c, slot[c]>>)
  /\ UNCHANGED <<pc, group, started, aborted, failed, slot, body, abort, safe, ran, alone>>

CommitDone ==
  /\ pc = "commit" /\ Ready = {}
  /\ pc' = IF failed THEN "drain" ELSE "fill"
  /\ aborted' = (aborted \/ (abort /\ ~failed))
  /\ UNCHANGED <<group, started, failed, slot, body, log, abort, safe, ran, alone>>

DrainedAborted == ~CanStart /\ (InFlight = {} \/ aborted)

\* Nothing can be started and every started body was awaited.
Drained == ~CanStart /\ InFlight = {}

\* An aborted group goes on to pair the undispatched calls, of the whole step.
GroupDone ==
  /\ pc = "fill" /\ Drained
  /\ pc' = IF aborted THEN "suffix" ELSE "outer"
  /\ UNCHANGED <<group, started, aborted, failed, slot, body, log, abort, safe, ran, alone>>

Suffix == N

PairAborted ==
  /\ pc = "suffix" /\ Committed < Suffix
  /\ log' = Append(log, <<Committed + 1, "aborted">>)
  /\ UNCHANGED <<pc, group, started, aborted, failed, slot, body, abort, safe, ran, alone>>

ReturnAborted ==
  /\ pc = "suffix" /\ Committed >= Suffix
  /\ pc' = "done"
  /\ UNCHANGED <<group, started, aborted, failed, slot, body, log, abort, safe, ran, alone>>

-----------------------------------------------------------------------------
(* Failure.                                                                *)

\* A preparation or a commit raises, or the step's task is cancelled.
Raises ==
  /\ Awaiting /\ pc \in {"prepare", "commit", "fill"}
  /\ failed' = TRUE /\ pc' = "drain"
  /\ UNCHANGED <<group, started, aborted, slot, body, log, abort, safe, ran, alone>>

RaisesPairing ==
  /\ pc = "suffix" /\ Committed < Suffix
  /\ failed' = TRUE /\ pc' = "raised"
  /\ UNCHANGED <<group, started, aborted, slot, body, log, abort, safe, ran, alone>>

QuietNow == TRUE

QuietAwaited == InFlight = {}

\* gather(..., return_exceptions=True): no started body is left behind.
Quiet == Bodies = {}

Raise ==
  /\ pc = "drain" /\ Quiet
  /\ pc' = "raised"
  /\ UNCHANGED <<group, started, aborted, failed, slot, body, log, abort, safe, ran, alone>>

-----------------------------------------------------------------------------
(* The turn around it.                                                     *)

Abort ==
  /\ Awaiting /\ ~abort /\ abort' = TRUE
  /\ UNCHANGED <<pc, group, started, aborted, failed, slot, body, log, safe, ran, alone>>

Reclassify(c) ==
  /\ Awaiting /\ c > started
  /\ safe' = [safe EXCEPT ![c] = ~@]
  /\ UNCHANGED <<pc, group, started, aborted, failed, slot, body, log, abort, ran, alone>>

-----------------------------------------------------------------------------
Coordinator ==
  \/ NextGroup \/ Return \/ StartCall \/ Reap \/ Check \/ CommitDone \/ GroupDone
  \/ \E c \in Calls : CommitReady(c)
  \/ PairAborted \/ ReturnAborted \/ Raise

\* prepare() may await a person's permission: its end is nobody's promise.
PreparationEnds == \E b \in BOOLEAN : Prepared(b)

BodyEnds(c) == \E result \in {"value", "timeout", "error"} : Settle(c, result)

Next ==
  \/ Coordinator \/ PreparationEnds \/ Raises \/ RaisesPairing \/ Abort
  \/ \E c \in Calls : BodyEnds(c) \/ Reclassify(c)

Spec == Init /\ [][Next]_vars

\* The event loop runs the coordinator; the deadline ends every body.
FairSpec == Spec /\ WF_vars(Coordinator) /\ \A c \in Calls : WF_vars(BodyEnds(c))

-----------------------------------------------------------------------------
\* Types, and no more bodies at once than the pool admits.
TypeOK ==
  /\ pc \in {"outer", "fill", "prepare", "check", "commit", "suffix", "drain", "done", "raised"}
  /\ base \in 0..N /\ last \in 0..N /\ parallel \in BOOLEAN /\ started \in 0..N
  /\ aborted \in BOOLEAN /\ failed \in BOOLEAN /\ abort \in BOOLEAN
  /\ slot \in [Calls -> Results \cup {"empty"}]
  /\ body \in [Calls -> {"none", "running", "done"}]
  /\ Cardinality(InFlight) <= MaxParallel
  /\ log \in Seq(Calls \X Results)
  /\ safe \in [Calls -> BOOLEAN]
  /\ ran \subseteq Calls /\ alone \subseteq Calls

\* Results become visible in the order of the model's calls, whatever order
\* the bodies end in and wherever groups, aborts and failures fall.
CommittedInOrder == \A k \in 1..Len(log) : log[k][1] = k

\* What is committed is what happened: a call reported as aborted before
\* dispatch never had a body started, one reported with a value or a timeout
\* had; and a call is not reported while its body still runs.
CommittedIsTrue ==
  \A k \in 1..Len(log) :
    LET c == log[k][1] IN
    /\ log[k][2] \in {"value", "timeout"} <=> c \in ran
    /\ body[c] # "running"

\* An exclusive call is a barrier: its body overlaps with no other, although
\* calls are reclassified while others run.
ExclusiveIsAlone ==
  \A c \in alone : body[c] = "running" => Bodies = {c}

\* The scheduler never leaves a started body behind, returning or raising,
\* and when it returns every call of the step has exactly one result.
LeavesNothingOpen ==
  /\ pc \in {"done", "raised"} => Bodies = {}
  /\ pc = "done" => Len(log) = N
=============================================================================
