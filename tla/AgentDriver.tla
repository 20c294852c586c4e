---------------------------- MODULE AgentDriver ----------------------------
(***************************************************************************)
(* The durable single-session driver of backend/agent/driver.py: one       *)
(* agent_driver_state row per session carries a generation and a lease;    *)
(* API workers reserve it, renew it, advance its phase, settle it, or let  *)
(* it expire into a recovery marker that a recovery pass takes over.       *)
(* Exact stop requests (backend/session/abort.py) and the recovery pass    *)
(* (backend/agent/recovery.py, recovery_service.py) are the other actors.  *)
(*                                                                         *)
(* Abstractions.  A database transaction that holds the Session and Driver *)
(* locks is one step.  A deadline is kept as the time left to it, so time  *)
(* may pass without bound; Tick is the database clock.  run_id is a fresh  *)
(* uuid minted with each generation, so the generation stands for both.    *)
(* All sessions belong to one user: the quota is per user.  Session.status *)
(* is a read model the question runtime also writes and is left out.       *)
(***************************************************************************)
EXTENDS Integers, FiniteSets

CONSTANTS
  Sessions,          \* sessions of one user
  Workers,           \* API processes; WORKER_ID
  Messages,          \* message ids that may be the trigger of a run
  Stoppers,          \* requests that run abort_session_turn
  NoWorker, NoMessage, NoSession,
  LeaseSeconds,      \* LEASE_SECONDS, in clock ticks
  HeartbeatSeconds,  \* HEARTBEAT_SECONDS, in clock ticks
  MaxConcurrent,     \* max_concurrent_agents
  MaxGeneration,     \* bound on generations of one session
  MaxCrashes         \* bound on process crashes

ASSUME LeaseAssumption ==
  /\ LeaseSeconds \in Nat
  /\ HeartbeatSeconds \in Nat
  /\ 2 * HeartbeatSeconds < LeaseSeconds
ASSUME BoundAssumption ==
  /\ MaxConcurrent \in Nat
  /\ MaxGeneration \in Nat
  /\ MaxCrashes \in Nat
ASSUME NoneAssumption ==
  /\ NoWorker \notin Workers
  /\ NoMessage \notin Messages
  /\ NoSession \notin Sessions
ASSUME FiniteAssumption == IsFiniteSet(Sessions)

VARIABLES
  driver,    \* [session -> the agent_driver_state row]
  exempt,    \* [session -> its generation settles a stop, outside the quota] (history)
  ran,       \* [session -> its generation has passed a dispatch] (history)
  lease,     \* [session -> [generation -> the RunLease object]]
  activity,  \* [worker -> [session -> generation in _activities, 0 if none]]
  markers,   \* [worker -> RecoveredDriver records of its recovery pass]
  stop,      \* [stopper -> where abort_session_turn stands]
  crashes,   \* how many processes have crashed
  cleared,   \* [session -> last dispatch that assert_current let pass] (history)
  asked      \* [session -> generations an exact stop named] (history)

rows  == <<driver, exempt, ran>>
local == <<lease, activity>>
hist  == <<cleared, asked>>
vars  == <<driver, exempt, ran, lease, activity, markers, stop, crashes, cleared, asked>>

-----------------------------------------------------------------------------
Generations == 1 .. MaxGeneration
Phases      == {"idle", "reserved", "running", "finalizing"}
Working     == {"reserved", "running", "finalizing", "settlement"}
Settleable  == Working \cup {"unsettled"}
Places      == Settleable \cup {"none", "releasing", "preserving", "closing"}

Row == [generation : 0 .. MaxGeneration, phase : Phases,
        owner : Workers \cup {NoWorker}, trigger : Messages \cup {NoMessage},
        left : 0 .. LeaseSeconds, abort : BOOLEAN]

\* A RunLease object.  signal is its abort event with the cause that set it;
\* "lost" is _lost, which always comes with abort.set() and ends the monitor's
\* work.  receipt is the time left on what current_run_transport_lease would
\* hand to the execution plane (_lease_expires_at): 0 once the object is lost,
\* revoked or closed, when that function raises.
RunLease == [at : Places, owner : Workers \cup {NoWorker},
             signal : {"clear", "stop", "other", "lost"},
             receipt : 0 .. LeaseSeconds]

RecoveredDriver == [session : Sessions, generation : Generations,
                    phase : Phases \ {"idle"}, trigger : Messages \cup {NoMessage}]

Stop == [at : {"ready", "snapshot", "nudge", "waiting", "ended", "done"},
         worker : Workers \cup {NoWorker}, session : Sessions \cup {NoSession},
         generation : 0 .. MaxGeneration]

IdleRow(g) == [generation |-> g, phase |-> "idle", owner |-> NoWorker,
               trigger |-> NoMessage, left |-> 0, abort |-> FALSE]

\* No RunLease object: not yet created, closed, or gone with its process.
NoLease == [at |-> "none", owner |-> NoWorker, signal |-> "clear", receipt |-> 0]

NoStop == [at |-> "ready", worker |-> NoWorker, session |-> NoSession, generation |-> 0]

NotCleared == [generation |-> 0, left |-> 0]

Init ==
  /\ driver   = [s \in Sessions |-> IdleRow(0)]
  /\ exempt   = [s \in Sessions |-> FALSE]
  /\ ran      = [s \in Sessions |-> FALSE]
  /\ lease    = [s \in Sessions |-> [g \in Generations |-> NoLease]]
  /\ activity = [w \in Workers |-> [s \in Sessions |-> 0]]
  /\ markers  = [w \in Workers |-> {}]
  /\ stop     = [p \in Stoppers |-> NoStop]
  /\ crashes  = 0
  /\ cleared  = [s \in Sessions |-> NotCleared]
  /\ asked    = [s \in Sessions |-> {}]

-----------------------------------------------------------------------------
(* State formulae over the row and the local lease object. *)

\* _is_live: a claimed row whose deadline is still ahead.
Live(s) == driver[s].phase # "idle" /\ driver[s].left > 0

\* A claimed row whose deadline has passed is a recovery marker.
Expired(s) == driver[s].phase # "idle" /\ driver[s].left = 0

\* The WHERE clause every lease method shares, without and with its deadline.
Owned(s, g) ==
  /\ driver[s].generation = g
  /\ driver[s].owner = lease[s][g].owner
  /\ driver[s].phase # "idle"

OwnedLive(s, g) == Owned(s, g) /\ driver[s].left > 0

\* assert_run_fence_locked: the fence of one generation inside a transaction.
FenceHolds(s, g) == driver[s].generation = g /\ Live(s)

\* _enforce_agent_quota_locked: the count of live rows is below the limit.
QuotaAdmits == Cardinality({s \in Sessions : Live(s)}) < MaxConcurrent

\* The monitor task renews and polls until the object is lost or settling.
Monitored(s, g) == lease[s][g].at \in Working /\ lease[s][g].signal # "lost"

\* The statements that write one row, one object, one request.
SetRow(s, r)      == driver' = [driver EXCEPT ![s] = r]
SetLease(s, g, l) == lease' = [lease EXCEPT ![s][g] = l]
SetStop(p, q)     == stop' = [stop EXCEPT ![p] = q]

-----------------------------------------------------------------------------
(* Admission: reserve_run, reserve_recovered_run, the aborted-run settlement. *)

\* abort.set() by a cause other than losing the lease; the first cause stays.
Signalled(l, cause) == IF l.signal = "clear" THEN [l EXCEPT !.signal = cause] ELSE l

\* _activate_local_lease: nudge the object this process still holds, publish
\* the new one and start its monitor.
Activate(w, s, g, at) ==
  /\ lease' = [lease EXCEPT ![s] =
       [h \in Generations |->
          IF h = g
          THEN [at |-> at, owner |-> w, signal |-> "clear", receipt |-> LeaseSeconds]
          ELSE IF h = activity[w][s] THEN Signalled(lease[s][h], "other")
          ELSE lease[s][h]]]
  /\ activity' = [activity EXCEPT ![w][s] = g]

\* The row written by all three reservations, and its local publication.
Claim(w, s, phase, m, settles) ==
  LET g == driver[s].generation + 1
  IN /\ g \in Generations
     /\ SetRow(s, [generation |-> g, phase |-> phase, owner |-> w, trigger |-> m,
                   left |-> LeaseSeconds, abort |-> FALSE])
     /\ exempt' = [exempt EXCEPT ![s] = settles]
     /\ ran' = [ran EXCEPT ![s] = FALSE]
     /\ Activate(w, s, g, IF settles THEN "settlement" ELSE phase)

\* reserve_run: never over a live run, never over a recovery marker.
ReserveOverMarker(w, s, phase, m) ==
  /\ ~Live(s)
  /\ QuotaAdmits
  /\ Claim(w, s, phase, m, FALSE)
  /\ UNCHANGED <<markers, stop, crashes, hist>>

ReserveRun(w, s, phase, m) ==
  /\ driver[s].phase = "idle"
  /\ QuotaAdmits
  /\ Claim(w, s, phase, m, FALSE)
  /\ UNCHANGED <<markers, stop, crashes, hist>>

\* recover_expired_driver_records: the snapshot that opens a recovery pass.
\* The rows themselves stay as they are.
SnapshotReservedOnly(w) ==
  LET waiting == {t \in Sessions : Expired(t) /\ driver[t].phase = "reserved"}
  IN /\ markers[w] = {}
     /\ waiting # {}
     /\ markers' = [markers EXCEPT ![w] =
          {[session |-> s, generation |-> driver[s].generation,
            phase |-> driver[s].phase, trigger |-> driver[s].trigger] : s \in waiting}]
     /\ UNCHANGED <<rows, local, stop, crashes, hist>>

Snapshot(w) ==
  /\ markers[w] = {}
  /\ \E s \in Sessions : Expired(s)
  /\ markers' = [markers EXCEPT ![w] =
       {[session |-> s, generation |-> driver[s].generation,
         phase |-> driver[s].phase, trigger |-> driver[s].trigger] :
           s \in {t \in Sessions : Expired(t)}}]
  /\ UNCHANGED <<rows, local, stop, crashes, hist>>

\* The record still describes its row, and the row is still expired.
ExactMarker(r) ==
  /\ Expired(r.session)
  /\ driver[r.session].generation = r.generation
  /\ driver[r.session].phase = r.phase
  /\ driver[r.session].trigger = r.trigger

\* resume_reserved_prompts: only an accepted wake that never ran is replayed;
\* an already answered one is only settled.  Everything else is repaired.
ReplayAnyPhase(r) == r.trigger # NoMessage

Replayable(r) == r.phase = "reserved" /\ r.trigger # NoMessage

\* reserve_recovered_run for one record of this pass.
TakeOver(w, r, phase) ==
  /\ r \in markers[w]
  /\ Replayable(r) \/ phase = "finalizing"
  /\ ExactMarker(r)
  /\ QuotaAdmits
  /\ Claim(w, r.session, phase, r.trigger, FALSE)
  /\ markers' = [markers EXCEPT ![w] = @ \ {r}]
  /\ UNCHANGED <<stop, crashes, hist>>

\* StaleRecoveryError or a full quota: this pass leaves the record alone.
SkipRecord(w, r) ==
  /\ r \in markers[w]
  /\ ~ExactMarker(r) \/ ~QuotaAdmits
  /\ markers' = [markers EXCEPT ![w] = @ \ {r}]
  /\ UNCHANGED <<rows, local, stop, crashes, hist>>

-----------------------------------------------------------------------------
(* The RunLease methods. *)

\* _lost = True and abort.set().
Lost(l) == [l EXCEPT !.signal = "lost", !.receipt = 0]

\* A row refused the object: only the object changes.
BecomesLost(s, g) ==
  /\ SetLease(s, g, Lost(lease[s][g]))
  /\ UNCHANGED driver

Extend(s, g) ==
  /\ SetRow(s, [driver[s] EXCEPT !.left = LeaseSeconds])
  /\ SetLease(s, g, [lease[s][g] EXCEPT !.receipt = LeaseSeconds])

\* _monitor_loop at a heartbeat boundary: renew, or stop as a stale owner.
RenewRevives(s, g) ==
  /\ Monitored(s, g)
  /\ \/ Owned(s, g) /\ Extend(s, g)
     \/ ~Owned(s, g) /\ BecomesLost(s, g)
  /\ UNCHANGED <<exempt, ran, activity, markers, stop, crashes, hist>>

MonitorRenew(s, g) ==
  /\ Monitored(s, g)
  /\ \/ OwnedLive(s, g) /\ Extend(s, g)
     \/ ~OwnedLive(s, g) /\ BecomesLost(s, g)
  /\ UNCHANGED <<exempt, ran, activity, markers, stop, crashes, hist>>

\* The monitor's own database call raised: fail closed.
MonitorFails(s, g) ==
  /\ Monitored(s, g)
  /\ BecomesLost(s, g)
  /\ UNCHANGED <<exempt, ran, activity, markers, stop, crashes, hist>>

\* abort_was_requested as the monitor polls it: a lost row, a durable stop, or
\* a scheduling hold (observe_task_hold) set the local abort event.
PollIgnoresStop(s, g, hold) ==
  /\ Monitored(s, g)
  /\ \/ ~OwnedLive(s, g) /\ BecomesLost(s, g)
     \/ /\ OwnedLive(s, g) /\ hold
        /\ SetLease(s, g, Signalled(lease[s][g], "other"))
        /\ UNCHANGED driver
  /\ UNCHANGED <<exempt, ran, activity, markers, stop, crashes, hist>>

ObserveAbort(s, g, hold) ==
  /\ Monitored(s, g)
  /\ \/ ~OwnedLive(s, g) /\ BecomesLost(s, g)
     \/ /\ OwnedLive(s, g) /\ (driver[s].abort \/ hold)
        /\ SetLease(s, g, Signalled(lease[s][g], IF driver[s].abort THEN "stop" ELSE "other"))
        /\ UNCHANGED driver
  /\ UNCHANGED <<exempt, ran, activity, markers, stop, crashes, hist>>

\* A live row far enough from its deadline for the monitor to renew it in time.
MarginIgnored(s, g) == OwnedLive(s, g)

FarFromDeadline(s, g) == OwnedLive(s, g) /\ driver[s].left > 2 * HeartbeatSeconds

\* assert_current passed: one external dispatch may go out.
Cleared(s, g) ==
  /\ cleared' = [cleared EXCEPT ![s] =
                   [generation |-> g, left |-> 2 * HeartbeatSeconds]]
  /\ ran' = [ran EXCEPT ![s] = @ \/ lease[s][g].at = "running"]

\* assert_current before an external side effect: read the row, renew it near
\* its deadline, or become a stale owner.
AssertCurrent(s, g) ==
  /\ Monitored(s, g)
  /\ \/ FarFromDeadline(s, g) /\ Cleared(s, g) /\ UNCHANGED <<driver, lease>>
     \/ OwnedLive(s, g) /\ ~FarFromDeadline(s, g) /\ Extend(s, g) /\ Cleared(s, g)
     \/ ~OwnedLive(s, g) /\ BecomesLost(s, g) /\ UNCHANGED <<cleared, ran>>
  /\ UNCHANGED <<exempt, activity, markers, stop, crashes, asked>>

\* set_phase as run_loop calls it: reserved -> running -> finalizing.
NextPhase(at) == IF at = "reserved" THEN "running" ELSE "finalizing"

SetPhase(s, g) ==
  /\ lease[s][g].at \in {"reserved", "running"}
  /\ \/ /\ OwnedLive(s, g)
        /\ SetRow(s, [driver[s] EXCEPT !.phase = NextPhase(lease[s][g].at),
                                       !.left = LeaseSeconds])
        /\ SetLease(s, g, [lease[s][g] EXCEPT !.at = NextPhase(@)])
     \/ ~OwnedLive(s, g) /\ BecomesLost(s, g)
  /\ UNCHANGED <<exempt, ran, activity, markers, stop, crashes, hist>>

\* bind_trigger_message_locked: the accepted message and the wake pointer
\* commit in one fenced transaction.
BindTrigger(s, g, m) ==
  /\ lease[s][g].at \in {"reserved", "running"}
  /\ FenceHolds(s, g)
  /\ SetRow(s, [driver[s] EXCEPT !.trigger = m])
  /\ UNCHANGED <<exempt, ran, local, markers, stop, crashes, hist>>

\* An object that is being settled: receipts revoked, monitor stopped; its
\* abort event is not read again.
StillIssuing(l, at) == [l EXCEPT !.at = at]

Settling(l, at) == [l EXCEPT !.at = at, !.signal = "clear", !.receipt = 0]

\* release, first part: revoke before the database settlement.
ReleaseBegin(s, g) ==
  /\ lease[s][g].at \in Settleable
  /\ SetLease(s, g, Settling(lease[s][g], "releasing"))
  /\ UNCHANGED <<rows, activity, markers, stop, crashes, hist>>

\* release, its transaction: clear exactly this still-live generation.
ReleaseCommit(s, g) ==
  /\ lease[s][g].at = "releasing"
  /\ SetRow(s, IF OwnedLive(s, g) THEN IdleRow(g) ELSE driver[s])
  /\ SetLease(s, g, [lease[s][g] EXCEPT !.at = "closing"])
  /\ UNCHANGED <<exempt, ran, activity, markers, stop, crashes, hist>>

\* release, its commit fails: the object stays open for the finalizer.
ReleaseFails(s, g) ==
  /\ lease[s][g].at = "releasing"
  /\ SetLease(s, g, [lease[s][g] EXCEPT !.at = "unsettled"])
  /\ UNCHANGED <<rows, activity, markers, stop, crashes, hist>>

\* preserve_for_recovery, first part.  A stop's settlement is only released.
PreserveBegin(s, g) ==
  /\ lease[s][g].at \in Settleable
  /\ ~(exempt[s] /\ driver[s].generation = g)
  /\ SetLease(s, g, Settling(lease[s][g], "preserving"))
  /\ UNCHANGED <<rows, activity, markers, stop, crashes, hist>>

\* preserve_for_recovery, its transaction: expire the row now.  Whether or not
\* it commits, the local object closes.
PreserveEnd(s, g, committed) ==
  /\ lease[s][g].at = "preserving"
  /\ SetRow(s, IF committed /\ Owned(s, g) THEN [driver[s] EXCEPT !.left = 0] ELSE driver[s])
  /\ SetLease(s, g, [lease[s][g] EXCEPT !.at = "closing"])
  /\ UNCHANGED <<exempt, ran, activity, markers, stop, crashes, hist>>

\* _closed = True and _retire_local_activity.
Close(s, g) ==
  /\ lease[s][g].at = "closing"
  /\ SetLease(s, g, NoLease)
  /\ activity' = [activity EXCEPT ![lease[s][g].owner][s] = IF @ = g THEN 0 ELSE @]
  /\ UNCHANGED <<rows, markers, stop, crashes, hist>>

-----------------------------------------------------------------------------
(* abort_session_turn: stop one exact generation and record the interruption. *)

\* get_driver_state: the run that is current now becomes the target.
StopSnapshot(p, w, s) ==
  /\ stop[p].at = "ready"
  /\ driver[s].phase # "idle"
  /\ SetStop(p, [at |-> "snapshot", worker |-> w, session |-> s,
                 generation |-> driver[s].generation])
  /\ UNCHANGED <<rows, local, markers, crashes, hist>>

\* request_abort: a compare-and-set on the exact live generation.
AbortWhateverIsLive(p) ==
  LET s == stop[p].session
  IN /\ stop[p].at = "snapshot"
     /\ Live(s)
     /\ SetRow(s, [driver[s] EXCEPT !.abort = TRUE])
     /\ asked' = [asked EXCEPT ![s] = @ \cup {stop[p].generation}]
     /\ SetStop(p, [stop[p] EXCEPT !.at = "nudge"])
     /\ UNCHANGED <<exempt, ran, local, markers, crashes, cleared>>

RequestAbort(p) ==
  LET s == stop[p].session
  IN /\ stop[p].at = "snapshot"
     /\ FenceHolds(s, stop[p].generation)
     /\ SetRow(s, [driver[s] EXCEPT !.abort = TRUE])
     /\ asked' = [asked EXCEPT ![s] = @ \cup {stop[p].generation}]
     /\ SetStop(p, [stop[p] EXCEPT !.at = "nudge"])
     /\ UNCHANGED <<exempt, ran, local, markers, crashes, cleared>>

\* The compare-and-set missed: retarget the replacement, or give up.
StopMisses(p) ==
  LET s == stop[p].session
  IN /\ stop[p].at = "snapshot"
     /\ ~FenceHolds(s, stop[p].generation)
     /\ SetStop(p, IF driver[s].phase # "idle" /\ driver[s].generation # stop[p].generation
                    THEN [stop[p] EXCEPT !.generation = driver[s].generation]
                    ELSE [stop[p] EXCEPT !.at = "done"])
     /\ UNCHANGED <<rows, local, markers, crashes, hist>>

\* The local nudge after the commit, only to the exact generation.
Nudge(p) ==
  LET s == stop[p].session
      g == stop[p].generation
  IN /\ stop[p].at = "nudge"
     /\ lease' = [lease EXCEPT ![s] =
          [h \in Generations |->
             IF h = g /\ activity[stop[p].worker][s] = g
             THEN Signalled(lease[s][h], "stop") ELSE lease[s][h]]]
     /\ SetStop(p, [stop[p] EXCEPT !.at = "waiting"])
     /\ UNCHANGED <<rows, activity, markers, crashes, hist>>

\* wait_for_generation_end answers for the named generation, or times out.
GenerationEnded(p) ==
  /\ stop[p].at = "waiting"
  /\ activity[stop[p].worker][stop[p].session] # stop[p].generation
  /\ ~FenceHolds(stop[p].session, stop[p].generation)
  /\ SetStop(p, [stop[p] EXCEPT !.at = "ended"])
  /\ UNCHANGED <<rows, local, markers, crashes, hist>>

StopTimesOut(p) ==
  /\ stop[p].at = "waiting"
  /\ SetStop(p, [stop[p] EXCEPT !.at = "done"])
  /\ UNCHANGED <<rows, local, markers, crashes, hist>>

\* reserve_aborted_run_settlement: the row must be idle at exactly the target.
\* It continues admitted work, so the quota is not consulted.
SettleAnyIdleRow(p) ==
  LET s == stop[p].session
  IN /\ stop[p].at = "ended"
     /\ driver[s].phase = "idle"
     /\ Claim(stop[p].worker, s, "finalizing", NoMessage, TRUE)
     /\ SetStop(p, [stop[p] EXCEPT !.at = "done"])
     /\ UNCHANGED <<markers, crashes, hist>>

SettleAborted(p) ==
  LET s == stop[p].session
  IN /\ stop[p].at = "ended"
     /\ driver[s] = IdleRow(stop[p].generation)
     /\ Claim(stop[p].worker, s, "finalizing", NoMessage, TRUE)
     /\ SetStop(p, [stop[p] EXCEPT !.at = "done"])
     /\ UNCHANGED <<markers, crashes, hist>>

SettleStale(p) ==
  /\ stop[p].at = "ended"
  /\ driver[stop[p].session] # IdleRow(stop[p].generation)
  /\ SetStop(p, [stop[p] EXCEPT !.at = "done"])
  /\ UNCHANGED <<rows, local, markers, crashes, hist>>

-----------------------------------------------------------------------------
(* The environment: a process dies with its memory; the database clock runs. *)

Crash(w) ==
  /\ crashes < MaxCrashes
  /\ crashes' = crashes + 1
  /\ lease' = [s \in Sessions |-> [g \in Generations |->
                 IF lease[s][g].owner = w THEN NoLease ELSE lease[s][g]]]
  /\ activity' = [activity EXCEPT ![w] = [s \in Sessions |-> 0]]
  /\ markers' = [markers EXCEPT ![w] = {}]
  /\ stop' = [p \in Stoppers |->
                IF stop[p].worker = w THEN [stop[p] EXCEPT !.at = "done"] ELSE stop[p]]
  /\ UNCHANGED <<rows, hist>>

LessUnchecked(n) == n - 1

Less(n) == IF n = 0 THEN 0 ELSE n - 1

Tick ==
  /\ driver' = [s \in Sessions |-> [driver[s] EXCEPT !.left = Less(@)]]
  /\ lease' = [s \in Sessions |-> [g \in Generations |->
                 [lease[s][g] EXCEPT !.receipt = Less(@)]]]
  /\ cleared' = [s \in Sessions |->
                   IF cleared[s].left <= 1 THEN NotCleared
                   ELSE [cleared[s] EXCEPT !.left = Less(@)]]
  /\ UNCHANGED <<exempt, ran, activity, markers, stop, crashes, asked>>

-----------------------------------------------------------------------------
LeaseStep(s, g) ==
  \/ MonitorRenew(s, g)
  \/ MonitorFails(s, g)
  \/ \E hold \in BOOLEAN : ObserveAbort(s, g, hold)
  \/ AssertCurrent(s, g)
  \/ SetPhase(s, g)
  \/ \E m \in Messages : BindTrigger(s, g, m)
  \/ ReleaseBegin(s, g)
  \/ ReleaseCommit(s, g)
  \/ ReleaseFails(s, g)
  \/ PreserveBegin(s, g)
  \/ \E committed \in BOOLEAN : PreserveEnd(s, g, committed)
  \/ Close(s, g)

RecoveryStep(w) ==
  \/ Snapshot(w)
  \/ \E r \in markers[w] :
       \/ \E phase \in {"reserved", "finalizing"} : TakeOver(w, r, phase)
       \/ SkipRecord(w, r)

StopStep(p) ==
  \/ \E w \in Workers, s \in Sessions : StopSnapshot(p, w, s)
  \/ RequestAbort(p)
  \/ StopMisses(p)
  \/ Nudge(p)
  \/ GenerationEnded(p)
  \/ StopTimesOut(p)
  \/ SettleAborted(p)
  \/ SettleStale(p)

Next ==
  \/ \E w \in Workers, s \in Sessions :
       \/ \E m \in Messages \cup {NoMessage} : ReserveRun(w, s, "reserved", m)
       \/ ReserveRun(w, s, "finalizing", NoMessage)
  \/ \E s \in Sessions, g \in Generations : LeaseStep(s, g)
  \/ \E w \in Workers : RecoveryStep(w) \/ Crash(w)
  \/ \E p \in Stoppers : StopStep(p)
  \/ Tick

Spec == Init /\ [][Next]_vars

\* The clock runs; a monitor task polls every half second; a signalled or
\* settling run reaches its next boundary; recovery passes repeat every few
\* seconds and visit each record.  Nothing is assumed of reservations, of
\* database commits succeeding, or of runs that nobody stopped.
Fairness ==
  /\ WF_vars(Tick)
  /\ \A s \in Sessions, g \in Generations :
       /\ WF_vars(ObserveAbort(s, g, FALSE))
       /\ WF_vars(lease[s][g].signal # "clear" /\ ReleaseBegin(s, g))
       /\ WF_vars(ReleaseCommit(s, g) \/ ReleaseFails(s, g))
  /\ \A w \in Workers : WF_vars(RecoveryStep(w))

FairSpec == Spec /\ Fairness

-----------------------------------------------------------------------------
(* Properties *)

\* The variables keep their types.
TypeOK ==
  /\ driver   \in [Sessions -> Row]
  /\ exempt   \in [Sessions -> BOOLEAN]
  /\ ran      \in [Sessions -> BOOLEAN]
  /\ lease    \in [Sessions -> [Generations -> RunLease]]
  /\ activity \in [Workers -> [Sessions -> 0 .. MaxGeneration]]
  /\ markers  \in [Workers -> SUBSET RecoveredDriver]
  /\ stop     \in [Stoppers -> Stop]
  /\ crashes  \in 0 .. MaxCrashes
  /\ cleared  \in [Sessions -> [generation : 0 .. MaxGeneration, left : 0 .. LeaseSeconds]]
  /\ asked    \in [Sessions -> SUBSET Generations]

\* A receipt that current_run_transport_lease may hand to the execution plane
\* never promises more time than the database still gives that generation, so
\* two processes never hold unexpired receipts for one session.
ReceiptWithinLease ==
  \A s \in Sessions, g \in Generations :
    lease[s][g].receipt > 0 =>
      /\ driver[s].generation = g
      /\ driver[s].phase # "idle"
      /\ lease[s][g].receipt <= driver[s].left

\* After assert_current lets a dispatch pass, the generation stays live for two
\* heartbeats unless its own owner settles it or dies: the margin covers the
\* monitor's next renewal.
DispatchWindow ==
  \A s \in Sessions, g \in Generations :
    cleared[s].generation = g /\ cleared[s].left > 0 /\ lease[s][g].at \in Working =>
      FenceHolds(s, g) /\ driver[s].left >= cleared[s].left

\* Live generations other than stop settlements stay within
\* max_concurrent_agents: renewal and phase changes never revive an expired
\* row that an admission has already counted out.
QuotaHolds == Cardinality({s \in Sessions : Live(s) /\ ~exempt[s]}) <= MaxConcurrent

\* An exact stop reaches the generation it named and no replacement of it,
\* neither through abort_requested_at nor through the local event.
StopHitsItsRun ==
  \A s \in Sessions :
    /\ driver[s].abort => driver[s].generation \in asked[s]
    /\ \A g \in Generations : lease[s][g].signal = "stop" => g \in asked[s]

\* A recovery marker is never erased: an expired row only gives way to the next
\* generation of the same trigger, claimed by recovery.
KeepsMarkers ==
  \A s \in Sessions :
    Expired(s) =>
      \/ driver'[s] = driver[s]
      \/ /\ driver'[s].generation = driver[s].generation + 1
         /\ driver'[s].trigger = driver[s].trigger
         /\ driver'[s].phase \in {"reserved", "finalizing"}

MarkerKept == [][KeepsMarkers]_vars

\* Recovery replays only a wake whose generation never passed a dispatch, so a
\* crash never makes a prompt run twice.
ReplaysOnlyUnrun ==
  \A s \in Sessions :
    Expired(s) /\ driver'[s].generation # driver[s].generation
      /\ driver'[s].phase = "reserved" => ~ran[s]

ReplayNeverRepeatsWork == [][ReplaysOnlyUnrun]_vars

\* The interruption bookkeeping of a stop follows the run it stopped directly:
\* no other generation ran in between.
SettlesTheStopped ==
  \A s \in Sessions :
    exempt'[s] /\ driver'[s].generation # driver[s].generation =>
      driver[s].generation \in asked[s]

SettlementFollowsItsRun == [][SettlesTheStopped]_vars

\* Each session's row implements the run fence that the ledgers rely on: only a
\* reservation makes a row live, with the next generation, and nothing brings
\* an ended generation back.
Fence(s) == INSTANCE RunFence WITH generation <- driver[s].generation, live <- Live(s)

FenceSteps == \A s \in Sessions : [Fence(s)!Next]_<<driver[s].generation, Live(s)>>

ImplementsRunFence == (\A s \in Sessions : Fence(s)!Init) /\ [][FenceSteps]_vars

\* A stop that was accepted ends the run it named, on whichever process the run
\* lives and even if that process dies: the monitor polls the durable flag, and
\* an owner that no longer renews loses the row to the clock.
StopEndsRun ==
  \A s \in Sessions, g \in Generations : g \in asked[s] ~> ~FenceHolds(s, g)

\* A recovery marker does not stay behind: a later pass claims it, unless a stop
\* has the session.  (With the last generation of the bound the model has no
\* successor to give it.)
MarkerRecovered ==
  \A s \in Sessions, g \in 1 .. MaxGeneration - 1 :
    Expired(s) /\ driver[s].generation = g
      ~> driver[s].generation > g \/ \E p \in Stoppers : stop[p].at # "ready"

\* What holding a lease means at every moment: receipts and passed dispatch
\* checks promise no more time than the row gives their generation.
LeaseKept == TypeOK /\ ReceiptWithinLease /\ DispatchWindow

\* What a crash leaves is recovered, and recovered once: no marker is erased,
\* and no generation that dispatched work is replayed.
RecoveredOnce == MarkerKept /\ ReplayNeverRepeatsWork

\* No session stays busy for ever: expired generations find a successor, and
\* stopped ones end.
RunsEnd == MarkerRecovered /\ StopEndsRun
=============================================================================
