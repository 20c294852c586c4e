----------------------------- MODULE MemoryIndex ----------------------------
(***************************************************************************)
(* The search index of long-term memories (memory/outbox.py, the deletions  *)
(* of memory/reconcile.py and enqueue_memory_outbox), for one memory.       *)
(*                                                                          *)
(* Every change of the memory in SQL queues an event in an outbox.  Workers *)
(* take events under a lease and bring the index, a service with no fence   *)
(* of its own, to the event's revision: they write and delete there while   *)
(* the person corrects or forgets the memory, their lease may run out       *)
(* meanwhile, and a write they gave up on may still arrive.  Two passes     *)
(* repair what is left: one finishes deletions, one compares SQL with what  *)
(* the index holds.                                                         *)
(***************************************************************************)
EXTENDS Naturals, FiniteSets

CONSTANTS Workers, None,
          MaxRev,        \* bound on revisions of the memory
          MaxRows,       \* bound on outbox rows; a finished one nobody refers to is reused
          MaxAttempts,   \* config.max_attempts
          MaxErrors,     \* bound on failed calls of the providers
          MaxStops,      \* bound on crashes, and on stalls that cost a lease
          MaxSwitches    \* bound on switching index_sync off

VARIABLES
    rev, gone,     \* the memory in SQL: its revision, and that it is forgotten
    rows,          \* memory_outbox
    idx,           \* memory_index_state: desired and indexed revision, status
    purge,         \* purge_status of the tombstone
    points,        \* revisions the index holds vectors of
    late,          \* events whose write was given up and may still arrive
    worker,        \* where each worker is, and at which event
    sweep,         \* the pass that finishes deletions
    scan,          \* the pass that compares: what it read
    stale,         \* history: it repaired by a reading SQL had left behind
    sync,          \* config.index_sync
    spent

vars == <<rev, gone, rows, idx, purge, points, late, worker, sweep, scan, stale, sync, spent>>
sql == <<rev, gone>>
passes == <<sweep, scan, stale>>

Revs == 1..MaxRev
Slots == 1..MaxRows
Outstanding == {"PENDING", "RETRY", "RUNNING", "DEAD"}
Leases == Workers \cup {"lapsed", "graced", None}
NoRow == [op |-> "UPSERT", rev |-> 0, status |-> "CANCELLED", tries |-> 0,
          lease |-> None, seen |-> None]
Idle == [at |-> "idle", e |-> None]
NoScan == [at |-> "idle", rev |-> 0, live |-> FALSE, fits |-> FALSE, seen |-> {}]

Event(op, r, seen) == [NoRow EXCEPT !.op = op, !.rev = r, !.status = "PENDING", !.seen = seen]

\* A finished row that nothing refers to any more: the last delete that
\* succeeded is what makes an older write superseded.
Free(e) ==
    /\ rows[e].status \in {"SUCCEEDED", "CANCELLED"} /\ e \notin late
    /\ \A w \in Workers : worker[w].e # e
    /\ rows[e].op = "DELETE" =>
         \E d \in Slots \ {e} : rows[d].op = "DELETE" /\ rows[d].status = "SUCCEEDED"
FreeRow == CHOOSE e \in Slots : Free(e)
Add(table, event) ==
    (\E e \in Slots : Free(e)) /\ rows' = [table EXCEPT ![FreeRow] = event]

\* Mutant: the lease stays.
DoneLeased(row, status) == [row EXCEPT !.status = status, !.tries = 0, !.seen = None]

\* A row that is finished: its lease, and the model's bookkeeping, are dropped.
Done(row, status) == [row EXCEPT !.status = status, !.lease = None, !.tries = 0, !.seen = None]

Init ==
    /\ rev = 1 /\ gone = FALSE /\ purge = "none"
    /\ rows = [e \in Slots |-> IF e = 1 THEN Event("UPSERT", 1, None) ELSE NoRow]
    /\ idx = [desired |-> 1, indexed |-> 0, status |-> "PENDING"]
    /\ points = {} /\ late = {}
    /\ worker = [w \in Workers |-> Idle]
    /\ sweep = "idle" /\ scan = NoScan /\ stale = FALSE /\ sync = TRUE
    /\ spent = [error |-> 0, stop |-> 0, switch |-> 0]

Spend(kind, bound) == spent[kind] < bound /\ spent' = [spent EXCEPT ![kind] = @ + 1]

-----------------------------------------------------------------------------
(* The person.                                                              *)

\* edit_note_in_session
Correct ==
    /\ ~gone /\ rev < MaxRev /\ rev' = rev + 1
    /\ Add(rows, Event("UPSERT", rev + 1, None))
    /\ idx' = [idx EXCEPT !.desired = rev + 1, !.status = "PENDING"]
    /\ UNCHANGED <<gone, purge, points, late, worker, passes, sync, spent>>

\* _forget_in_session, and retire_in_session, which leaves no tombstone: writes
\* nobody has taken yet are cancelled.
Superseded == [e \in Slots |->
    IF rows[e].op = "UPSERT" /\ rows[e].status \in {"PENDING", "RETRY"} /\ rows[e].rev <= rev + 1
    THEN Done(rows[e], "CANCELLED") ELSE rows[e]]
Forget ==
    /\ ~gone /\ rev < MaxRev /\ rev' = rev + 1 /\ gone' = TRUE
    /\ Add(Superseded, Event("DELETE", rev + 1, None))
    /\ idx' = [idx EXCEPT !.desired = rev + 1, !.status = "DELETE_PENDING"]
    /\ purge' \in {"PENDING", "none"}
    /\ UNCHANGED <<points, late, worker, passes, sync, spent>>

\* The rollout is switched off, and on again.
Switch ==
    /\ IF sync THEN Spend("switch", MaxSwitches) ELSE UNCHANGED spent
    /\ sync' = ~sync
    /\ UNCHANGED <<sql, rows, idx, purge, points, late, worker, passes>>

-----------------------------------------------------------------------------
(* A delivery.                                                              *)

Claimable(e) ==
    /\ \/ rows[e].status \in {"PENDING", "RETRY"}
       \/ rows[e].status = "RUNNING" /\ rows[e].lease \in {"lapsed", "graced"}
    /\ rows[e].op = "DELETE" \/ sync               \* _delivery_eligible

Buried == [e \in Slots |->
    IF Claimable(e) /\ rows[e].tries >= MaxAttempts
    THEN [rows[e] EXCEPT !.status = "DEAD", !.lease = None] ELSE rows[e]]

\* claim_outbox
Claim(w) ==
    /\ worker[w].at = "idle"
    /\ \/ \E e \in Slots :
            /\ Claimable(e) /\ rows[e].tries < MaxAttempts
            /\ rows' = [Buried EXCEPT ![e].status = "RUNNING", ![e].lease = w, ![e].tries = @ + 1]
            /\ worker' = [worker EXCEPT ![w] = [at |-> "start", e |-> e]]
       \/ /\ \A e \in Slots : Claimable(e) => rows[e].tries >= MaxAttempts
          /\ rows' = Buried /\ rows' # rows /\ UNCHANGED worker
    /\ UNCHANGED <<sql, idx, purge, points, late, passes, sync, spent>>

\* _fence
Holds(w) == LET r == rows[worker[w].e] IN r.status = "RUNNING" /\ r.lease = w

\* _snapshot finds the document of this very revision.  Losing access to the
\* workspace or the project is, to the index, forgetting: a memory that is out of
\* reach for a while and comes back (MemoryAccessDenied, outbox.py:118) is not
\* modelled.
Current(e) == ~gone /\ rev = rows[e].rev /\ idx.desired = rows[e].rev

Go(w, p) == worker' = [worker EXCEPT ![w].at = p]
Drop(w) == worker' = [worker EXCEPT ![w] = Idle]

\* deliver_outbox up to the embedding, which holds nothing.
Start(w) ==
    LET e == worker[w].e IN
    /\ worker[w].at = "start"
    /\ \/ ~Holds(w) /\ Drop(w)
       \/ Holds(w) /\ rows[e].op = "DELETE" /\ Go(w, "purge")
       \/ Holds(w) /\ rows[e].op = "UPSERT" /\ ~Current(e) /\ Go(w, "undo")
       \/ Holds(w) /\ rows[e].op = "UPSERT" /\ Current(e) /\ ~sync /\ Drop(w)
       \/ Holds(w) /\ rows[e].op = "UPSERT" /\ Current(e) /\ sync /\ Go(w, "embedded")
    /\ UNCHANGED <<sql, rows, idx, purge, points, late, passes, sync, spent>>

\* ... the lease and the snapshot again, and the lease once more before the
\* write goes out.
Recheck(w) ==
    LET e == worker[w].e IN
    /\ worker[w].at = "embedded"
    /\ \/ ~Holds(w) /\ Drop(w)
       \/ Holds(w) /\ ~Current(e) /\ Go(w, "undo")
       \/ Holds(w) /\ Current(e) /\ ~sync /\ Drop(w)
       \/ Holds(w) /\ Current(e) /\ sync /\ Go(w, "ready")
    /\ UNCHANGED <<sql, rows, idx, purge, points, late, passes, sync, spent>>

Send(w) ==
    /\ worker[w].at = "ready"
    /\ IF Holds(w) THEN Go(w, "sent") ELSE Drop(w)
    /\ UNCHANGED <<sql, rows, idx, purge, points, late, passes, sync, spent>>

\* upsert_version
Write(w) ==
    /\ worker[w].at = "sent" /\ Go(w, "wrote")
    /\ points' = points \cup {rows[worker[w].e].rev}
    /\ UNCHANGED <<sql, rows, idx, purge, late, passes, sync, spent>>

\* What was written is compared with SQL again, by whoever wrote it; only the
\* holder goes on to the older revisions.
AfterWrite(w) ==
    /\ worker[w].at = "wrote"
    /\ \/ ~Current(worker[w].e) /\ Go(w, "undo")
       \/ Current(worker[w].e) /\ Holds(w) /\ Go(w, "prune")
       \/ Current(worker[w].e) /\ ~Holds(w) /\ Drop(w)
    /\ UNCHANGED <<sql, rows, idx, purge, points, late, passes, sync, spent>>

\* Mutant: every revision but its own.
PruneOthers(w) ==
    /\ worker[w].at = "prune" /\ Go(w, "indexed")
    /\ points' = points \cap {rows[worker[w].e].rev}
    /\ UNCHANGED <<sql, rows, idx, purge, late, passes, sync, spent>>

\* delete_object_versions(keep_revision): strictly older ones.
Prune(w) ==
    /\ worker[w].at = "prune" /\ Go(w, "indexed")
    /\ points' = {r \in points : r >= rows[worker[w].e].rev}
    /\ UNCHANGED <<sql, rows, idx, purge, late, passes, sync, spent>>

\* delete_revision: the version of this event and no other.
Undo(w) ==
    /\ worker[w].at = "undo" /\ Go(w, "ineligible")
    /\ points' = points \ {rows[worker[w].e].rev}
    /\ UNCHANGED <<sql, rows, idx, purge, late, passes, sync, spent>>

\* delete_object_versions, for a delete event.
Purge(w) ==
    /\ worker[w].at = "purge" /\ Go(w, "deleted")
    /\ points' = {}
    /\ UNCHANGED <<sql, rows, idx, purge, late, passes, sync, spent>>

Status == [indexed |-> "INDEXED", ineligible |-> "INELIGIBLE", deleted |-> "DELETED"]

\* Mutant: events given up count as finished.
OthersOpenAlive(e) == \E o \in Slots \ {e} : rows[o].status \in Outstanding \ {"DEAD"}

OthersOpen(e) == \E o \in Slots \ {e} : rows[o].status \in Outstanding

\* The fenced transaction at the end of deliver_outbox: the state, if it still
\* wants this revision and is not settled by a delete, the row, the tombstone.
Settle(w) ==
    LET e == worker[w].e
        status == Status[worker[w].at]
        kept == idx.status = "DELETED" /\ rows[e].op = "UPSERT" /\ status = "INELIGIBLE"
    IN  /\ worker[w].at \in DOMAIN Status /\ Drop(w)
        /\ IF Holds(w)
           THEN /\ rows' = [rows EXCEPT ![e] = Done(@, "SUCCEEDED")]
                /\ idx' = IF idx.desired # rows[e].rev \/ kept THEN idx
                          ELSE [idx EXCEPT !.status = status, !.indexed = rows[e].rev]
                /\ purge' = IF purge = "none" \/ status # "DELETED" THEN purge
                            ELSE IF OthersOpen(e) THEN "PENDING" ELSE "SUCCEEDED"
           ELSE UNCHANGED <<rows, idx, purge>>
        /\ UNCHANGED <<sql, points, late, passes, sync, spent>>

\* A call of a provider fails, or its answer does not arrive: fail_outbox.  A
\* write given up may arrive all the same.
Fail(w) ==
    LET e == worker[w].e
        obsolete == rows[e].op = "UPSERT" /\ ~Current(e)
        status == IF obsolete THEN "CANCELLED"
                  ELSE IF rows[e].tries >= MaxAttempts THEN "DEAD" ELSE "RETRY"
    IN  /\ worker[w].at \in {"start", "sent", "prune", "undo", "purge"}
        /\ Spend("error", MaxErrors) /\ Drop(w)
        /\ \/ worker[w].at = "sent" /\ late' = late \cup {e}
           \/ UNCHANGED late
        /\ IF Holds(w)
           THEN /\ rows' = [rows EXCEPT ![e] =
                    IF obsolete THEN Done(@, status) ELSE [@ EXCEPT !.status = status, !.lease = None]]
                /\ idx' = IF obsolete \/ idx.desired # rows[e].rev \/ idx.status = "DELETED" THEN idx
                          ELSE [idx EXCEPT !.status = status]
           ELSE UNCHANGED <<rows, idx>>
        /\ UNCHANGED <<sql, purge, points, passes, sync>>

Crash(w) ==
    /\ worker[w].at # "idle" /\ Spend("stop", MaxStops) /\ Drop(w)
    /\ \/ worker[w].at = "sent" /\ late' = late \cup {worker[w].e}
       \/ UNCHANGED late
    /\ UNCHANGED <<sql, rows, idx, purge, points, passes, sync>>

Arrive(e) ==
    /\ e \in late /\ late' = late \ {e}
    /\ points' = points \cup {rows[e].rev}
    /\ UNCHANGED <<sql, rows, idx, purge, worker, passes, sync, spent>>

\* _heartbeat ends with its worker, or is held up: the lease runs out.
Lapse(e) ==
    /\ rows[e].status = "RUNNING" /\ rows[e].lease \in Workers
    /\ IF worker[rows[e].lease].e = e THEN Spend("stop", MaxStops) ELSE UNCHANGED spent
    /\ rows' = [rows EXCEPT ![e].lease = "lapsed"]
    /\ UNCHANGED <<sql, idx, purge, points, late, worker, passes, sync>>

\* The grace period after it, in which a write under way ends.
Grace(e) ==
    /\ rows[e].status = "RUNNING" /\ rows[e].lease = "lapsed" /\ e \notin late
    /\ \A w \in Workers : worker[w].e = e => worker[w].at # "sent"
    /\ rows' = [rows EXCEPT ![e].lease = "graced"]
    /\ UNCHANGED <<sql, idx, purge, points, late, worker, passes, sync, spent>>

-----------------------------------------------------------------------------
(* reconcile_pending_deletions                                              *)

Debt ==
    \/ purge = "PENDING"
    \/ purge # "none" /\ idx.status \notin {"DELETED", "INELIGIBLE"}
    \/ \E e \in Slots :
         LET r == rows[e] IN
         \/ r.op = "DELETE" /\ r.status \in Outstanding
         \/ r.op = "UPSERT" /\ r.status = "RUNNING" /\ r.lease = "graced"
         \/ /\ r.op = "UPSERT" /\ r.status = "DEAD"
            /\ \E d \in Slots : /\ rows[d].op = "DELETE" /\ rows[d].status = "SUCCEEDED"
                                /\ rows[d].rev >= r.rev

\* Mutant: no grace period.
BlockedByLease == \E e \in Slots : rows[e].status = "RUNNING" /\ rows[e].lease \in Workers

\* lease_blocks
Blocked == \E e \in Slots : rows[e].status = "RUNNING" /\ rows[e].lease # "graced"

SweepDelete ==
    /\ sweep = "idle" /\ Debt /\ ~Blocked /\ gone
    /\ sweep' = "verify" /\ points' = {}
    /\ UNCHANGED <<sql, rows, idx, purge, late, worker, scan, stale, sync, spent>>

SweepVerify ==
    /\ sweep = "verify" /\ sweep' = IF points = {} THEN "commit" ELSE "idle"
    /\ UNCHANGED <<sql, rows, idx, purge, points, late, worker, scan, stale, sync, spent>>

Cleared == [e \in Slots |->
    IF rows[e].status \notin Outstanding THEN rows[e]
    ELSE Done(rows[e], IF rows[e].op = "UPSERT" THEN "CANCELLED" ELSE "SUCCEEDED")]
\* Mutant: the tombstone is left for the events, which are all finished now.
SweepCommitUnmarked ==
    /\ sweep = "commit" /\ sweep' = "idle"
    /\ IF Blocked THEN UNCHANGED <<rows, idx>>
       ELSE rows' = Cleared /\ idx' = [idx EXCEPT !.status = "DELETED", !.indexed = idx.desired]
    /\ UNCHANGED <<sql, purge, points, late, worker, scan, stale, sync, spent>>

SweepCommit ==
    /\ sweep = "commit" /\ sweep' = "idle"
    /\ IF Blocked THEN UNCHANGED <<rows, idx, purge>>
       ELSE /\ rows' = Cleared
            /\ idx' = [idx EXCEPT !.status = "DELETED", !.indexed = idx.desired]
            /\ purge' = IF purge = "none" THEN purge ELSE "SUCCEEDED"
    /\ UNCHANGED <<sql, points, late, worker, scan, stale, sync, spent>>

-----------------------------------------------------------------------------
(* reconcile: SQL, then the index, then a repair event.                     *)

\* The documents and the state, in one transaction: does the state fit SQL?
ScanRead ==
    /\ sync /\ scan.at = "idle"
    /\ scan' = [at |-> "look", live |-> ~gone, seen |-> {},
                rev |-> IF gone THEN idx.desired ELSE rev,
                fits |-> IF gone THEN idx.status \in {"DELETED", "INELIGIBLE"}
                         ELSE idx.status = "INDEXED" /\ idx.indexed = rev]
    /\ UNCHANGED <<sql, rows, idx, purge, points, late, worker, sweep, stale, sync, spent>>

\* Mutant: the index is not asked.
ScanLookSql ==
    /\ scan.at = "look"
    /\ scan' = IF scan.fits THEN NoScan ELSE [scan EXCEPT !.at = "repair", !.seen = points]
    /\ UNCHANGED <<sql, rows, idx, purge, points, late, worker, sweep, stale, sync, spent>>

\* ... and does what the index holds fit the state?
ScanLook ==
    /\ scan.at = "look"
    /\ scan' = IF scan.fits /\ points = (IF scan.live THEN {scan.rev} ELSE {}) THEN NoScan
               ELSE [scan EXCEPT !.at = "repair", !.seen = points]
    /\ UNCHANGED <<sql, rows, idx, purge, points, late, worker, sweep, stale, sync, spent>>

\* What the pass read is what SQL wants now.
Fresh == scan.live = ~gone /\ scan.rev = IF gone THEN idx.desired ELSE rev

\* The repair is queued as it was read, and becomes the revision wanted.
ScanRepair ==
    /\ scan.at = "repair" /\ scan' = NoScan
    /\ IF \E e \in Slots : /\ rows[e].seen # None /\ rows[e].seen = scan.seen
                           /\ rows[e].rev = scan.rev /\ rows[e].status \in Outstanding \ {"DEAD"}
       THEN UNCHANGED <<rows, idx, stale>>
       ELSE /\ Add(rows, Event(IF scan.live THEN "UPSERT" ELSE "DELETE", scan.rev, scan.seen))
            /\ idx' = [idx EXCEPT !.desired = scan.rev, !.status = "PENDING"]
            /\ stale' = (stale \/ ~Fresh)
    /\ UNCHANGED <<sql, purge, points, late, worker, sweep, sync, spent>>

-----------------------------------------------------------------------------
Deliver(w) ==
    \/ Start(w) \/ Recheck(w) \/ Send(w) \/ Write(w) \/ AfterWrite(w)
    \/ Prune(w) \/ Undo(w) \/ Purge(w) \/ Settle(w)
Sweep == SweepDelete \/ SweepVerify \/ SweepCommit
Scan == ScanRead \/ ScanLook \/ ScanRepair

Next ==
    \/ Correct \/ Forget \/ Switch \/ Sweep \/ Scan
    \/ \E w \in Workers : Claim(w) \/ Deliver(w) \/ Fail(w) \/ Crash(w)
    \/ \E e \in Slots : Arrive(e) \/ Lapse(e) \/ Grace(e)

Spec == Init /\ [][Next]_vars

\* The clock: a write under way arrives, a lease and its grace period end.
Passes(e) == Arrive(e) \/ Grace(e) \/ (Lapse(e) /\ UNCHANGED spent)

\* Workers poll and go on, both passes come round again, a write under way
\* arrives and the clock goes on.
FairSpec ==
    /\ Spec
    /\ \A w \in Workers : WF_vars(Claim(w) \/ Deliver(w))
    /\ WF_vars(\E e \in Slots : Passes(e))
    /\ WF_vars(Sweep) /\ WF_vars(Scan)

-----------------------------------------------------------------------------
\* The shape of the state.
TypeOK ==
    /\ rev \in Revs /\ gone \in BOOLEAN /\ sync \in BOOLEAN /\ stale \in BOOLEAN
    /\ rows \in [Slots -> [op : {"UPSERT", "DELETE"}, rev : 0..MaxRev, tries : 0..MaxAttempts,
                           status : Outstanding \cup {"SUCCEEDED", "CANCELLED"},
                           lease : Leases, seen : (SUBSET Revs) \cup {None}]]
    /\ \A e \in Slots : (rows[e].status = "RUNNING") <=> (rows[e].lease # None)
    /\ idx.desired \in Revs /\ idx.indexed \in 0..MaxRev
    /\ idx.status \in {"PENDING", "DELETE_PENDING", "INDEXED", "INELIGIBLE", "DELETED", "RETRY", "DEAD"}
    /\ purge \in {"none", "PENDING", "SUCCEEDED"}
    /\ points \subseteq Revs /\ late \subseteq Slots

\* What the index state calls indexed is in the index: no late worker, of the
\* same or of an older revision, deletes it.  This holds as long as the
\* comparing pass has not queued a repair by a reading that SQL had left
\* behind: such a repair makes an older revision the one wanted, and workers of
\* the current revision take it back (reconcile.py:322; README section 5).
IndexedIsThere ==
    ~stale /\ idx.status = "INDEXED" => idx.indexed \in points /\ idx.indexed = idx.desired

\* A tombstone is marked purged only when no event is left, the ones given up
\* included, but repairs the comparing pass queued: deletes, when it is fresh.
PurgedIsQuiet ==
    purge = "SUCCEEDED" =>
        \A e \in Slots : rows[e].status \in Outstanding =>
            rows[e].seen # None /\ (stale \/ rows[e].op = "DELETE")

\* When the deletion pass declares an object clean, it ends no delivery that is
\* RUNNING with a write under way: the lease and the grace period after it are
\* over, by which a write has ended.  A delivery that failed (RETRY, DEAD) has no
\* lease to wait for, and its write may arrive later (outbox.py:261,
\* reconcile.py:129): ForgottenIsGone below.
WriteUnderWay(e) == e \in late \/ \E w \in Workers : worker[w].e = e /\ worker[w].at = "sent"

SweepCancelsQuiet ==
    sweep = "commit" /\ sweep' # sweep /\ rows' # rows =>
        \A e \in Slots : rows[e].status = "RUNNING" => ~WriteUnderWay(e)

SweepWaits == [][SweepCancelsQuiet]_vars

\* In the end the index holds exactly what SQL allows.
Converges == <>[](points = IF gone THEN {} ELSE {rev})

\* A deletion that was promised is reported done, switched off or not.
PurgeEnds == purge = "PENDING" ~> purge = "SUCCEEDED"

\* Nothing of a forgotten memory stays in the index, switched off or not.
\* Known gap, README section 5.
ForgottenIsGone == <>[](gone => points = {})
=============================================================================
