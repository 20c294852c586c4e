------------------------------ MODULE MCMemory ------------------------------
(***************************************************************************)
(* Extraction jobs and the search index in one instance for TLC.  `scene'  *)
(* says which of them a behaviour is about and with how much of it:        *)
(*   turns     two turns, two workers, everything the person may do; one   *)
(*             bounded event, or a lost lease and a failed call            *)
(*   settling  one bounded event, and none of the operations that settle a *)
(*             job and leave the cursor alone                              *)
(*   delivery  one memory corrected and forgotten, two workers of the      *)
(*             index; the comparing pass is switched off                   *)
(*   scan      one worker, a call of which may fail, and the comparing pass *)
(*   repairs   one memory corrected, two workers and the comparing pass    *)
(*   purge     one worker; the whole synchronisation may be switched off   *)
(***************************************************************************)
EXTENDS MemoryJobs

CONSTANTS w1, w2, MaxRev, MaxRows, MaxSwitches
VARIABLES scene, rev, gone, rows, idx, purge, points, late, courier, sweep, scan, stale, sync, outages

X == INSTANCE MemoryIndex WITH worker <- courier, spent <- outages

\* The names of leases without a worker are neither workers nor no lease, and
\* None is no set of revisions.
ASSUME IndexAssumption ==
    /\ \A seen \in SUBSET (1 .. MaxRev) : seen # None
    /\ Workers \cap {"lapsed", "graced"} = {} /\ None \notin {"lapsed", "graced"}
    /\ MaxRev \in Nat \ {0} /\ MaxRows \in Nat \ {0}

index == <<rev, gone, rows, idx, purge, points, late, courier, sweep, scan, stale, sync, outages>>
all == <<scene, vars, index>>

MCInit ==
    /\ Init /\ X!Init
    /\ scene \in {"turns", "settling", "delivery", "scan", "repairs", "purge"}

\* Workers are interchangeable while both are idle.
Ordered == worker[w1] = Idle /\ worker[w2] = Idle => worker'[w2] = Idle
OrderedCouriers == courier[w1] = X!Idle /\ courier[w2] = X!Idle => courier'[w2] = X!Idle

Total(s) == s.edit + s.error + s.stop + s.pause + s.replay

\* What the person, the operator and the workers do but for the three operations
\* that settle a job and leave the cursor where it is: a deletion, a dismissal and
\* a turn found in the inbox while saving is off (jobs.py:550, 596, 997).
Settling ==
    \/ Record \/ (~paused /\ RecoverInbox) \/ Edit \/ Pause \/ Resume
    \/ \E n \in Ordinals : Recover(n) \/ Expire(n) \/ Forget(n) \/ Replay(n)
    \/ \E w \in Workers : Claim(w) \/ Work(w) \/ Raise(w) \/ Crash(w)

InTurns    == /\ scene = "turns"
              /\ Total(spent') <= 1 \/ Total(spent') = spent'.stop + spent'.error
InSettling == scene = "settling" /\ Total(spent') <= 1
InDelivery == /\ scene = "delivery" /\ sync' /\ scan' = X!NoScan
              /\ outages'.error + outages'.stop <= 1 /\ (gone' => purge' # "none")
InScan     == /\ scene = "scan" /\ sync' /\ courier'[w2] = X!Idle /\ rev' <= 2
              /\ outages'.stop = 0 /\ rows'[MaxRows] = X!NoRow /\ purge' = "none"
InRepairs  == /\ scene = "repairs" /\ sync' /\ rev' <= 2 /\ ~gone'
              /\ outages' = outages /\ rows'[MaxRows] = X!NoRow
InPurge    == scene = "purge" /\ courier'[w2] = X!Idle /\ scan' = X!NoScan /\ rev' <= 2

InJobs(A)  == /\ scene \in {"turns", "settling"}
              /\ A /\ Ordered /\ (InTurns \/ InSettling)
              /\ UNCHANGED <<index, scene>>
InIndex(A) == /\ scene \in {"delivery", "scan", "repairs", "purge"}
              /\ A /\ OrderedCouriers /\ (InDelivery \/ InScan \/ InRepairs \/ InPurge)
              /\ UNCHANGED <<vars, scene>>

MCNext ==
    \/ InJobs(scene = "turns" /\ Next) \/ InJobs(scene = "settling" /\ Settling)
    \/ InIndex(X!Next)

\* The fairness of MemoryJobs and of MemoryIndex.  Steps of two modules are
\* never enabled together, so a pair of them shares a formula.
MCFairness ==
    /\ \A w \in Workers : WF_all(InJobs(Work(w)) \/ InIndex(X!Claim(w) \/ X!Deliver(w)))
    /\ WF_all(InJobs(\E w \in Workers : Claim(w)) \/ InIndex(X!Sweep))
    /\ WF_all(InJobs(\E n \in Ordinals : Recover(n)) \/ InIndex(X!Scan))
    /\ WF_all(\/ InJobs(\E n \in Ordinals : Expire(n) /\ UNCHANGED spent)
              \/ InIndex(\E e \in X!Slots : X!Passes(e)))

MCSpec == MCInit /\ [][MCNext]_all /\ MCFairness

\* The cursor stands before the first turn that is not settled.
CursorSound == TypeOK /\ NoHolePassed

\* What the index state claims is true.  Indexed is there, unless the comparing
\* pass repaired by an outdated reading; purged is quiet but for repairs.
IndexSound == X!TypeOK /\ X!IndexedIsThere /\ X!PurgedIsQuiet

\* Who comes late changes nothing: a finished turn stays finished, what is
\* stored fits the conversation as it is now, and the sweep ends no running
\* delivery whose write is under way.
LateIsHarmless == DoneStaysDone /\ StoredIsCurrent /\ [][X!SweepCancelsQuiet]_all

\* Turns are settled and the cursor reaches them; the index ends with exactly
\* what SQL allows; a promised deletion is reported done.
SettlesInTheEnd ==
    /\ scene = "settling" => AllSettle
    /\ scene \in {"scan", "repairs"} => X!Converges
    /\ scene = "purge" => X!PurgeEnds
=============================================================================
