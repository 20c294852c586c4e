------------------------- MODULE AgentDriverProofs -------------------------
(* Proofs about AgentDriver, for every value of its constants. *)
EXTENDS AgentDriver, FiniteSetTheorems, TLAPS

\* What the types leave open: a claimed row has a generation, a stop request
\* under way has a target, an object in use has an owner and is not newer than
\* its row.
Wellformed ==
  /\ \A s \in Sessions : driver[s].phase # "idle" => driver[s].generation \in Generations
  /\ \A p \in Stoppers : stop[p].at \notin {"ready", "done"} =>
       stop[p].worker \in Workers /\ stop[p].session \in Sessions /\ stop[p].generation \in Generations
  /\ \A s \in Sessions, g \in Generations : lease[s][g].at # "none" =>
       lease[s][g].owner \in Workers /\ g <= driver[s].generation

-----------------------------------------------------------------------------
(* The records the actions write are well typed. *)

\* Rows, objects and requests of the initial state.
LEMMA Records ==
  /\ \A g \in 0 .. MaxGeneration : IdleRow(g) \in Row
  /\ NoLease \in RunLease
  /\ NoStop \in Stop
  /\ NotCleared \in [generation : 0 .. MaxGeneration, left : 0 .. LeaseSeconds]
  BY LeaseAssumption, BoundAssumption
     DEF IdleRow, Row, Phases, NoLease, RunLease, Places, Settleable, Working,
         NoStop, Stop, NotCleared

\* Updates of a row.
LEMMA RowUpdates ==
  ASSUME NEW r \in Row
  PROVE  /\ \A n \in 0 .. LeaseSeconds : [r EXCEPT !.left = n] \in Row
         /\ \A m \in Messages : [r EXCEPT !.trigger = m] \in Row
         /\ [r EXCEPT !.abort = TRUE] \in Row
         /\ \A ph \in Phases, n \in 0 .. LeaseSeconds : [r EXCEPT !.phase = ph, !.left = n] \in Row
  BY DEF Row

\* Updates of a RunLease object.
LEMMA LeaseUpdates ==
  ASSUME NEW l \in RunLease
  PROVE  /\ Lost(l) \in RunLease
         /\ \A c \in {"stop", "other"} : Signalled(l, c) \in RunLease
         /\ \A a \in Places : Settling(l, a) \in RunLease
         /\ \A a \in Places : [l EXCEPT !.at = a] \in RunLease
         /\ \A n \in 0 .. LeaseSeconds : [l EXCEPT !.receipt = n] \in RunLease
  <1>1. Lost(l) \in RunLease
    <2>1. 0 \in 0 .. LeaseSeconds
      BY LeaseAssumption
    <2> QED BY <2>1, Zenon DEF RunLease, Lost
  <1>2. \A c \in {"stop", "other"} : Signalled(l, c) \in RunLease
    <2> SUFFICES ASSUME NEW c \in {"stop", "other"} PROVE Signalled(l, c) \in RunLease
      OBVIOUS
    <2>1. [l EXCEPT !.signal = c] \in RunLease
      BY DEF RunLease
    <2> QED BY <2>1 DEF Signalled
  <1>3. \A a \in Places : Settling(l, a) \in RunLease
    <2>1. 0 \in 0 .. LeaseSeconds
      BY LeaseAssumption
    <2> QED BY <2>1, Zenon DEF RunLease, Settling
  <1>4. /\ \A a \in Places : [l EXCEPT !.at = a] \in RunLease
        /\ \A n \in 0 .. LeaseSeconds : [l EXCEPT !.receipt = n] \in RunLease
    BY DEF RunLease
  <1> QED BY <1>1, <1>2, <1>3, <1>4

\* Updates of a stop request.
LEMMA StopUpdates ==
  ASSUME NEW q \in Stop
  PROVE  /\ \A a \in {"nudge", "waiting", "ended", "done"} : [q EXCEPT !.at = a] \in Stop
         /\ \A g \in 0 .. MaxGeneration : [q EXCEPT !.generation = g] \in Stop
  BY DEF Stop

-----------------------------------------------------------------------------
(* What the single-row statements write. *)

LEMMA SetRowEffect ==
  ASSUME TypeOK, NEW s \in Sessions, NEW r \in Row, SetRow(s, r)
  PROVE  /\ driver' \in [Sessions -> Row]
         /\ driver'[s] = r
         /\ \A t \in Sessions \ {s} : driver'[t] = driver[t]
  BY DEF TypeOK, SetRow

LEMMA SetLeaseEffect ==
  ASSUME TypeOK, NEW s \in Sessions, NEW g \in Generations, NEW l \in RunLease, SetLease(s, g, l)
  PROVE  /\ lease' \in [Sessions -> [Generations -> RunLease]]
         /\ lease'[s][g] = l
         /\ \A t \in Sessions, h \in Generations :
              (t # s \/ h # g) => lease'[t][h] = lease[t][h]
  BY DEF TypeOK, SetLease

LEMMA SetStopEffect ==
  ASSUME TypeOK, NEW p \in Stoppers, NEW q \in Stop, SetStop(p, q)
  PROVE  /\ stop' \in [Stoppers -> Stop]
         /\ stop'[p] = q
         /\ \A o \in Stoppers \ {p} : stop'[o] = stop[o]
  BY DEF TypeOK, SetStop

\* A claim: the row it writes, the object it publishes, and the object of the
\* same process it nudges.
LEMMA ClaimEffect ==
  ASSUME TypeOK, NEW w \in Workers, NEW s \in Sessions,
         NEW phase \in {"reserved", "finalizing"}, NEW m \in Messages \cup {NoMessage},
         NEW settles \in BOOLEAN, Claim(w, s, phase, m, settles)
  PROVE  LET g == driver[s].generation + 1
         IN /\ g \in Generations
            /\ driver' \in [Sessions -> Row]
            /\ driver'[s] = [generation |-> g, phase |-> phase, owner |-> w, trigger |-> m,
                             left |-> LeaseSeconds, abort |-> FALSE]
            /\ \A t \in Sessions \ {s} : driver'[t] = driver[t]
            /\ exempt' = [exempt EXCEPT ![s] = settles]
            /\ exempt' \in [Sessions -> BOOLEAN]
            /\ ran' = [ran EXCEPT ![s] = FALSE]
            /\ ran' \in [Sessions -> BOOLEAN]
            /\ lease' \in [Sessions -> [Generations -> RunLease]]
            /\ lease'[s][g] = [at |-> IF settles THEN "settlement" ELSE phase, owner |-> w,
                               signal |-> "clear", receipt |-> LeaseSeconds]
            /\ \A t \in Sessions, h \in Generations :
                 (t # s \/ h # g) => \/ lease'[t][h] = lease[t][h]
                                     \/ lease'[t][h] = Signalled(lease[t][h], "other")
            /\ activity' \in [Workers -> [Sessions -> 0 .. MaxGeneration]]
  <1> DEFINE g == driver[s].generation + 1
             row == [generation |-> g, phase |-> phase, owner |-> w, trigger |-> m,
                     left |-> LeaseSeconds, abort |-> FALSE]
             fresh == [at |-> IF settles THEN "settlement" ELSE phase, owner |-> w,
                       signal |-> "clear", receipt |-> LeaseSeconds]
  <1>1. g \in Generations
    BY DEF Claim
  <1>2. row \in Row
    BY <1>1, LeaseAssumption, BoundAssumption DEF Row, Phases, Generations
  <1>3. SetRow(s, row)
    BY DEF Claim
  <1>4. fresh \in RunLease
    BY LeaseAssumption DEF RunLease, Places, Settleable, Working
  <1>5. \A h \in Generations : Signalled(lease[s][h], "other") \in RunLease
    BY LeaseUpdates DEF TypeOK
  <1>6. lease' = [lease EXCEPT ![s] =
                   [h \in Generations |->
                      IF h = g THEN fresh
                      ELSE IF h = activity[w][s] THEN Signalled(lease[s][h], "other")
                      ELSE lease[s][h]]]
    BY DEF Claim, Activate
  <1>7. /\ lease' \in [Sessions -> [Generations -> RunLease]]
        /\ lease'[s][g] = fresh
        /\ \A t \in Sessions, h \in Generations :
             (t # s \/ h # g) => \/ lease'[t][h] = lease[t][h]
                                 \/ lease'[t][h] = Signalled(lease[t][h], "other")
    <2> HIDE DEF fresh, g
    <2> QED BY <1>1, <1>4, <1>5, <1>6 DEF TypeOK
  <1>8. activity' \in [Workers -> [Sessions -> 0 .. MaxGeneration]]
    <2> HIDE DEF g
    <2>1. activity' = [activity EXCEPT ![w][s] = g]
      BY DEF Claim, Activate, g
    <2> QED BY <1>1, <2>1, BoundAssumption DEF TypeOK, Generations
  <1>9. /\ exempt' = [exempt EXCEPT ![s] = settles] /\ exempt' \in [Sessions -> BOOLEAN]
        /\ ran' = [ran EXCEPT ![s] = FALSE] /\ ran' \in [Sessions -> BOOLEAN]
    BY DEF Claim, TypeOK
  <1>10. /\ driver' \in [Sessions -> Row] /\ driver'[s] = row
         /\ \A t \in Sessions \ {s} : driver'[t] = driver[t]
    BY <1>2, <1>3, SetRowEffect
  <1> QED BY <1>1, <1>7, <1>8, <1>9, <1>10

-----------------------------------------------------------------------------
(* Type correctness. *)

\* One step keeps the types.
LEMMA TypeStep == TypeOK /\ Wellformed /\ [Next]_vars => TypeOK'
<1> SUFFICES ASSUME TypeOK, Wellformed, [Next]_vars PROVE TypeOK'
  OBVIOUS
<1> USE LeaseAssumption, BoundAssumption
<1>a. /\ \A s \in Sessions : driver[s] \in Row
      /\ \A s \in Sessions, g \in Generations : lease[s][g] \in RunLease
      /\ \A p \in Stoppers : stop[p] \in Stop
  BY DEF TypeOK
<1>c. ASSUME NEW w \in Workers, NEW s \in Sessions, NEW phase \in {"reserved", "finalizing"},
             NEW m \in Messages \cup {NoMessage}, NEW settles \in BOOLEAN,
             Claim(w, s, phase, m, settles)
      PROVE  /\ driver' \in [Sessions -> Row]
             /\ exempt' \in [Sessions -> BOOLEAN]
             /\ ran' \in [Sessions -> BOOLEAN]
             /\ lease' \in [Sessions -> [Generations -> RunLease]]
             /\ activity' \in [Workers -> [Sessions -> 0 .. MaxGeneration]]
  BY <1>c, ClaimEffect
<1>b. LeaseSeconds \in 0 .. LeaseSeconds /\ 0 \in 0 .. LeaseSeconds
  OBVIOUS
<1>1. ASSUME NEW w \in Workers, NEW s \in Sessions, NEW phase \in {"reserved", "finalizing"},
             NEW m \in Messages \cup {NoMessage}, ReserveRun(w, s, phase, m)
      PROVE  TypeOK'
  <2>1. Claim(w, s, phase, m, FALSE) /\ UNCHANGED <<markers, stop, crashes, hist>>
    BY <1>1 DEF ReserveRun
  <2>2. /\ driver' \in [Sessions -> Row]
        /\ exempt' \in [Sessions -> BOOLEAN]
        /\ ran' \in [Sessions -> BOOLEAN]
        /\ lease' \in [Sessions -> [Generations -> RunLease]]
        /\ activity' \in [Workers -> [Sessions -> 0 .. MaxGeneration]]
    BY <2>1, <1>c
  <2> QED BY <2>1, <2>2 DEF TypeOK, hist
<1>2. ASSUME NEW s \in Sessions, NEW g \in Generations, LeaseStep(s, g)
      PROVE  TypeOK'
  <2>a. ASSUME BecomesLost(s, g)
        PROVE  lease' \in [Sessions -> [Generations -> RunLease]] /\ driver' = driver
    BY <2>a, <1>a, LeaseUpdates, SetLeaseEffect DEF BecomesLost
  <2>b. ASSUME Extend(s, g)
        PROVE  /\ lease' \in [Sessions -> [Generations -> RunLease]]
               /\ driver' \in [Sessions -> Row]
    BY <2>b, <1>a, <1>b, LeaseUpdates, RowUpdates, SetLeaseEffect, SetRowEffect DEF Extend
  <2>c. ASSUME NEW a \in Places, SetLease(s, g, [lease[s][g] EXCEPT !.at = a])
        PROVE  lease' \in [Sessions -> [Generations -> RunLease]]
    BY <2>c, <1>a, LeaseUpdates, SetLeaseEffect
  <2>1. CASE MonitorRenew(s, g)
    BY <2>1, <2>a, <2>b DEF MonitorRenew, TypeOK, hist
  <2>2. CASE MonitorFails(s, g)
    BY <2>2, <2>a DEF MonitorFails, TypeOK, hist
  <2>3. ASSUME NEW hold \in BOOLEAN, ObserveAbort(s, g, hold)
        PROVE  TypeOK'
    <3>1. lease' \in [Sessions -> [Generations -> RunLease]] /\ driver' = driver
      BY <2>3, <2>a, <1>a, LeaseUpdates, SetLeaseEffect DEF ObserveAbort
    <3> QED BY <2>3, <3>1 DEF ObserveAbort, TypeOK, hist
  <2>4. CASE AssertCurrent(s, g)
    <3>1. Cleared(s, g) => /\ cleared' \in [Sessions -> [generation : 0 .. MaxGeneration, left : 0 .. LeaseSeconds]]
                           /\ ran' \in [Sessions -> BOOLEAN]
      BY DEF Cleared, TypeOK, Generations
    <3>2. /\ lease' \in [Sessions -> [Generations -> RunLease]]
          /\ driver' \in [Sessions -> Row]
          /\ cleared' \in [Sessions -> [generation : 0 .. MaxGeneration, left : 0 .. LeaseSeconds]]
          /\ ran' \in [Sessions -> BOOLEAN]
      BY <2>4, <2>a, <2>b, <3>1 DEF AssertCurrent, TypeOK
    <3> QED BY <2>4, <3>2 DEF AssertCurrent, TypeOK
  <2>5. CASE SetPhase(s, g)
    <3>1. NextPhase(lease[s][g].at) \in Phases /\ NextPhase(lease[s][g].at) \in Places
      BY DEF NextPhase, Phases, Places, Settleable, Working
    <3>2. lease' \in [Sessions -> [Generations -> RunLease]] /\ driver' \in [Sessions -> Row]
      BY <2>5, <2>a, <1>a, <1>b, <3>1, LeaseUpdates, RowUpdates, SetLeaseEffect, SetRowEffect
         DEF SetPhase, TypeOK
    <3> QED BY <2>5, <3>2 DEF SetPhase, TypeOK, hist
  <2>6. ASSUME NEW m \in Messages, BindTrigger(s, g, m)
        PROVE  TypeOK'
    <3>1. driver' \in [Sessions -> Row]
      BY <2>6, <1>a, RowUpdates, SetRowEffect DEF BindTrigger
    <3> QED BY <2>6, <3>1 DEF BindTrigger, TypeOK, local, hist
  <2>7. CASE ReleaseBegin(s, g)
    <3>1. lease' \in [Sessions -> [Generations -> RunLease]]
      BY <2>7, <1>a, LeaseUpdates, SetLeaseEffect DEF ReleaseBegin, Places
    <3> QED BY <2>7, <3>1 DEF ReleaseBegin, TypeOK, rows, hist
  <2>8. CASE ReleaseCommit(s, g)
    <3>1. lease' \in [Sessions -> [Generations -> RunLease]]
      BY <2>8, <2>c DEF ReleaseCommit, Places
    <3>2. driver' \in [Sessions -> Row]
      BY <2>8, <1>a, Records, SetRowEffect DEF ReleaseCommit, Generations
    <3> QED BY <2>8, <3>1, <3>2 DEF ReleaseCommit, TypeOK, hist
  <2>9. CASE ReleaseFails(s, g)
    <3>1. lease' \in [Sessions -> [Generations -> RunLease]]
      BY <2>9, <2>c DEF ReleaseFails, Places, Settleable
    <3> QED BY <2>9, <3>1 DEF ReleaseFails, TypeOK, rows, hist
  <2>10. CASE PreserveBegin(s, g)
    <3>1. lease' \in [Sessions -> [Generations -> RunLease]]
      BY <2>10, <1>a, LeaseUpdates, SetLeaseEffect DEF PreserveBegin, Places
    <3> QED BY <2>10, <3>1 DEF PreserveBegin, TypeOK, rows, hist
  <2>11. ASSUME NEW committed \in BOOLEAN, PreserveEnd(s, g, committed)
         PROVE  TypeOK'
    <3>1. lease' \in [Sessions -> [Generations -> RunLease]]
      BY <2>11, <2>c DEF PreserveEnd, Places
    <3>2. driver' \in [Sessions -> Row]
      BY <2>11, <1>a, <1>b, RowUpdates, SetRowEffect DEF PreserveEnd
    <3> QED BY <2>11, <3>1, <3>2 DEF PreserveEnd, TypeOK, hist
  <2>12. CASE Close(s, g)
    <3>1. lease' \in [Sessions -> [Generations -> RunLease]]
      BY <2>12, Records, SetLeaseEffect DEF Close
    <3>2. activity' \in [Workers -> [Sessions -> 0 .. MaxGeneration]]
      BY <2>12 DEF Close, TypeOK, Wellformed
    <3> QED BY <2>12, <3>1, <3>2 DEF Close, TypeOK, rows, hist
  <2> QED BY <1>2, <2>1, <2>2, <2>3, <2>4, <2>5, <2>6, <2>7, <2>8, <2>9, <2>10, <2>11, <2>12
          DEF LeaseStep
<1>3. ASSUME NEW w \in Workers, RecoveryStep(w)
      PROVE  TypeOK'
  <2>1. CASE Snapshot(w)
    <3>1. \A s \in Sessions : Expired(s) =>
            [session |-> s, generation |-> driver[s].generation,
             phase |-> driver[s].phase, trigger |-> driver[s].trigger] \in RecoveredDriver
      BY <1>a DEF Expired, Row, RecoveredDriver, Wellformed
    <3> QED BY <2>1, <3>1 DEF Snapshot, TypeOK, rows, local, hist
  <2>2. ASSUME NEW r \in markers[w], NEW phase \in {"reserved", "finalizing"}, TakeOver(w, r, phase)
        PROVE  TypeOK'
    <3>1. r.session \in Sessions /\ r.trigger \in Messages \cup {NoMessage}
      BY DEF TypeOK, RecoveredDriver
    <3>2. Claim(w, r.session, phase, r.trigger, FALSE) /\ UNCHANGED <<stop, crashes, hist>>
      BY <2>2 DEF TakeOver
    <3>3. markers' \in [Workers -> SUBSET RecoveredDriver]
      BY <2>2 DEF TakeOver, TypeOK
    <3>4. /\ driver' \in [Sessions -> Row]
          /\ exempt' \in [Sessions -> BOOLEAN]
          /\ ran' \in [Sessions -> BOOLEAN]
          /\ lease' \in [Sessions -> [Generations -> RunLease]]
          /\ activity' \in [Workers -> [Sessions -> 0 .. MaxGeneration]]
      BY <3>1, <3>2, <1>c
    <3> QED BY <3>2, <3>3, <3>4 DEF TypeOK, hist
  <2>3. ASSUME NEW r \in markers[w], SkipRecord(w, r)
        PROVE  TypeOK'
    BY <2>3 DEF SkipRecord, TypeOK, rows, local, hist
  <2> QED BY <1>3, <2>1, <2>2, <2>3 DEF RecoveryStep
<1>4. ASSUME NEW w \in Workers, Crash(w)
      PROVE  TypeOK'
  <2>1. lease' \in [Sessions -> [Generations -> RunLease]]
    BY <1>4, <1>a, Records DEF Crash
  <2>2. stop' \in [Stoppers -> Stop]
    BY <1>4, <1>a, StopUpdates DEF Crash
  <2> QED BY <1>4, <2>1, <2>2 DEF Crash, TypeOK, rows, hist
<1>5. ASSUME NEW p \in Stoppers, StopStep(p)
      PROVE  TypeOK'
  <2>a. ASSUME NEW a \in {"nudge", "waiting", "ended", "done"}, SetStop(p, [stop[p] EXCEPT !.at = a])
        PROVE  stop' \in [Stoppers -> Stop]
    BY <2>a, <1>a, StopUpdates, SetStopEffect
  <2>b. /\ stop[p].session \in Sessions \cup {NoSession}
        /\ stop[p].generation \in 0 .. MaxGeneration
    BY <1>a DEF Stop
  <2>1. ASSUME NEW w \in Workers, NEW s \in Sessions, StopSnapshot(p, w, s)
        PROVE  TypeOK'
    <3>1. [at |-> "snapshot", worker |-> w, session |-> s,
           generation |-> driver[s].generation] \in Stop
      BY <1>a DEF Stop, Row
    <3>2. stop' \in [Stoppers -> Stop]
      BY <2>1, <3>1, SetStopEffect DEF StopSnapshot
    <3> QED BY <2>1, <3>2 DEF StopSnapshot, TypeOK, rows, local, hist
  <2>2. CASE RequestAbort(p)
    <3>1. stop' \in [Stoppers -> Stop]
      BY <2>2, <2>a DEF RequestAbort
    <3>2. stop[p].session \in Sessions /\ stop[p].generation \in Generations
      BY <2>2 DEF RequestAbort, Wellformed
    <3>3. driver' \in [Sessions -> Row]
      BY <2>2, <3>2, <1>a, RowUpdates, SetRowEffect DEF RequestAbort
    <3>4. asked' \in [Sessions -> SUBSET Generations]
      BY <2>2, <3>2 DEF RequestAbort, TypeOK
    <3> QED BY <2>2, <3>1, <3>3, <3>4 DEF RequestAbort, TypeOK, local
  <2>3. CASE StopMisses(p)
    <3>1. stop[p].session \in Sessions
      BY <2>3 DEF StopMisses, Wellformed
    <3>2. driver[stop[p].session].generation \in 0 .. MaxGeneration
      BY <3>1, <1>a DEF Row
    <3>3. stop' \in [Stoppers -> Stop]
      BY <2>3, <3>2, <1>a, StopUpdates, SetStopEffect DEF StopMisses
    <3> QED BY <2>3, <3>3 DEF StopMisses, TypeOK, rows, local, hist
  <2>4. CASE Nudge(p)
    <3>1. stop' \in [Stoppers -> Stop]
      BY <2>4, <2>a DEF Nudge
    <3>2. lease' \in [Sessions -> [Generations -> RunLease]]
      <4>1. stop[p].session \in Sessions
        BY <2>4 DEF Nudge, Wellformed
      <4>2. \A h \in Generations : Signalled(lease[stop[p].session][h], "stop") \in RunLease
        BY <4>1, <1>a, LeaseUpdates
      <4> QED BY <2>4, <1>a, <4>1, <4>2 DEF Nudge, TypeOK
    <3> QED BY <2>4, <3>1, <3>2 DEF Nudge, TypeOK, rows, hist
  <2>5. CASE GenerationEnded(p)
    BY <2>5, <2>a DEF GenerationEnded, TypeOK, rows, local, hist
  <2>6. CASE StopTimesOut(p)
    BY <2>6, <2>a DEF StopTimesOut, TypeOK, rows, local, hist
  <2>7. CASE SettleStale(p)
    BY <2>7, <2>a DEF SettleStale, TypeOK, rows, local, hist
  <2>8. CASE SettleAborted(p)
    <3>1. stop' \in [Stoppers -> Stop]
      BY <2>8, <2>a DEF SettleAborted
    <3>2. /\ stop[p].session \in Sessions /\ stop[p].worker \in Workers
          /\ Claim(stop[p].worker, stop[p].session, "finalizing", NoMessage, TRUE)
          /\ UNCHANGED <<markers, crashes, hist>>
      BY <2>8 DEF SettleAborted, Wellformed
    <3>3. /\ driver' \in [Sessions -> Row]
          /\ exempt' \in [Sessions -> BOOLEAN]
          /\ ran' \in [Sessions -> BOOLEAN]
          /\ lease' \in [Sessions -> [Generations -> RunLease]]
          /\ activity' \in [Workers -> [Sessions -> 0 .. MaxGeneration]]
      BY <3>2, <1>c
    <3> QED BY <3>1, <3>2, <3>3 DEF TypeOK, hist
  <2> QED BY <1>5, <2>1, <2>2, <2>3, <2>4, <2>5, <2>6, <2>7, <2>8 DEF StopStep
<1>6. CASE Tick
  <2>1. driver' \in [Sessions -> Row]
    <3>1. \A s \in Sessions : Less(driver[s].left) \in 0 .. LeaseSeconds
      BY <1>a DEF Less, Row
    <3>2. \A s \in Sessions : [driver[s] EXCEPT !.left = Less(@)] \in Row
      BY <1>a, <3>1, RowUpdates
    <3> QED BY <1>6, <3>2 DEF Tick
  <2>2. lease' \in [Sessions -> [Generations -> RunLease]]
    <3>1. \A s \in Sessions, g \in Generations : Less(lease[s][g].receipt) \in 0 .. LeaseSeconds
      BY <1>a DEF Less, RunLease
    <3>2. \A s \in Sessions, g \in Generations : [lease[s][g] EXCEPT !.receipt = Less(@)] \in RunLease
      BY <1>a, <3>1, LeaseUpdates
    <3> QED BY <1>6, <3>2 DEF Tick
  <2>3. cleared' \in [Sessions -> [generation : 0 .. MaxGeneration, left : 0 .. LeaseSeconds]]
    <3>1. \A s \in Sessions :
            [cleared[s] EXCEPT !.left = Less(@)] \in [generation : 0 .. MaxGeneration, left : 0 .. LeaseSeconds]
      <4> SUFFICES ASSUME NEW s \in Sessions
                   PROVE [cleared[s] EXCEPT !.left = Less(@)] \in [generation : 0 .. MaxGeneration, left : 0 .. LeaseSeconds]
        OBVIOUS
      <4>1. cleared[s] \in [generation : 0 .. MaxGeneration, left : 0 .. LeaseSeconds]
        BY DEF TypeOK
      <4>2. Less(cleared[s].left) \in 0 .. LeaseSeconds
        BY <4>1 DEF Less
      <4> QED BY <4>1, <4>2
    <3> QED BY <1>6, <3>1, Records DEF Tick
  <2> QED BY <1>6, <2>1, <2>2, <2>3 DEF Tick, TypeOK
<1>7. CASE UNCHANGED vars
  BY <1>7 DEF vars, TypeOK
<1> QED BY <1>1, <1>2, <1>3, <1>4, <1>5, <1>6, <1>7 DEF Next

-----------------------------------------------------------------------------
(* The shapes of a lease step, as its row and its object see it. *)

\* The row stays; the object keeps its place or leaves the working places.
Quiet(s, g) ==
  /\ driver'[s] = driver[s]
  /\ \/ lease'[s][g].at = lease[s][g].at /\ lease'[s][g].receipt \in {0, lease[s][g].receipt}
     \/ /\ lease[s][g].at \notin Working /\ lease'[s][g].at \notin Working
        /\ lease'[s][g].receipt = lease[s][g].receipt
     \/ lease'[s][g].at \notin Working /\ lease'[s][g].receipt = 0
  /\ \/ lease'[s][g].signal # "stop"
     \/ lease[s][g].signal = "stop"
     \/ OwnedLive(s, g) /\ driver[s].abort

\* renew: both deadlines move to a full lease.
Renewed(s, g) ==
  /\ Monitored(s, g) /\ OwnedLive(s, g)
  /\ driver'[s] = [driver[s] EXCEPT !.left = LeaseSeconds]
  /\ lease'[s][g] = [lease[s][g] EXCEPT !.receipt = LeaseSeconds]

\* set_phase: row and object move together.
Advanced(s, g) ==
  /\ lease[s][g].at \in {"reserved", "running"} /\ OwnedLive(s, g)
  /\ driver'[s] = [driver[s] EXCEPT !.phase = NextPhase(lease[s][g].at), !.left = LeaseSeconds]
  /\ lease'[s][g] = [lease[s][g] EXCEPT !.at = NextPhase(@)]

\* bind_trigger_message_locked.
Bound(s, g) ==
  /\ FenceHolds(s, g)
  /\ \E m \in Messages : driver'[s] = [driver[s] EXCEPT !.trigger = m]
  /\ lease'[s][g] = lease[s][g]

\* release of a live row.
Ended(s, g) ==
  /\ lease[s][g].at = "releasing" /\ OwnedLive(s, g)
  /\ driver'[s] = IdleRow(g)
  /\ lease'[s][g] = [lease[s][g] EXCEPT !.at = "closing"]

\* preserve_for_recovery of an owned row.
Yielded(s, g) ==
  /\ lease[s][g].at = "preserving" /\ Owned(s, g)
  /\ driver'[s] = [driver[s] EXCEPT !.left = 0]
  /\ lease'[s][g] = [lease[s][g] EXCEPT !.at = "closing"]

\* assert_current lets a dispatch pass.
Passed(s, g) ==
  /\ Monitored(s, g) /\ OwnedLive(s, g)
  /\ Cleared(s, g)
  /\ driver'[s].left > 2 * HeartbeatSeconds

\* Every lease step touches its own row and object only, keeps the generation
\* and the owner, and has one of the shapes above.
LEMMA LeaseShape ==
  ASSUME TypeOK, Wellformed, NEW s \in Sessions, NEW g \in Generations, LeaseStep(s, g)
  PROVE  /\ \A t \in Sessions \ {s} : driver'[t] = driver[t]
         /\ \A t \in Sessions, h \in Generations : (t # s \/ h # g) => lease'[t][h] = lease[t][h]
         /\ UNCHANGED <<exempt, markers, stop, crashes, asked>>
         /\ driver'[s].generation = driver[s].generation
         /\ lease'[s][g].at # "none" => /\ lease[s][g].at # "none"
                                        /\ lease'[s][g].owner = lease[s][g].owner
         /\ \/ Quiet(s, g) \/ Renewed(s, g) \/ Advanced(s, g)
            \/ Bound(s, g) \/ Ended(s, g) \/ Yielded(s, g)
         /\ UNCHANGED <<cleared, ran>> \/ Passed(s, g)
<1> USE LeaseAssumption, BoundAssumption
<1>a. driver[s] \in Row /\ lease[s][g] \in RunLease
  BY DEF TypeOK
<1>b. LeaseSeconds \in 0 .. LeaseSeconds /\ 0 \in 0 .. LeaseSeconds
  OBVIOUS
<1> DEFINE Frame == /\ \A t \in Sessions \ {s} : driver'[t] = driver[t]
                    /\ \A t \in Sessions, h \in Generations : (t # s \/ h # g) => lease'[t][h] = lease[t][h]
<1>c. ASSUME NEW l \in RunLease, SetLease(s, g, l), UNCHANGED driver
      PROVE  Frame /\ lease'[s][g] = l /\ driver'[s] = driver[s]
  BY <1>c, SetLeaseEffect
<1>d. ASSUME NEW l \in RunLease, SetLease(s, g, l), NEW r \in Row, SetRow(s, r)
      PROVE  Frame /\ lease'[s][g] = l /\ driver'[s] = r
  BY <1>d, SetLeaseEffect, SetRowEffect
<1>e. /\ Lost(lease[s][g]) \in RunLease
      /\ Lost(lease[s][g]).at = lease[s][g].at
      /\ Lost(lease[s][g]).owner = lease[s][g].owner
      /\ Lost(lease[s][g]).signal = "lost"
      /\ Lost(lease[s][g]).receipt = 0
  BY <1>a, LeaseUpdates DEF Lost, RunLease
<1>f. ASSUME BecomesLost(s, g)
      PROVE  /\ Frame /\ Quiet(s, g) /\ driver'[s] = driver[s]
             /\ lease'[s][g].at = lease[s][g].at /\ lease'[s][g].owner = lease[s][g].owner
  BY <1>f, <1>c, <1>e DEF BecomesLost, Quiet
<1>g. ASSUME Extend(s, g)
      PROVE  /\ Frame
             /\ driver'[s] = [driver[s] EXCEPT !.left = LeaseSeconds]
             /\ lease'[s][g] = [lease[s][g] EXCEPT !.receipt = LeaseSeconds]
             /\ driver'[s].generation = driver[s].generation
             /\ driver'[s].left = LeaseSeconds
             /\ lease'[s][g].at = lease[s][g].at /\ lease'[s][g].owner = lease[s][g].owner
  <2>1. [driver[s] EXCEPT !.left = LeaseSeconds] \in Row
    BY <1>a, <1>b, RowUpdates
  <2>2. [lease[s][g] EXCEPT !.receipt = LeaseSeconds] \in RunLease
    BY <1>a, <1>b, LeaseUpdates
  <2>3. /\ Frame
        /\ driver'[s] = [driver[s] EXCEPT !.left = LeaseSeconds]
        /\ lease'[s][g] = [lease[s][g] EXCEPT !.receipt = LeaseSeconds]
    BY <1>g, <2>1, <2>2, <1>d DEF Extend
  <2> QED BY <2>3, <1>a DEF Row, RunLease
<1>h. ASSUME NEW a \in Places, NEW c \in Places, lease[s][g].at = c, c \notin Working, a \notin Working, a # "none", c # "none",
             SetLease(s, g, [lease[s][g] EXCEPT !.at = a]), UNCHANGED driver
      PROVE  Frame /\ Quiet(s, g) /\ driver'[s] = driver[s]
             /\ lease'[s][g].owner = lease[s][g].owner
  <2>1. [lease[s][g] EXCEPT !.at = a] \in RunLease
    BY <1>a, LeaseUpdates
  <2>2. Frame /\ lease'[s][g] = [lease[s][g] EXCEPT !.at = a] /\ driver'[s] = driver[s]
    BY <1>h, <2>1, <1>c
  <2> QED BY <1>h, <2>2, <1>a DEF Quiet, RunLease
<1>1. CASE MonitorRenew(s, g)
  <2>1. CASE OwnedLive(s, g) /\ Extend(s, g)
    BY <1>1, <2>1, <1>g DEF MonitorRenew, Renewed, hist
  <2>2. CASE BecomesLost(s, g)
    BY <1>1, <2>2, <1>f DEF MonitorRenew, Monitored, Working, hist
  <2> QED BY <1>1, <2>1, <2>2 DEF MonitorRenew
<1>2. CASE MonitorFails(s, g)
  BY <1>2, <1>f DEF MonitorFails, Monitored, Working, hist
<1>3. ASSUME NEW hold \in BOOLEAN, ObserveAbort(s, g, hold)
      PROVE  /\ Frame /\ UNCHANGED <<exempt, markers, stop, crashes, asked, cleared, ran>>
             /\ driver'[s].generation = driver[s].generation
             /\ lease[s][g].at # "none" /\ lease'[s][g].owner = lease[s][g].owner
             /\ Quiet(s, g)
  <2>0. lease[s][g].at # "none"
    BY <1>3 DEF ObserveAbort, Monitored, Working
  <2>1. CASE BecomesLost(s, g)
    BY <1>3, <2>0, <2>1, <1>f DEF ObserveAbort, hist
  <2>2. ASSUME OwnedLive(s, g), UNCHANGED driver,
               SetLease(s, g, Signalled(lease[s][g], IF driver[s].abort THEN "stop" ELSE "other"))
        PROVE  Frame /\ driver'[s] = driver[s] /\ lease'[s][g].owner = lease[s][g].owner /\ Quiet(s, g)
    <3> DEFINE c == IF driver[s].abort THEN "stop" ELSE "other"
    <3>1. Signalled(lease[s][g], c) \in RunLease
      BY <1>a, LeaseUpdates
    <3>2. Frame /\ lease'[s][g] = Signalled(lease[s][g], c) /\ driver'[s] = driver[s]
      BY <2>2, <3>1, <1>c
    <3> QED BY <2>2, <3>2, <1>a DEF Signalled, RunLease, Quiet
  <2> QED BY <1>3, <2>0, <2>1, <2>2 DEF ObserveAbort, hist
<1>4. CASE AssertCurrent(s, g)
  <2>0. lease[s][g].at # "none" /\ Monitored(s, g)
    BY <1>4 DEF AssertCurrent, Monitored, Working
  <2>1. CASE FarFromDeadline(s, g) /\ Cleared(s, g) /\ UNCHANGED <<driver, lease>>
    BY <1>4, <2>0, <2>1 DEF AssertCurrent, FarFromDeadline, Quiet, Passed
  <2>2. CASE OwnedLive(s, g) /\ Extend(s, g) /\ Cleared(s, g)
    BY <1>4, <2>0, <2>2, <1>g DEF AssertCurrent, Renewed, Passed
  <2>3. CASE BecomesLost(s, g) /\ UNCHANGED <<cleared, ran>>
    BY <1>4, <2>0, <2>3, <1>f DEF AssertCurrent
  <2> QED BY <1>4, <2>1, <2>2, <2>3 DEF AssertCurrent
<1>5. CASE SetPhase(s, g)
  <2>0. lease[s][g].at # "none"
    BY <1>5 DEF SetPhase
  <2>1. CASE BecomesLost(s, g)
    BY <1>5, <2>0, <2>1, <1>f DEF SetPhase, hist
  <2>2. ASSUME OwnedLive(s, g),
               SetRow(s, [driver[s] EXCEPT !.phase = NextPhase(lease[s][g].at), !.left = LeaseSeconds]),
               SetLease(s, g, [lease[s][g] EXCEPT !.at = NextPhase(@)])
        PROVE  Frame /\ Advanced(s, g) /\ driver'[s].generation = driver[s].generation
               /\ lease'[s][g].owner = lease[s][g].owner
    <3>1. NextPhase(lease[s][g].at) \in Phases /\ NextPhase(lease[s][g].at) \in Places
      BY DEF NextPhase, Phases, Places, Settleable, Working
    <3>2. /\ Frame
          /\ driver'[s] = [driver[s] EXCEPT !.phase = NextPhase(lease[s][g].at), !.left = LeaseSeconds]
          /\ lease'[s][g] = [lease[s][g] EXCEPT !.at = NextPhase(@)]
      BY <2>2, <3>1, <1>a, <1>b, <1>d, RowUpdates, LeaseUpdates
    <3> QED BY <1>5, <2>2, <3>2, <1>a DEF SetPhase, Advanced, Row, RunLease
  <2> QED BY <1>5, <2>0, <2>1, <2>2 DEF SetPhase, hist
<1>6. ASSUME NEW m \in Messages, BindTrigger(s, g, m)
      PROVE  /\ Frame /\ UNCHANGED <<exempt, markers, stop, crashes, asked, cleared, ran>>
             /\ driver'[s].generation = driver[s].generation
             /\ lease'[s][g] = lease[s][g]
             /\ Bound(s, g)
  <2>1. /\ \A t \in Sessions \ {s} : driver'[t] = driver[t]
        /\ driver'[s] = [driver[s] EXCEPT !.trigger = m]
    BY <1>6, <1>a, RowUpdates, SetRowEffect DEF BindTrigger
  <2>2. lease' = lease /\ UNCHANGED <<exempt, markers, stop, crashes, asked, cleared, ran>>
    BY <1>6 DEF BindTrigger, local, hist
  <2> QED BY <1>6, <2>1, <2>2, <1>a DEF BindTrigger, Bound, Row
<1>7. CASE ReleaseBegin(s, g) \/ PreserveBegin(s, g)
  <2>1. PICK a \in {"releasing", "preserving"} : SetLease(s, g, Settling(lease[s][g], a))
    BY <1>7 DEF ReleaseBegin, PreserveBegin
  <2>2. /\ Settling(lease[s][g], a) \in RunLease
        /\ Settling(lease[s][g], a).at = a
        /\ Settling(lease[s][g], a).owner = lease[s][g].owner
        /\ Settling(lease[s][g], a).signal = "clear"
        /\ Settling(lease[s][g], a).receipt = 0
    <3>1. a \in Places /\ lease[s][g] \in RunLease
      BY <1>a DEF Places
    <3>2. Settling(lease[s][g], a) \in RunLease
      BY <3>1, LeaseUpdates
    <3> QED BY <3>1, <3>2 DEF Settling, RunLease
  <2>3. Frame /\ lease'[s][g] = Settling(lease[s][g], a) /\ driver'[s] = driver[s]
    BY <1>7, <2>1, <2>2, <1>c DEF ReleaseBegin, PreserveBegin, rows
  <2>4. Quiet(s, g)
    BY <2>2, <2>3 DEF Quiet, Working
  <2>5. lease[s][g].at # "none"
    BY <1>7 DEF ReleaseBegin, PreserveBegin, Settleable, Working
  <2> QED BY <1>7, <2>2, <2>3, <2>4, <2>5 DEF ReleaseBegin, PreserveBegin, rows, hist
<1>8. CASE ReleaseCommit(s, g)
  <2>0. "closing" \in Places /\ "closing" \notin Working /\ "releasing" \in Places /\ "releasing" \notin Working
    BY DEF Places, Working
  <2>1. CASE ~OwnedLive(s, g)
    <3>1. driver' = driver
      BY <1>8, <2>1 DEF ReleaseCommit, SetRow, TypeOK
    <3> QED BY <1>8, <2>0, <3>1, <1>h DEF ReleaseCommit, hist
  <2>2. CASE OwnedLive(s, g)
    <3>1. IdleRow(g) \in Row /\ IdleRow(g).generation = g
      BY Records DEF Generations, IdleRow
    <3>2. /\ Frame /\ driver'[s] = IdleRow(g) /\ lease'[s][g] = [lease[s][g] EXCEPT !.at = "closing"]
      BY <1>8, <2>0, <2>2, <3>1, <1>a, <1>d, LeaseUpdates DEF ReleaseCommit
    <3> QED BY <1>8, <2>2, <3>1, <3>2, <1>a DEF ReleaseCommit, Ended, OwnedLive, Owned, RunLease, hist
  <2> QED BY <2>1, <2>2
<1>9. CASE ReleaseFails(s, g)
  <2>0. "unsettled" \in Places /\ "unsettled" \notin Working /\ "releasing" \in Places /\ "releasing" \notin Working
    BY DEF Places, Settleable, Working
  <2> QED BY <1>9, <2>0, <1>h DEF ReleaseFails, rows, hist
<1>10. ASSUME NEW committed \in BOOLEAN, PreserveEnd(s, g, committed)
       PROVE  /\ Frame /\ UNCHANGED <<exempt, markers, stop, crashes, asked, cleared, ran>>
              /\ driver'[s].generation = driver[s].generation
              /\ lease[s][g].at # "none" /\ lease'[s][g].owner = lease[s][g].owner
              /\ Quiet(s, g) \/ Yielded(s, g)
  <2>0. "closing" \in Places /\ "closing" \notin Working /\ "preserving" \in Places /\ "preserving" \notin Working
    BY DEF Places, Working
  <2>1. CASE ~(committed /\ Owned(s, g))
    <3>1. driver' = driver
      BY <1>10, <2>1 DEF PreserveEnd, SetRow, TypeOK
    <3> QED BY <1>10, <2>0, <3>1, <1>h DEF PreserveEnd, hist
  <2>2. CASE committed /\ Owned(s, g)
    <3>1. [driver[s] EXCEPT !.left = 0] \in Row
      BY <1>a, <1>b, RowUpdates
    <3>2. /\ Frame /\ driver'[s] = [driver[s] EXCEPT !.left = 0]
          /\ lease'[s][g] = [lease[s][g] EXCEPT !.at = "closing"]
      BY <1>10, <2>0, <2>2, <3>1, <1>a, <1>d, LeaseUpdates DEF PreserveEnd
    <3> QED BY <1>10, <2>2, <3>1, <3>2, <1>a DEF PreserveEnd, Yielded, Row, RunLease, hist
  <2> QED BY <2>1, <2>2
<1>11. CASE Close(s, g)
  <2>1. Frame /\ lease'[s][g] = NoLease /\ driver'[s] = driver[s]
    BY <1>11, Records, <1>c DEF Close, rows
  <2> QED BY <1>11, <2>1 DEF Close, Quiet, NoLease, Working, rows, hist
<1> QED BY LeaseStep(s, g), <1>1, <1>2, <1>3, <1>4, <1>5, <1>6, <1>7, <1>8, <1>9, <1>10, <1>11 DEF LeaseStep


-----------------------------------------------------------------------------
(* The kinds of step. *)

\* A generation is claimed: by a prompt over an idle row, by recovery over the
\* marker it read, or by the settlement of a stop over the row that stop left.
Admission(w, s, phase, m, settles) ==
  /\ Claim(w, s, phase, m, settles)
  /\ UNCHANGED <<crashes, hist>>
  /\ \/ driver[s].phase = "idle" /\ ~settles /\ QuotaAdmits /\ UNCHANGED stop
     \/ /\ Expired(s) /\ ~settles /\ QuotaAdmits /\ UNCHANGED stop
        /\ m = driver[s].trigger
        /\ phase = "reserved" => driver[s].phase = "reserved"
     \/ /\ settles /\ phase = "finalizing"
        /\ \E p \in Stoppers : /\ stop[p].at = "ended" /\ stop[p].session = s
                              /\ driver[s] = IdleRow(stop[p].generation)
                              /\ SetStop(p, [stop[p] EXCEPT !.at = "done"])

\* A stop request moves on: at most the flag of the live generation it names
\* and the event of the object it names are set.
Stopping ==
  /\ UNCHANGED <<exempt, ran, crashes, cleared>>
  /\ \A t \in Sessions :
       \/ driver'[t] = driver[t]
       \/ /\ Live(t)
          /\ driver'[t] = [driver[t] EXCEPT !.abort = TRUE]
          /\ driver[t].generation \in asked'[t]
  /\ \A t \in Sessions : asked[t] \subseteq asked'[t]
  /\ \A t \in Sessions, h \in Generations :
       \/ lease'[t][h] = lease[t][h]
       \/ /\ lease'[t][h] = Signalled(lease[t][h], "stop")
          /\ \E p \in Stoppers : stop[p].at = "nudge" /\ stop[p].session = t /\ stop[p].generation = h
  /\ \E p \in Stoppers :
       /\ stop'[p] \in Stop
       /\ stop'[p].session \in Sessions /\ stop'[p].worker \in Workers
       /\ stop'[p].generation \in Generations
       /\ \/ stop'[p].at \in {"snapshot", "done"}
          \/ stop'[p].generation \in asked'[stop'[p].session]
          \/ /\ stop[p].at \in {"nudge", "waiting"}
             /\ stop'[p].session = stop[p].session
             /\ stop'[p].generation = stop[p].generation
       /\ \A o \in Stoppers \ {p} : stop'[o] = stop[o]

\* The recovery pass reads or drops records: nothing else changes.
Reading == UNCHANGED <<rows, local, stop, crashes, hist>>

\* Every step is of one of these kinds.
LEMMA Kinds ==
  ASSUME TypeOK, Wellformed, [Next]_vars
  PROVE  \/ \E w \in Workers, s \in Sessions, phase \in {"reserved", "finalizing"},
               m \in Messages \cup {NoMessage}, settles \in BOOLEAN : Admission(w, s, phase, m, settles)
         \/ \E s \in Sessions, g \in Generations : LeaseStep(s, g)
         \/ Stopping
         \/ \E w \in Workers : Crash(w)
         \/ Tick
         \/ Reading
<1> USE BoundAssumption
<1>a. /\ \A s \in Sessions : driver[s] \in Row
      /\ \A s \in Sessions, g \in Generations : lease[s][g] \in RunLease
      /\ \A p \in Stoppers : stop[p] \in Stop
  BY DEF TypeOK
<1>1. ASSUME NEW w \in Workers, NEW s \in Sessions, NEW phase \in {"reserved", "finalizing"},
             NEW m \in Messages \cup {NoMessage}, ReserveRun(w, s, phase, m)
      PROVE  Admission(w, s, phase, m, FALSE)
  BY <1>1 DEF ReserveRun, Admission
<1>2. ASSUME NEW w \in Workers, RecoveryStep(w)
      PROVE  \/ Reading
             \/ \E s \in Sessions, phase \in {"reserved", "finalizing"},
                  m \in Messages \cup {NoMessage} : Admission(w, s, phase, m, FALSE)
  <2>1. CASE Snapshot(w) \/ \E r \in markers[w] : SkipRecord(w, r)
    BY <2>1 DEF Snapshot, SkipRecord, Reading
  <2>2. ASSUME NEW r \in markers[w], NEW phase \in {"reserved", "finalizing"}, TakeOver(w, r, phase)
        PROVE  /\ r.session \in Sessions /\ r.trigger \in Messages \cup {NoMessage}
               /\ Admission(w, r.session, phase, r.trigger, FALSE)
    <3>1. r.session \in Sessions /\ r.trigger \in Messages \cup {NoMessage}
      BY DEF TypeOK, RecoveredDriver
    <3>2. /\ Expired(r.session) /\ r.trigger = driver[r.session].trigger
          /\ phase = "reserved" => driver[r.session].phase = "reserved"
      BY <2>2 DEF TakeOver, ExactMarker, Replayable
    <3>3. /\ Claim(w, r.session, phase, r.trigger, FALSE) /\ QuotaAdmits
          /\ UNCHANGED <<stop, crashes, hist>>
      BY <2>2 DEF TakeOver
    <3> QED BY <3>1, <3>2, <3>3 DEF Admission
  <2> QED BY <1>2, <2>1, <2>2 DEF RecoveryStep
<1>3. ASSUME NEW p \in Stoppers, StopStep(p)
      PROVE  \/ Stopping
             \/ \E w \in Workers, s \in Sessions :
                  Admission(w, s, "finalizing", NoMessage, TRUE)
  <2>a. ASSUME stop[p].at \notin {"ready", "done"}
        PROVE  stop[p].worker \in Workers /\ stop[p].session \in Sessions /\ stop[p].generation \in Generations
    BY <2>a DEF Wellformed
  <2>b. ASSUME NEW a \in {"nudge", "waiting", "ended", "done"}, SetStop(p, [stop[p] EXCEPT !.at = a])
        PROVE  /\ stop'[p] \in Stop /\ stop'[p].at = a /\ stop'[p].session = stop[p].session
               /\ stop'[p].worker = stop[p].worker /\ stop'[p].generation = stop[p].generation
               /\ \A o \in Stoppers \ {p} : stop'[o] = stop[o]
    <3>1. [stop[p] EXCEPT !.at = a] \in Stop
      BY <1>a, StopUpdates
    <3>2. stop'[p] = [stop[p] EXCEPT !.at = a] /\ \A o \in Stoppers \ {p} : stop'[o] = stop[o]
      BY <2>b, <3>1, SetStopEffect
    <3> QED BY <3>1, <3>2, <1>a DEF Stop
  <2>1. ASSUME NEW w \in Workers, NEW s \in Sessions, StopSnapshot(p, w, s)
        PROVE  Stopping
    <3>1. driver[s].generation \in Generations
      BY <2>1 DEF StopSnapshot, Wellformed
    <3> DEFINE q == [at |-> "snapshot", worker |-> w, session |-> s, generation |-> driver[s].generation]
    <3>2. q \in Stop
      BY <3>1 DEF Stop, Generations
    <3>3. stop'[p] = q /\ \A o \in Stoppers \ {p} : stop'[o] = stop[o]
      BY <2>1, <3>2, SetStopEffect DEF StopSnapshot
    <3> QED BY <2>1, <3>1, <3>2, <3>3 DEF StopSnapshot, Stopping, rows, local, hist
  <2>2. CASE RequestAbort(p)
    <3> DEFINE s == stop[p].session
               g == stop[p].generation
    <3>0. s \in Sessions /\ g \in Generations /\ stop[p].worker \in Workers
      BY <2>2, <2>a DEF RequestAbort
    <3>1. /\ driver'[s] = [driver[s] EXCEPT !.abort = TRUE]
          /\ \A t \in Sessions \ {s} : driver'[t] = driver[t]
      BY <2>2, <3>0, <1>a, RowUpdates, SetRowEffect DEF RequestAbort
    <3>2. g \in asked'[s] /\ \A t \in Sessions : asked[t] \subseteq asked'[t]
      BY <2>2, <3>0 DEF RequestAbort, TypeOK
    <3>3. /\ stop'[p] \in Stop /\ stop'[p].session = s /\ stop'[p].generation = g
          /\ stop'[p].worker = stop[p].worker
          /\ \A o \in Stoppers \ {p} : stop'[o] = stop[o]
      BY <2>2, <2>b DEF RequestAbort
    <3>4. Live(s) /\ driver[s].generation = g
      BY <2>2 DEF RequestAbort, FenceHolds
    <3> HIDE DEF s, g
    <3>5. UNCHANGED <<exempt, ran, crashes, cleared, lease>> /\ stop'[p].at = "nudge"
      BY <2>2, <2>b DEF RequestAbort, local
    <3>6. \A t \in Sessions :
            \/ driver'[t] = driver[t]
            \/ /\ Live(t)
               /\ driver'[t] = [driver[t] EXCEPT !.abort = TRUE]
               /\ driver[t].generation \in asked'[t]
      BY <3>1, <3>2, <3>4
    <3> QED BY <3>0, <3>2, <3>3, <3>5, <3>6 DEF Stopping
  <2>3. CASE StopMisses(p)
    <3> DEFINE s == stop[p].session
    <3>0. s \in Sessions /\ stop[p].generation \in Generations /\ stop[p].worker \in Workers
      BY <2>3, <2>a DEF StopMisses
    <3>1. CASE driver[s].phase # "idle" /\ driver[s].generation # stop[p].generation
      <4>1. driver[s].generation \in Generations
        BY <3>0, <3>1 DEF Wellformed
      <4>2. [stop[p] EXCEPT !.generation = driver[s].generation] \in Stop
        <5>1. driver[s].generation \in 0 .. MaxGeneration /\ stop[p] \in Stop
          BY <4>1, <1>a DEF Generations
        <5> QED BY <5>1, StopUpdates
      <4>3. stop'[p] = [stop[p] EXCEPT !.generation = driver[s].generation]
            /\ \A o \in Stoppers \ {p} : stop'[o] = stop[o]
        BY <2>3, <3>1, <4>2, SetStopEffect DEF StopMisses
      <4>4. /\ stop'[p] \in Stop /\ stop'[p].session = s /\ stop'[p].worker = stop[p].worker
            /\ stop'[p].generation = driver[s].generation /\ stop'[p].at = "snapshot"
        BY <2>3, <4>2, <4>3, <1>a DEF StopMisses, Stop
      <4> QED BY <2>3, <3>0, <4>1, <4>3, <4>4 DEF StopMisses, Stopping, rows, local, hist
    <3>2. CASE ~(driver[s].phase # "idle" /\ driver[s].generation # stop[p].generation)
      <4>1. SetStop(p, [stop[p] EXCEPT !.at = "done"])
        BY <2>3, <3>2 DEF StopMisses
      <4> QED BY <2>3, <3>0, <4>1, <2>b DEF StopMisses, Stopping, rows, local, hist
    <3> QED BY <3>1, <3>2
  <2>4. CASE Nudge(p)
    <3> DEFINE s == stop[p].session
               g == stop[p].generation
    <3>0. s \in Sessions /\ g \in Generations /\ stop[p].worker \in Workers
      BY <2>4, <2>a DEF Nudge
    <3>1. \A t \in Sessions, h \in Generations :
            \/ lease'[t][h] = lease[t][h]
            \/ lease'[t][h] = Signalled(lease[t][h], "stop") /\ t = s /\ h = g
      BY <2>4, <3>0 DEF Nudge, TypeOK
    <3>2. /\ stop'[p] \in Stop /\ stop'[p].session = s /\ stop'[p].generation = g
          /\ stop'[p].worker = stop[p].worker
          /\ \A o \in Stoppers \ {p} : stop'[o] = stop[o]
      BY <2>4, <2>b DEF Nudge
    <3> HIDE DEF s, g
    <3>3. s = stop[p].session /\ g = stop[p].generation /\ stop[p].at = "nudge"
      BY <2>4 DEF Nudge, s, g
    <3> QED BY <2>4, <3>0, <3>1, <3>2, <3>3 DEF Nudge, Stopping, rows, hist
  <2>5. CASE GenerationEnded(p)
    BY <2>5, <2>a, <2>b DEF GenerationEnded, Stopping, rows, local, hist
  <2>6. CASE StopTimesOut(p)
    BY <2>6, <2>a, <2>b DEF StopTimesOut, Stopping, rows, local, hist
  <2>7. CASE SettleStale(p)
    BY <2>7, <2>a, <2>b DEF SettleStale, Stopping, rows, local, hist
  <2>8. CASE SettleAborted(p)
    <3>1. stop[p].worker \in Workers /\ stop[p].session \in Sessions
      BY <2>8, <2>a DEF SettleAborted
    <3>2. Admission(stop[p].worker, stop[p].session, "finalizing", NoMessage, TRUE)
      BY <2>8 DEF SettleAborted, Admission
    <3> QED BY <3>1, <3>2
  <2> QED BY <1>3, <2>1, <2>2, <2>3, <2>4, <2>5, <2>6, <2>7, <2>8 DEF StopStep
<1>4. CASE UNCHANGED vars
  BY <1>4 DEF vars, Reading, rows, local, hist
<1> DEFINE Goal == \/ \E w \in Workers, s \in Sessions, phase \in {"reserved", "finalizing"},
                        m \in Messages \cup {NoMessage}, settles \in BOOLEAN : Admission(w, s, phase, m, settles)
                   \/ \E s \in Sessions, g \in Generations : LeaseStep(s, g)
                   \/ Stopping
                   \/ \E w \in Workers : Crash(w)
                   \/ Tick
                   \/ Reading
<1>5. ASSUME NEW w \in Workers, NEW s \in Sessions,
             \/ \E m \in Messages \cup {NoMessage} : ReserveRun(w, s, "reserved", m)
             \/ ReserveRun(w, s, "finalizing", NoMessage)
      PROVE  Goal
  <2>1. PICK phase \in {"reserved", "finalizing"}, m \in Messages \cup {NoMessage} : ReserveRun(w, s, phase, m)
    BY <1>5
  <2>2. Admission(w, s, phase, m, FALSE)
    BY <2>1, <1>1
  <2> QED BY <2>2, Zenon
<1>6. ASSUME NEW w \in Workers, RecoveryStep(w)
      PROVE  Goal
  <2>1. CASE Reading
    BY <2>1
  <2>2. ASSUME NEW s \in Sessions, NEW phase \in {"reserved", "finalizing"},
               NEW m \in Messages \cup {NoMessage}, Admission(w, s, phase, m, FALSE)
        PROVE  Goal
    BY <2>2, Zenon
  <2> HIDE DEF Goal
  <2> QED BY <1>2, <1>6, <2>1, <2>2
<1>7. ASSUME NEW p \in Stoppers, StopStep(p)
      PROVE  Goal
  <2>1. CASE Stopping
    BY <2>1
  <2>2. ASSUME NEW w \in Workers, NEW s \in Sessions, Admission(w, s, "finalizing", NoMessage, TRUE)
        PROVE  Goal
    BY <2>2, Zenon
  <2> HIDE DEF Goal
  <2> QED BY <1>3, <1>7, <2>1, <2>2
<1>8. CASE \/ \E s \in Sessions, g \in Generations : LeaseStep(s, g)
           \/ \E w \in Workers : Crash(w)
           \/ Tick
  BY <1>8
<1> HIDE DEF Goal
<1>9. Goal
  BY <1>4, <1>5, <1>6, <1>7, <1>8 DEF Next, Goal
<1> QED BY <1>9 DEF Goal

-----------------------------------------------------------------------------
(* The same kinds, field by field. *)

\* What an admission leaves, with g the generation it claims.
Admitted(w, s, phase, m, settles, g) ==
  /\ g \in Generations
  /\ driver'[s].generation = g /\ driver'[s].phase = phase /\ driver'[s].trigger = m
  /\ driver'[s].left = LeaseSeconds /\ driver'[s].abort = FALSE
  /\ \A t \in Sessions \ {s} : /\ driver'[t] = driver[t] /\ exempt'[t] = exempt[t]
                              /\ ran'[t] = ran[t]
  /\ exempt'[s] = settles /\ ran'[s] = FALSE
  /\ lease'[s][g].at = (IF settles THEN "settlement" ELSE phase)
  /\ lease'[s][g].owner = w /\ lease'[s][g].signal = "clear"
  /\ lease'[s][g].receipt = LeaseSeconds
  /\ \A t \in Sessions, h \in Generations : (t # s \/ h # g) =>
       /\ lease'[t][h].at = lease[t][h].at
       /\ lease'[t][h].owner = lease[t][h].owner
       /\ lease'[t][h].receipt = lease[t][h].receipt
       /\ lease'[t][h].signal = "stop" => lease[t][h].signal = "stop"
  /\ driver[s].phase = "idle" \/ Expired(s)
  /\ UNCHANGED <<crashes, cleared, asked>>

LEMMA AdmissionFields ==
  ASSUME TypeOK, NEW w \in Workers, NEW s \in Sessions,
         NEW phase \in {"reserved", "finalizing"}, NEW m \in Messages \cup {NoMessage},
         NEW settles \in BOOLEAN, Admission(w, s, phase, m, settles)
  PROVE  Admitted(w, s, phase, m, settles, driver[s].generation + 1)
<1> SUFFICES ASSUME NEW g, g = driver[s].generation + 1
             PROVE  Admitted(w, s, phase, m, settles, g)
  OBVIOUS
<1>1. Claim(w, s, phase, m, settles) /\ UNCHANGED <<crashes, cleared, asked>>
  BY DEF Admission, hist
<1>2. driver[s].phase = "idle" \/ Expired(s)
  <2>1. \A n : IdleRow(n).phase = "idle"
    BY DEF IdleRow
  <2>2. \/ driver[s].phase = "idle" \/ Expired(s)
        \/ \E n : driver[s] = IdleRow(n)
    BY DEF Admission
  <2> QED BY <2>1, <2>2
<1>3. /\ g \in Generations
      /\ driver'[s] = [generation |-> g, phase |-> phase, owner |-> w, trigger |-> m,
                       left |-> LeaseSeconds, abort |-> FALSE]
      /\ \A t \in Sessions \ {s} : driver'[t] = driver[t]
      /\ exempt' = [exempt EXCEPT ![s] = settles]
      /\ ran' = [ran EXCEPT ![s] = FALSE]
      /\ lease'[s][g] = [at |-> IF settles THEN "settlement" ELSE phase, owner |-> w,
                         signal |-> "clear", receipt |-> LeaseSeconds]
      /\ \A u \in Sessions, h \in Generations :
           (u # s \/ h # g) => \/ lease'[u][h] = lease[u][h]
                               \/ lease'[u][h] = Signalled(lease[u][h], "other")
  BY <1>1, ClaimEffect
<1>5. \A u \in Sessions, h \in Generations : lease[u][h] \in RunLease
  BY DEF TypeOK
<1>6. \A u \in Sessions, h \in Generations : (u # s \/ h # g) =>
        /\ lease'[u][h].at = lease[u][h].at
        /\ lease'[u][h].owner = lease[u][h].owner
        /\ lease'[u][h].receipt = lease[u][h].receipt
        /\ lease'[u][h].signal = "stop" => lease[u][h].signal = "stop"
  <2> SUFFICES ASSUME NEW u \in Sessions, NEW h \in Generations, u # s \/ h # g
               PROVE  /\ lease'[u][h].at = lease[u][h].at
                      /\ lease'[u][h].owner = lease[u][h].owner
                      /\ lease'[u][h].receipt = lease[u][h].receipt
                      /\ lease'[u][h].signal = "stop" => lease[u][h].signal = "stop"
    OBVIOUS
  <2>1. lease'[u][h] = lease[u][h] \/ lease'[u][h] = Signalled(lease[u][h], "other")
    BY <1>3
  <2>2. lease[u][h] \in RunLease
    BY <1>5
  <2>3. /\ Signalled(lease[u][h], "other").at = lease[u][h].at
        /\ Signalled(lease[u][h], "other").owner = lease[u][h].owner
        /\ Signalled(lease[u][h], "other").receipt = lease[u][h].receipt
        /\ Signalled(lease[u][h], "other").signal = "stop" => lease[u][h].signal = "stop"
    BY <2>2 DEF Signalled, RunLease
  <2> QED BY <2>1, <2>3
<1>7. /\ \A t \in Sessions \ {s} : exempt'[t] = exempt[t] /\ ran'[t] = ran[t]
      /\ exempt'[s] = settles /\ ran'[s] = FALSE
  BY <1>3 DEF TypeOK
<1> QED BY <1>1, <1>2, <1>3, <1>6, <1>7 DEF Admitted

LEMMA StoppingFields ==
  ASSUME TypeOK, Stopping
  PROVE  /\ \A t \in Sessions : /\ driver'[t].generation = driver[t].generation
                                /\ driver'[t].phase = driver[t].phase
                                /\ driver'[t].left = driver[t].left
                                /\ driver'[t].abort => driver[t].abort \/ driver[t].generation \in asked'[t]
                                /\ driver'[t] = driver[t] \/ Live(t)
         /\ \A t \in Sessions, h \in Generations :
              /\ lease'[t][h].at = lease[t][h].at
              /\ lease'[t][h].owner = lease[t][h].owner
              /\ lease'[t][h].receipt = lease[t][h].receipt
              /\ lease'[t][h].signal = "stop" =>
                   \/ lease[t][h].signal = "stop"
                   \/ \E p \in Stoppers : /\ stop[p].at = "nudge" /\ stop[p].session = t
                                          /\ stop[p].generation = h
<1>1. \A t \in Sessions : driver[t] \in Row
  BY DEF TypeOK
<1>2. \A t \in Sessions, h \in Generations : lease[t][h] \in RunLease
  BY DEF TypeOK
<1>3. \A r \in Row : /\ [r EXCEPT !.abort = TRUE].generation = r.generation
                     /\ [r EXCEPT !.abort = TRUE].phase = r.phase
                     /\ [r EXCEPT !.abort = TRUE].left = r.left
  BY DEF Row
<1>4. \A l \in RunLease : /\ Signalled(l, "stop").at = l.at
                         /\ Signalled(l, "stop").owner = l.owner
                         /\ Signalled(l, "stop").receipt = l.receipt
  BY DEF Signalled, RunLease
<1>5. \A t \in Sessions : /\ driver'[t].generation = driver[t].generation
                          /\ driver'[t].phase = driver[t].phase
                          /\ driver'[t].left = driver[t].left
                          /\ driver'[t].abort => driver[t].abort \/ driver[t].generation \in asked'[t]
                          /\ driver'[t] = driver[t] \/ Live(t)
  <2> SUFFICES ASSUME NEW t \in Sessions
               PROVE  /\ driver'[t].generation = driver[t].generation
                      /\ driver'[t].phase = driver[t].phase
                      /\ driver'[t].left = driver[t].left
                      /\ driver'[t].abort => driver[t].abort \/ driver[t].generation \in asked'[t]
                      /\ driver'[t] = driver[t] \/ Live(t)
    OBVIOUS
  <2>1. \/ driver'[t] = driver[t]
        \/ /\ Live(t) /\ driver'[t] = [driver[t] EXCEPT !.abort = TRUE]
           /\ driver[t].generation \in asked'[t]
    BY DEF Stopping
  <2>2. driver[t] \in Row
    BY <1>1
  <2>3. /\ [driver[t] EXCEPT !.abort = TRUE].generation = driver[t].generation
        /\ [driver[t] EXCEPT !.abort = TRUE].phase = driver[t].phase
        /\ [driver[t] EXCEPT !.abort = TRUE].left = driver[t].left
    BY <1>3, <2>2
  <2>4. CASE driver'[t] = driver[t]
    BY <2>4
  <2>5. CASE driver'[t] # driver[t]
    BY <2>1, <2>3, <2>5
  <2> QED BY <2>4, <2>5
<1>6. \A t \in Sessions, h \in Generations :
        \/ lease'[t][h] = lease[t][h]
        \/ /\ lease'[t][h] = Signalled(lease[t][h], "stop")
           /\ \E p \in Stoppers : stop[p].at = "nudge" /\ stop[p].session = t /\ stop[p].generation = h
  BY DEF Stopping
<1>7. \A t \in Sessions, h \in Generations :
        /\ lease'[t][h].at = lease[t][h].at
        /\ lease'[t][h].owner = lease[t][h].owner
        /\ lease'[t][h].receipt = lease[t][h].receipt
        /\ lease'[t][h].signal = "stop" =>
             \/ lease[t][h].signal = "stop"
             \/ \E p \in Stoppers : /\ stop[p].at = "nudge" /\ stop[p].session = t
                                    /\ stop[p].generation = h
  BY <1>2, <1>4, <1>6
<1> QED BY <1>5, <1>7

LEMMA TickFields ==
  ASSUME TypeOK, Tick
  PROVE  /\ \A t \in Sessions : /\ driver'[t].generation = driver[t].generation
                                /\ driver'[t].phase = driver[t].phase
                                /\ driver'[t].abort = driver[t].abort
                                /\ driver'[t].left = Less(driver[t].left)
                                /\ driver[t].left = 0 => driver'[t] = driver[t]
         /\ \A t \in Sessions, h \in Generations :
              /\ lease'[t][h].at = lease[t][h].at
              /\ lease'[t][h].owner = lease[t][h].owner
              /\ lease'[t][h].signal = lease[t][h].signal
              /\ lease'[t][h].receipt = Less(lease[t][h].receipt)
         /\ \A t \in Sessions : cleared'[t].left > 0 =>
              /\ cleared'[t].generation = cleared[t].generation
              /\ cleared[t].left > 1 /\ cleared'[t].left = cleared[t].left - 1
         /\ \A t \in Sessions : cleared'[t].generation \in {0, cleared[t].generation}
         /\ UNCHANGED <<exempt, ran, activity, markers, stop, crashes, asked>>
<1>1. \A t \in Sessions : driver[t] \in Row
  BY DEF TypeOK
<1>2. \A t \in Sessions, h \in Generations : lease[t][h] \in RunLease
  BY DEF TypeOK
<1>3. \A t \in Sessions : cleared[t] \in [generation : 0 .. MaxGeneration, left : 0 .. LeaseSeconds]
  BY DEF TypeOK
<1>4. \A t \in Sessions : /\ driver'[t].generation = driver[t].generation
                          /\ driver'[t].phase = driver[t].phase
                          /\ driver'[t].abort = driver[t].abort
                          /\ driver'[t].left = Less(driver[t].left)
                          /\ driver[t].left = 0 => driver'[t] = driver[t]
  <2> SUFFICES ASSUME NEW t \in Sessions
               PROVE  /\ driver'[t].generation = driver[t].generation
                      /\ driver'[t].phase = driver[t].phase
                      /\ driver'[t].abort = driver[t].abort
                      /\ driver'[t].left = Less(driver[t].left)
                      /\ driver[t].left = 0 => driver'[t] = driver[t]
    OBVIOUS
  <2>1. driver'[t] = [driver[t] EXCEPT !.left = Less(driver[t].left)]
    BY DEF Tick
  <2>2. ASSUME driver[t].left = 0 PROVE driver'[t] = driver[t]
    BY <2>1, <2>2, <1>1 DEF Less, Row
  <2> QED BY <2>1, <2>2, <1>1 DEF Row
<1>5. \A t \in Sessions, h \in Generations :
        /\ lease'[t][h].at = lease[t][h].at
        /\ lease'[t][h].owner = lease[t][h].owner
        /\ lease'[t][h].signal = lease[t][h].signal
        /\ lease'[t][h].receipt = Less(lease[t][h].receipt)
  <2> SUFFICES ASSUME NEW t \in Sessions, NEW h \in Generations
               PROVE  /\ lease'[t][h].at = lease[t][h].at
                      /\ lease'[t][h].owner = lease[t][h].owner
                      /\ lease'[t][h].signal = lease[t][h].signal
                      /\ lease'[t][h].receipt = Less(lease[t][h].receipt)
    OBVIOUS
  <2>1. lease'[t][h] = [lease[t][h] EXCEPT !.receipt = Less(lease[t][h].receipt)]
    BY DEF Tick
  <2> QED BY <2>1, <1>2 DEF RunLease
<1>6. \A t \in Sessions :
        /\ cleared'[t].generation \in {0, cleared[t].generation}
        /\ cleared'[t].left > 0 => /\ cleared'[t].generation = cleared[t].generation
                                   /\ cleared[t].left > 1 /\ cleared'[t].left = cleared[t].left - 1
  <2> SUFFICES ASSUME NEW t \in Sessions
               PROVE /\ cleared'[t].generation \in {0, cleared[t].generation}
                     /\ cleared'[t].left > 0 =>
                          /\ cleared'[t].generation = cleared[t].generation
                          /\ cleared[t].left > 1 /\ cleared'[t].left = cleared[t].left - 1
    OBVIOUS
  <2>1. cleared'[t] = IF cleared[t].left <= 1 THEN NotCleared
                      ELSE [cleared[t] EXCEPT !.left = Less(cleared[t].left)]
    BY DEF Tick
  <2>2. CASE cleared[t].left <= 1
    BY <2>1, <2>2 DEF NotCleared
  <2>3. CASE ~(cleared[t].left <= 1)
    BY <2>1, <2>3, <1>3, LeaseAssumption DEF Less
  <2> QED BY <2>2, <2>3
<1>7. UNCHANGED <<exempt, ran, activity, markers, stop, crashes, asked>>
  BY DEF Tick
<1> QED BY <1>4, <1>5, <1>6, <1>7

\* A crash takes the objects of its process and leaves the rest alone.
LEMMA CrashFields ==
  ASSUME TypeOK, NEW w \in Workers, Crash(w)
  PROVE  /\ UNCHANGED <<driver, exempt, ran, cleared, asked>>
         /\ \A t \in Sessions, h \in Generations :
              \/ lease'[t][h] = lease[t][h]
              \/ /\ lease'[t][h].at = "none" /\ lease'[t][h].receipt = 0
                 /\ lease'[t][h].signal = "clear"
         /\ \A p \in Stoppers : stop'[p] = stop[p] \/ stop'[p].at = "done"
<1>1. \A p \in Stoppers : stop[p] \in Stop
  BY DEF TypeOK
<1>2. \A q \in Stop : [q EXCEPT !.at = "done"].at = "done"
  BY DEF Stop
<1>3. \A p \in Stoppers : stop'[p] = stop[p] \/ stop'[p].at = "done"
  BY <1>1, <1>2 DEF Crash
<1> QED BY <1>3 DEF Crash, NoLease, rows, hist

-----------------------------------------------------------------------------
(* Well-formedness and type correctness. *)

\* One step keeps requests, rows and objects well formed.
LEMMA WellformedStep == TypeOK /\ Wellformed /\ [Next]_vars => Wellformed'
<1> SUFFICES ASSUME TypeOK, Wellformed, [Next]_vars PROVE Wellformed'
  OBVIOUS
<1> USE BoundAssumption
<1>a. /\ \A s \in Sessions : driver[s].generation \in 0 .. MaxGeneration
      /\ \A p \in Stoppers : stop[p] \in Stop
  BY DEF TypeOK, Row
<1>1. ASSUME NEW w \in Workers, NEW s \in Sessions, NEW phase \in {"reserved", "finalizing"},
             NEW m \in Messages \cup {NoMessage}, NEW settles \in BOOLEAN,
             Admission(w, s, phase, m, settles)
      PROVE  Wellformed'
  <2>0. PICK g : g = driver[s].generation + 1
    OBVIOUS
  <2>1. /\ g \in Generations /\ driver'[s].generation = g
        /\ \A t \in Sessions \ {s} : driver'[t] = driver[t]
        /\ lease'[s][g].owner = w
        /\ \A t \in Sessions, h \in Generations : (t # s \/ h # g) =>
              lease'[t][h].at = lease[t][h].at /\ lease'[t][h].owner = lease[t][h].owner
    <3>1. Admitted(w, s, phase, m, settles, g)
      BY <1>1, <2>0, AdmissionFields
    <3> QED BY <3>1 DEF Admitted
  <2>2. \A p \in Stoppers : stop'[p] = stop[p] \/ stop'[p].at = "done"
    <3>1. CASE UNCHANGED stop
      BY <3>1
    <3>2. ASSUME NEW p \in Stoppers, SetStop(p, [stop[p] EXCEPT !.at = "done"])
          PROVE  \A o \in Stoppers : stop'[o] = stop[o] \/ stop'[o].at = "done"
      <4>1. [stop[p] EXCEPT !.at = "done"] \in Stop /\ [stop[p] EXCEPT !.at = "done"].at = "done"
        BY <1>a, StopUpdates DEF Stop
      <4>2. /\ stop'[p] = [stop[p] EXCEPT !.at = "done"]
            /\ \A o \in Stoppers \ {p} : stop'[o] = stop[o]
        BY <3>2, <4>1, SetStopEffect
      <4> QED BY <4>1, <4>2
    <3> QED BY <1>1, <3>1, <3>2 DEF Admission
  <2>3. \A t \in Sessions : driver'[t].phase # "idle" => driver'[t].generation \in Generations
    BY <2>1 DEF Wellformed
  <2>4. \A t \in Sessions, h \in Generations : lease'[t][h].at # "none" =>
          lease'[t][h].owner \in Workers /\ h <= driver'[t].generation
    <3> SUFFICES ASSUME NEW t \in Sessions, NEW h \in Generations, lease'[t][h].at # "none"
                 PROVE  lease'[t][h].owner \in Workers /\ h <= driver'[t].generation
      OBVIOUS
    <3>1. CASE t = s /\ h = g
      BY <2>0, <2>1, <3>1, <1>a DEF Generations
    <3>2. CASE t # s
      BY <2>1, <3>2 DEF Wellformed
    <3>3. CASE t = s /\ h # g
      BY <2>0, <2>1, <3>3, <1>a DEF Wellformed, Generations
    <3> QED BY <3>1, <3>2, <3>3
  <2> QED BY <2>2, <2>3, <2>4 DEF Wellformed
<1>2. ASSUME NEW s \in Sessions, NEW g \in Generations, LeaseStep(s, g)
      PROVE  Wellformed'
  <2>1. /\ \A t \in Sessions \ {s} : driver'[t] = driver[t]
        /\ \A t \in Sessions, h \in Generations : (t # s \/ h # g) => lease'[t][h] = lease[t][h]
        /\ stop' = stop
        /\ driver'[s].generation = driver[s].generation
        /\ lease'[s][g].at # "none" => /\ lease[s][g].at # "none"
                                       /\ lease'[s][g].owner = lease[s][g].owner
    BY <1>2, LeaseShape
  <2>2. driver'[s].phase # "idle" => driver'[s].generation \in Generations
    <3>1. \/ Quiet(s, g) \/ Renewed(s, g) \/ Advanced(s, g)
          \/ Bound(s, g) \/ Ended(s, g) \/ Yielded(s, g)
      BY <1>2, LeaseShape
    <3>2. CASE Quiet(s, g)
      BY <2>1, <3>2 DEF Quiet, Wellformed
    <3>3. CASE Renewed(s, g) \/ Advanced(s, g) \/ Bound(s, g) \/ Yielded(s, g) \/ Ended(s, g)
      BY <2>1, <3>3 DEF Renewed, Advanced, Bound, Yielded, Ended, OwnedLive, Owned, FenceHolds
    <3> QED BY <3>1, <3>2, <3>3
  <2>3. \A t \in Sessions, h \in Generations : lease'[t][h].at # "none" =>
          lease'[t][h].owner \in Workers /\ h <= driver'[t].generation
    BY <2>1 DEF Wellformed
  <2> QED BY <2>1, <2>2, <2>3 DEF Wellformed
<1>3. CASE Stopping
  <2>1. /\ \A t \in Sessions : /\ driver'[t].generation = driver[t].generation
                               /\ driver'[t].phase = driver[t].phase
        /\ \A t \in Sessions, h \in Generations : /\ lease'[t][h].at = lease[t][h].at
                                                  /\ lease'[t][h].owner = lease[t][h].owner
    BY <1>3, StoppingFields
  <2>2. \A p \in Stoppers : stop'[p].at \notin {"ready", "done"} =>
          stop'[p].worker \in Workers /\ stop'[p].session \in Sessions /\ stop'[p].generation \in Generations
    BY <1>3 DEF Stopping, Wellformed
  <2> QED BY <2>1, <2>2 DEF Wellformed
<1>4. ASSUME NEW w \in Workers, Crash(w)
      PROVE  Wellformed'
  BY <1>4, CrashFields DEF Wellformed
<1>5. CASE Tick
  BY <1>5, TickFields DEF Wellformed
<1>6. CASE Reading
  BY <1>6 DEF Reading, Wellformed, rows, local
<1> QED BY <1>1, <1>2, <1>3, <1>4, <1>5, <1>6, Kinds

\* The initial state.
LEMMA InitTypes == Init => TypeOK /\ Wellformed
<1> SUFFICES ASSUME Init PROVE TypeOK /\ Wellformed
  OBVIOUS
<1>1. TypeOK
  BY Records, BoundAssumption DEF Init, TypeOK
<1>2. Wellformed
  BY DEF Init, Wellformed, IdleRow, NoStop, NoLease
<1> QED BY <1>1, <1>2

\* The rows, the RunLease objects and the requests keep their types in every
\* reachable state, and what the code dereferences without a check is there:
\* every claimed row has a positive generation, a stop under way a target, an
\* open object an owner.
THEOREM TypeCorrect == Spec => [](TypeOK /\ Wellformed)
<1>1. TypeOK /\ Wellformed /\ [Next]_vars => (TypeOK /\ Wellformed)'
  BY TypeStep, WellformedStep
<1> QED BY <1>1, InitTypes, PTL DEF Spec

-----------------------------------------------------------------------------
(* The inductive invariant. *)

\* Only an object that may still issue receipts holds one.
Silent ==
  \A s \in Sessions, g \in Generations : lease[s][g].at \notin Working => lease[s][g].receipt = 0

\* While an object works on the current claimed row, the row is in its phase.
PhaseAgrees ==
  \A s \in Sessions, g \in Generations :
    lease[s][g].at \in Working /\ driver[s].generation = g /\ driver[s].phase # "idle" =>
      driver[s].phase = IF lease[s][g].at = "settlement" THEN "finalizing" ELSE lease[s][g].at

\* No dispatch was cleared for a generation that is still to come.
ClearedKnown == \A s \in Sessions : cleared[s].generation <= driver[s].generation

\* A generation that passed a dispatch is not waiting to be replayed.
RanPhase == \A s \in Sessions : ran[s] => driver[s].phase # "reserved"

\* A stop past its compare-and-set has named its generation.
StopAsked ==
  \A p \in Stoppers : stop[p].at \in {"nudge", "waiting", "ended"} =>
    stop[p].generation \in asked[stop[p].session]

LeaseInv == Silent /\ PhaseAgrees /\ ReceiptWithinLease /\ ClearedKnown /\ DispatchWindow /\ RanPhase

StopInv == StopAsked /\ StopHitsItsRun

Inv == TypeOK /\ Wellformed /\ LeaseInv /\ StopInv

\* The shapes of a lease step, field by field.
LeaseFields(s, g) ==
  \/ Quiet(s, g)
  \/ /\ Monitored(s, g) /\ OwnedLive(s, g)
     /\ driver'[s].phase = driver[s].phase /\ driver'[s].left = LeaseSeconds
     /\ driver'[s].abort = driver[s].abort
     /\ lease'[s][g].at = lease[s][g].at /\ lease'[s][g].receipt = LeaseSeconds
     /\ lease'[s][g].signal = lease[s][g].signal
  \/ /\ lease[s][g].at \in {"reserved", "running"} /\ OwnedLive(s, g)
     /\ driver'[s].phase = NextPhase(lease[s][g].at) /\ driver'[s].left = LeaseSeconds
     /\ driver'[s].abort = driver[s].abort
     /\ lease'[s][g].at = NextPhase(lease[s][g].at)
     /\ lease'[s][g].receipt = lease[s][g].receipt /\ lease'[s][g].signal = lease[s][g].signal
  \/ /\ FenceHolds(s, g)
     /\ driver'[s].phase = driver[s].phase /\ driver'[s].left = driver[s].left
     /\ driver'[s].abort = driver[s].abort
     /\ lease'[s][g] = lease[s][g]
  \/ /\ lease[s][g].at \in {"releasing", "preserving"} /\ Owned(s, g)
     /\ driver'[s].phase \in {"idle", driver[s].phase} /\ driver'[s].left = 0
     /\ driver'[s].abort => driver[s].abort
     /\ lease'[s][g].at = "closing"
     /\ lease'[s][g].receipt = lease[s][g].receipt /\ lease'[s][g].signal = lease[s][g].signal
     /\ OwnedLive(s, g) \/ driver'[s] = driver[s]

LEMMA LeaseFieldsHold ==
  ASSUME TypeOK, Wellformed, NEW s \in Sessions, NEW g \in Generations, LeaseStep(s, g)
  PROVE  LeaseFields(s, g)
<1>a. driver[s] \in Row /\ lease[s][g] \in RunLease
  BY DEF TypeOK
<1>b. \/ Quiet(s, g) \/ Renewed(s, g) \/ Advanced(s, g)
      \/ Bound(s, g) \/ Ended(s, g) \/ Yielded(s, g)
  BY LeaseShape
<1>c. \A a : /\ [lease[s][g] EXCEPT !.at = a].at = a
            /\ [lease[s][g] EXCEPT !.at = a].receipt = lease[s][g].receipt
            /\ [lease[s][g] EXCEPT !.at = a].signal = lease[s][g].signal
  BY <1>a DEF RunLease
<1>1. CASE Quiet(s, g)
  BY <1>1 DEF LeaseFields
<1>2. CASE Renewed(s, g)
  BY <1>2, <1>a DEF Renewed, LeaseFields, Row, RunLease
<1>3. CASE Advanced(s, g)
  <2>1. /\ driver'[s].phase = NextPhase(lease[s][g].at) /\ driver'[s].left = LeaseSeconds
        /\ driver'[s].abort = driver[s].abort
    BY <1>3, <1>a DEF Advanced, Row
  <2>2. /\ lease'[s][g].at = NextPhase(lease[s][g].at)
        /\ lease'[s][g].receipt = lease[s][g].receipt /\ lease'[s][g].signal = lease[s][g].signal
    BY <1>3, <1>c DEF Advanced
  <2> QED BY <1>3, <2>1, <2>2 DEF Advanced, LeaseFields
<1>4. CASE Bound(s, g)
  <2>1. PICK m \in Messages : driver'[s] = [driver[s] EXCEPT !.trigger = m]
    BY <1>4 DEF Bound
  <2>2. /\ driver'[s].phase = driver[s].phase /\ driver'[s].left = driver[s].left
        /\ driver'[s].abort = driver[s].abort
    BY <2>1, <1>a DEF Row
  <2> QED BY <1>4, <2>2 DEF Bound, LeaseFields
<1>5. CASE Ended(s, g)
  <2>1. driver'[s].phase = "idle" /\ driver'[s].left = 0 /\ driver'[s].abort = FALSE
    BY <1>5 DEF Ended, IdleRow
  <2>2. /\ lease'[s][g].at = "closing"
        /\ lease'[s][g].receipt = lease[s][g].receipt /\ lease'[s][g].signal = lease[s][g].signal
    BY <1>5, <1>c DEF Ended
  <2> QED BY <1>5, <2>1, <2>2 DEF Ended, OwnedLive, LeaseFields
<1>6. CASE Yielded(s, g)
  <2>1. /\ driver'[s].phase = driver[s].phase /\ driver'[s].left = 0
        /\ driver'[s].abort = driver[s].abort
    BY <1>6, <1>a DEF Yielded, Row
  <2>2. /\ lease'[s][g].at = "closing"
        /\ lease'[s][g].receipt = lease[s][g].receipt /\ lease'[s][g].signal = lease[s][g].signal
    BY <1>6, <1>c DEF Yielded
  <2>3. driver[s].left = 0 => driver'[s] = driver[s]
    BY <1>6, <1>a DEF Yielded, Row
  <2>4. OwnedLive(s, g) \/ driver'[s] = driver[s]
    BY <1>6, <2>3, <1>a, LeaseAssumption DEF Yielded, OwnedLive, Row
  <2> QED BY <1>6, <2>1, <2>2, <2>4 DEF Yielded, LeaseFields
<1> QED BY <1>b, <1>1, <1>2, <1>3, <1>4, <1>5, <1>6

\* The numbers in the rows, objects and cleared dispatches.
LEMMA Numbers ==
  ASSUME TypeOK
  PROVE  /\ \A s \in Sessions : /\ driver[s].generation \in Nat /\ driver[s].left \in Nat
                                /\ driver[s].left <= LeaseSeconds
                                /\ cleared[s].generation \in Nat /\ cleared[s].left \in Nat
                                /\ cleared[s].left <= LeaseSeconds
         /\ \A s \in Sessions, g \in Generations : /\ lease[s][g].receipt \in Nat
                                                  /\ lease[s][g].receipt <= LeaseSeconds
         /\ \A g \in Generations : g \in Nat
<1>1. \A s \in Sessions : driver[s] \in Row
  BY DEF TypeOK
<1>2. \A s \in Sessions, g \in Generations : lease[s][g] \in RunLease
  BY DEF TypeOK
<1>3. \A s \in Sessions : cleared[s] \in [generation : 0 .. MaxGeneration, left : 0 .. LeaseSeconds]
  BY DEF TypeOK
<1>4. \A s \in Sessions : driver[s].generation \in Nat /\ driver[s].left \in Nat /\ driver[s].left <= LeaseSeconds
  BY <1>1, LeaseAssumption, BoundAssumption DEF Row
<1>5. \A s \in Sessions, g \in Generations : lease[s][g].receipt \in Nat /\ lease[s][g].receipt <= LeaseSeconds
  BY <1>2, LeaseAssumption DEF RunLease
<1>6. \A s \in Sessions : cleared[s].generation \in Nat /\ cleared[s].left \in Nat /\ cleared[s].left <= LeaseSeconds
  BY <1>3, LeaseAssumption, BoundAssumption
<1>7. \A g \in Generations : g \in Nat
  BY BoundAssumption DEF Generations
<1> QED BY <1>4, <1>5, <1>6, <1>7

\* An admission keeps the lease invariant: the row it overwrites was idle or
\* expired, so no receipt and no dispatch window of an older generation is open.
LEMMA AdmissionKeepsLease ==
  ASSUME TypeOK, LeaseInv, NEW w \in Workers, NEW s \in Sessions,
         NEW phase \in {"reserved", "finalizing"}, NEW m \in Messages \cup {NoMessage},
         NEW settles \in BOOLEAN, Admission(w, s, phase, m, settles)
  PROVE  LeaseInv'
<1> USE LeaseAssumption
<1>0. PICK g : g = driver[s].generation + 1
  OBVIOUS
<1>1. Admitted(w, s, phase, m, settles, g)
  BY <1>0, AdmissionFields
<1>n. /\ driver[s].generation \in Nat /\ driver[s].left \in Nat /\ g \in Generations /\ g \in Nat
      /\ cleared[s].generation <= driver[s].generation /\ cleared[s].generation \in Nat
  BY <1>1, Numbers DEF Admitted, LeaseInv, ClearedKnown
<1>a. /\ driver'[s].generation = g /\ driver'[s].phase = phase /\ driver'[s].left = LeaseSeconds
      /\ \A t \in Sessions \ {s} : driver'[t] = driver[t] /\ ran'[t] = ran[t]
      /\ ran'[s] = FALSE /\ cleared' = cleared
      /\ driver[s].phase = "idle" \/ driver[s].left = 0
  BY <1>1 DEF Admitted, Expired
<1>b. /\ lease'[s][g].at = (IF settles THEN "settlement" ELSE phase)
      /\ lease'[s][g].receipt = LeaseSeconds
      /\ \A t \in Sessions, h \in Generations : (t # s \/ h # g) =>
           lease'[t][h].at = lease[t][h].at /\ lease'[t][h].receipt = lease[t][h].receipt
  BY <1>1 DEF Admitted
<1>c. settles => phase = "finalizing"
  BY DEF Admission
<1>2. Silent'
  BY <1>n, <1>b DEF LeaseInv, Silent, Working
<1>3. PhaseAgrees'
  <2> SUFFICES ASSUME NEW t \in Sessions, NEW h \in Generations, lease'[t][h].at \in Working,
                      driver'[t].generation = h, driver'[t].phase # "idle"
               PROVE  driver'[t].phase = IF lease'[t][h].at = "settlement" THEN "finalizing" ELSE lease'[t][h].at
    BY DEF PhaseAgrees
  <2>1. CASE t # s
    BY <2>1, <1>a, <1>b DEF LeaseInv, PhaseAgrees
  <2>2. CASE t = s
    <3>1. h = g
      BY <2>2, <1>a
    <3>2. CASE settles
      BY <2>2, <3>1, <3>2, <1>a, <1>b, <1>c
    <3>3. CASE ~settles
      BY <2>2, <3>1, <3>3, <1>a, <1>b
    <3> QED BY <3>2, <3>3
  <2> QED BY <2>1, <2>2
<1>4. ReceiptWithinLease'
  <2> SUFFICES ASSUME NEW t \in Sessions, NEW h \in Generations, lease'[t][h].receipt > 0
               PROVE  /\ driver'[t].generation = h /\ driver'[t].phase # "idle"
                      /\ lease'[t][h].receipt <= driver'[t].left
    BY DEF ReceiptWithinLease
  <2>1. CASE t # s
    BY <2>1, <1>a, <1>b DEF LeaseInv, ReceiptWithinLease
  <2>2. CASE t = s /\ h = g
    BY <2>2, <1>a, <1>b
  <2>3. CASE t = s /\ h # g
    BY <2>3, <1>a, <1>b, Numbers DEF LeaseInv, ReceiptWithinLease
  <2> QED BY <2>1, <2>2, <2>3
<1>5. ClearedKnown'
  BY <1>0, <1>n, <1>a DEF LeaseInv, ClearedKnown
<1>6. DispatchWindow'
  <2> SUFFICES ASSUME NEW t \in Sessions, NEW h \in Generations, cleared'[t].generation = h,
                      cleared'[t].left > 0, lease'[t][h].at \in Working
               PROVE  FenceHolds(t, h)' /\ driver'[t].left >= cleared'[t].left
    BY DEF DispatchWindow
  <2>1. CASE t # s
    BY <2>1, <1>a, <1>b DEF LeaseInv, DispatchWindow, FenceHolds, Live
  <2>2. CASE t = s /\ h = g
    BY <2>2, <1>0, <1>n, <1>a
  <2>3. CASE t = s /\ h # g
    BY <2>3, <1>a, <1>b, Numbers DEF LeaseInv, DispatchWindow, FenceHolds, Live
  <2> QED BY <2>1, <2>2, <2>3
<1>7. RanPhase'
  BY <1>a DEF LeaseInv, RanPhase
<1> QED BY <1>2, <1>3, <1>4, <1>5, <1>6, <1>7 DEF LeaseInv

\* A step of one run keeps the lease invariant.
LEMMA LeaseStepKeepsLease ==
  ASSUME TypeOK, Wellformed, TypeOK', LeaseInv, NEW s \in Sessions, NEW g \in Generations, LeaseStep(s, g)
  PROVE  LeaseInv'
<1> USE LeaseAssumption
<1>1. LeaseFields(s, g)
  BY LeaseFieldsHold
<1>2. /\ \A t \in Sessions \ {s} : driver'[t] = driver[t]
      /\ \A t \in Sessions, h \in Generations : (t # s \/ h # g) => lease'[t][h] = lease[t][h]
      /\ driver'[s].generation = driver[s].generation
      /\ UNCHANGED <<cleared, ran>> \/ Passed(s, g)
  BY LeaseShape
<1>3. ASSUME Passed(s, g)
      PROVE  /\ \A t \in Sessions \ {s} : cleared'[t] = cleared[t] /\ ran'[t] = ran[t]
             /\ cleared'[s].generation = g /\ cleared'[s].left = 2 * HeartbeatSeconds
             /\ ran'[s] => ran[s] \/ lease[s][g].at = "running"
             /\ driver'[s].left > 2 * HeartbeatSeconds
             /\ OwnedLive(s, g) /\ lease[s][g].at \in Working
  BY <1>3 DEF Passed, Cleared, TypeOK, Monitored
<1>n. driver'[s].left \in Nat
  <2>1. driver'[s] \in Row
    BY DEF TypeOK
  <2> QED BY <2>1 DEF Row
<1>4. Silent'
  BY <1>1, <1>2 DEF LeaseInv, Silent, LeaseFields, Quiet, Working, NextPhase, Monitored
<1>5. PhaseAgrees'
  <2> SUFFICES ASSUME NEW t \in Sessions, NEW h \in Generations, lease'[t][h].at \in Working,
                      driver'[t].generation = h, driver'[t].phase # "idle"
               PROVE  driver'[t].phase = IF lease'[t][h].at = "settlement" THEN "finalizing" ELSE lease'[t][h].at
    BY DEF PhaseAgrees
  <2>1. CASE t # s
    BY <2>1, <1>2 DEF LeaseInv, PhaseAgrees
  <2>2. CASE t = s /\ h # g
    <3>1. lease'[t][h] = lease[t][h] /\ driver[t].generation = h
      BY <2>2, <1>2
    <3>2. driver'[s] = driver[s]
      BY <1>1, <2>2, <3>1 DEF LeaseFields, Quiet, OwnedLive, Owned, FenceHolds
    <3> QED BY <2>2, <3>1, <3>2 DEF LeaseInv, PhaseAgrees
  <2>3. CASE t = s /\ h = g
    BY <2>3, <1>1, <1>2 DEF LeaseInv, PhaseAgrees, LeaseFields, Quiet, OwnedLive, Owned, FenceHolds,
                            Live, NextPhase, Working, Monitored
  <2> QED BY <2>1, <2>2, <2>3
<1>6. ReceiptWithinLease'
  <2> SUFFICES ASSUME NEW t \in Sessions, NEW h \in Generations, lease'[t][h].receipt > 0
               PROVE  /\ driver'[t].generation = h /\ driver'[t].phase # "idle"
                      /\ lease'[t][h].receipt <= driver'[t].left
    BY DEF ReceiptWithinLease
  <2>1. CASE t # s
    BY <2>1, <1>2 DEF LeaseInv, ReceiptWithinLease
  <2>2. CASE t = s /\ h # g
    <3>1. lease'[t][h] = lease[t][h] /\ driver[t].generation = h
      BY <2>2, <1>2 DEF LeaseInv, ReceiptWithinLease
    <3>2. driver'[s] = driver[s]
      BY <1>1, <2>2, <3>1 DEF LeaseFields, Quiet, OwnedLive, Owned, FenceHolds
    <3> QED BY <2>2, <3>1, <3>2 DEF LeaseInv, ReceiptWithinLease
  <2>3. CASE t = s /\ h = g
    BY <2>3, <1>1, <1>2, Numbers
       DEF LeaseInv, ReceiptWithinLease, Silent, LeaseFields, Quiet, OwnedLive, Owned, NextPhase, Working
  <2> QED BY <2>1, <2>2, <2>3
<1>7. ClearedKnown'
  BY <1>2, <1>3, Numbers DEF LeaseInv, ClearedKnown, OwnedLive, Owned
<1>8. DispatchWindow'
  <2> SUFFICES ASSUME NEW t \in Sessions, NEW h \in Generations, cleared'[t].generation = h,
                      cleared'[t].left > 0, lease'[t][h].at \in Working
               PROVE  FenceHolds(t, h)' /\ driver'[t].left >= cleared'[t].left
    BY DEF DispatchWindow
  <2>1. CASE t # s
    BY <2>1, <1>2, <1>3 DEF LeaseInv, DispatchWindow, FenceHolds, Live
  <2>2. CASE t = s /\ h # g
    <3>1. lease'[t][h] = lease[t][h] /\ cleared' = cleared
      BY <2>2, <1>2, <1>3
    <3>2. FenceHolds(t, h) /\ driver[t].left >= cleared[t].left
      BY <3>1 DEF LeaseInv, DispatchWindow
    <3>3. driver'[s] = driver[s]
      BY <1>1, <2>2, <3>2 DEF LeaseFields, Quiet, OwnedLive, Owned, FenceHolds
    <3> QED BY <2>2, <3>1, <3>2, <3>3 DEF FenceHolds, Live
  <2>3. CASE t = s /\ h = g
    <3>1. lease[s][g].at \in Working /\ lease'[s][g].at # "closing"
      BY <2>3, <1>1 DEF LeaseFields, Quiet, Working, NextPhase
    <3>2. ASSUME FenceHolds(s, g)
          PROVE  FenceHolds(s, g)' /\ (driver'[s].left >= driver[s].left \/ driver'[s].left = LeaseSeconds)
      BY <3>1, <3>2, <1>1, <1>2, Numbers
         DEF LeaseFields, Quiet, OwnedLive, Owned, FenceHolds, Live, NextPhase
    <3>3. CASE UNCHANGED <<cleared, ran>>
      <4>1. FenceHolds(s, g) /\ driver[s].left >= cleared[s].left
        BY <2>3, <3>1, <3>3 DEF LeaseInv, DispatchWindow
      <4>2. FenceHolds(s, g)' /\ (driver'[s].left >= driver[s].left \/ driver'[s].left = LeaseSeconds)
        BY <3>2, <4>1
      <4>3. driver'[s].left >= cleared'[s].left
        BY <3>3, <4>1, <4>2, <1>n, Numbers
      <4> QED BY <2>3, <4>2, <4>3 DEF FenceHolds, Live
    <3>4. CASE Passed(s, g)
      <4>1. FenceHolds(s, g)
        BY <3>4, <1>3 DEF OwnedLive, Owned, FenceHolds, Live
      <4>2. FenceHolds(s, g)'
        BY <3>2, <4>1
      <4>3. driver'[s].left >= cleared'[s].left
        BY <3>4, <1>3, <1>n
      <4> QED BY <2>3, <4>2, <4>3 DEF FenceHolds, Live
    <3> QED BY <1>2, <3>3, <3>4
  <2> QED BY <2>1, <2>2, <2>3
<1>9. RanPhase'
  <2>1. \A t \in Sessions \ {s} : ran'[t] => driver'[t].phase # "reserved"
    BY <1>2, <1>3 DEF LeaseInv, RanPhase
  <2>2. ran[s] => driver'[s].phase # "reserved"
    BY <1>1 DEF LeaseInv, RanPhase, LeaseFields, Quiet, NextPhase
  <2>3. ASSUME Passed(s, g), lease[s][g].at = "running"
        PROVE  driver'[s].phase # "reserved"
    <3>1. driver[s].phase = "running"
      BY <2>3, <1>3 DEF LeaseInv, PhaseAgrees, OwnedLive, Owned
    <3> QED BY <3>1, <1>1 DEF LeaseFields, Quiet, NextPhase
  <2> QED BY <1>2, <1>3, <2>1, <2>2, <2>3 DEF RanPhase
<1> QED BY <1>4, <1>5, <1>6, <1>7, <1>8, <1>9 DEF LeaseInv

\* Stop requests, crashes, the clock and the recovery scan keep the lease
\* invariant.
LEMMA OthersKeepLease ==
  ASSUME TypeOK, TypeOK', LeaseInv,
         \/ Stopping \/ (\E w \in Workers : Crash(w)) \/ Tick \/ Reading
  PROVE  LeaseInv'
<1> USE LeaseAssumption
<1>1. CASE Stopping
  <2>1. /\ \A t \in Sessions : /\ driver'[t].generation = driver[t].generation
                               /\ driver'[t].phase = driver[t].phase
                               /\ driver'[t].left = driver[t].left
        /\ \A t \in Sessions, h \in Generations : /\ lease'[t][h].at = lease[t][h].at
                                                  /\ lease'[t][h].receipt = lease[t][h].receipt
        /\ UNCHANGED <<cleared, ran>>
    BY <1>1, StoppingFields DEF Stopping
  <2> QED BY <2>1 DEF LeaseInv, Silent, PhaseAgrees, ReceiptWithinLease, ClearedKnown, DispatchWindow,
                      RanPhase, FenceHolds, Live
<1>2. ASSUME NEW w \in Workers, Crash(w)
      PROVE  LeaseInv'
  <2>1. /\ UNCHANGED <<driver, ran, cleared>>
        /\ \A t \in Sessions, h \in Generations :
             \/ lease'[t][h] = lease[t][h]
             \/ lease'[t][h].at = "none" /\ lease'[t][h].receipt = 0
    BY <1>2, CrashFields
  <2>2. Silent' /\ PhaseAgrees' /\ ReceiptWithinLease'
    BY <2>1 DEF LeaseInv, Silent, PhaseAgrees, ReceiptWithinLease, Working
  <2>3. DispatchWindow'
    BY <2>1 DEF LeaseInv, DispatchWindow, FenceHolds, Live, Working
  <2> QED BY <2>1, <2>2, <2>3 DEF LeaseInv, ClearedKnown, RanPhase
<1>3. CASE Tick
  <2>1. /\ \A t \in Sessions : /\ driver'[t].generation = driver[t].generation
                               /\ driver'[t].phase = driver[t].phase
                               /\ driver'[t].left = Less(driver[t].left)
        /\ \A t \in Sessions, h \in Generations : /\ lease'[t][h].at = lease[t][h].at
                                                  /\ lease'[t][h].receipt = Less(lease[t][h].receipt)
        /\ \A t \in Sessions : cleared'[t].left > 0 =>
             /\ cleared'[t].generation = cleared[t].generation
             /\ cleared[t].left > 1 /\ cleared'[t].left = cleared[t].left - 1
        /\ \A t \in Sessions : cleared'[t].generation \in {0, cleared[t].generation}
        /\ ran' = ran
    BY <1>3, TickFields
  <2>2. Silent' /\ PhaseAgrees' /\ RanPhase'
    BY <2>1 DEF LeaseInv, Silent, PhaseAgrees, RanPhase, Less
  <2>3. ReceiptWithinLease'
    <3> SUFFICES ASSUME NEW t \in Sessions, NEW h \in Generations, lease'[t][h].receipt > 0
                 PROVE  /\ driver'[t].generation = h /\ driver'[t].phase # "idle"
                        /\ lease'[t][h].receipt <= driver'[t].left
      BY DEF ReceiptWithinLease
    <3>1. lease[t][h].receipt > 0 /\ lease'[t][h].receipt = lease[t][h].receipt - 1
      BY <2>1, Numbers DEF Less
    <3>2. driver[t].generation = h /\ driver[t].phase # "idle" /\ lease[t][h].receipt <= driver[t].left
      BY <3>1 DEF LeaseInv, ReceiptWithinLease
    <3> QED BY <3>1, <3>2, <2>1, Numbers DEF Less
  <2>4. ClearedKnown'
    BY <2>1, Numbers DEF LeaseInv, ClearedKnown
  <2>5. DispatchWindow'
    <3> SUFFICES ASSUME NEW t \in Sessions, NEW h \in Generations, cleared'[t].generation = h,
                        cleared'[t].left > 0, lease'[t][h].at \in Working
                 PROVE  FenceHolds(t, h)' /\ driver'[t].left >= cleared'[t].left
      BY DEF DispatchWindow
    <3>1. /\ cleared[t].generation = h /\ cleared[t].left > 1 /\ cleared'[t].left = cleared[t].left - 1
          /\ lease[t][h].at \in Working
      BY <2>1
    <3>2. FenceHolds(t, h) /\ driver[t].left >= cleared[t].left
      BY <3>1, Numbers DEF LeaseInv, DispatchWindow
    <3>3. driver'[t].left = driver[t].left - 1 /\ driver'[t].left > 0
      BY <3>1, <3>2, <2>1, Numbers DEF Less
    <3> QED BY <3>1, <3>2, <3>3, <2>1, Numbers DEF FenceHolds, Live
  <2> QED BY <2>2, <2>3, <2>4, <2>5 DEF LeaseInv
<1>4. CASE Reading
  BY <1>4 DEF Reading, rows, local, hist, LeaseInv, Silent, PhaseAgrees, ReceiptWithinLease, ClearedKnown,
              DispatchWindow, RanPhase, FenceHolds, Live
<1> QED BY <1>1, <1>2, <1>3, <1>4

\* Every step keeps the stop invariant.
LEMMA StopInvStep == TypeOK /\ Wellformed /\ StopInv /\ [Next]_vars => StopInv'
<1> SUFFICES ASSUME TypeOK, Wellformed, StopInv, [Next]_vars PROVE StopInv'
  OBVIOUS
<1>a. \A p \in Stoppers : stop[p] \in Stop
  BY DEF TypeOK
<1>1. ASSUME NEW w \in Workers, NEW s \in Sessions, NEW phase \in {"reserved", "finalizing"},
             NEW m \in Messages \cup {NoMessage}, NEW settles \in BOOLEAN,
             Admission(w, s, phase, m, settles)
      PROVE  StopInv'
  <2>0. PICK g : g = driver[s].generation + 1
    OBVIOUS
  <2>1. Admitted(w, s, phase, m, settles, g)
    BY <1>1, <2>0, AdmissionFields
  <2>2. StopHitsItsRun'
    BY <2>1 DEF Admitted, StopInv, StopHitsItsRun
  <2>3. \A p \in Stoppers : stop'[p] = stop[p] \/ stop'[p].at = "done"
    <3>1. CASE UNCHANGED stop
      BY <3>1
    <3>2. ASSUME NEW p \in Stoppers, SetStop(p, [stop[p] EXCEPT !.at = "done"])
          PROVE  \A o \in Stoppers : stop'[o] = stop[o] \/ stop'[o].at = "done"
      <4>1. [stop[p] EXCEPT !.at = "done"] \in Stop /\ [stop[p] EXCEPT !.at = "done"].at = "done"
        BY <1>a, StopUpdates DEF Stop
      <4>2. /\ stop'[p] = [stop[p] EXCEPT !.at = "done"]
            /\ \A o \in Stoppers \ {p} : stop'[o] = stop[o]
        BY <3>2, <4>1, SetStopEffect
      <4> QED BY <4>1, <4>2
    <3> QED BY <1>1, <3>1, <3>2 DEF Admission
  <2>4. asked' = asked
    BY <2>1 DEF Admitted
  <2>5. StopAsked'
    BY <2>3, <2>4 DEF StopInv, StopAsked
  <2> QED BY <2>2, <2>5 DEF StopInv
<1>2. ASSUME NEW s \in Sessions, NEW g \in Generations, LeaseStep(s, g)
      PROVE  StopInv'
  <2>1. /\ \A t \in Sessions \ {s} : driver'[t] = driver[t]
        /\ \A t \in Sessions, h \in Generations : (t # s \/ h # g) => lease'[t][h] = lease[t][h]
        /\ UNCHANGED <<stop, asked>>
        /\ driver'[s].generation = driver[s].generation
    BY <1>2, LeaseShape
  <2>2. LeaseFields(s, g)
    BY <1>2, LeaseFieldsHold
  <2>3. driver'[s].abort => driver[s].abort
    BY <2>2 DEF LeaseFields, Quiet
  <2>4. lease'[s][g].signal = "stop" =>
          lease[s][g].signal = "stop" \/ (driver[s].generation = g /\ driver[s].abort)
    BY <2>2 DEF LeaseFields, Quiet, OwnedLive, Owned
  <2>5. StopHitsItsRun'
    BY <2>1, <2>3, <2>4 DEF StopInv, StopHitsItsRun
  <2>6. StopAsked'
    BY <2>1 DEF StopInv, StopAsked
  <2> QED BY <2>5, <2>6 DEF StopInv
<1>3. CASE Stopping
  <2>1. /\ \A t \in Sessions : /\ driver'[t].generation = driver[t].generation
                               /\ driver'[t].abort => driver[t].abort \/ driver[t].generation \in asked'[t]
        /\ \A t \in Sessions, h \in Generations : lease'[t][h].signal = "stop" =>
             \/ lease[t][h].signal = "stop"
             \/ \E p \in Stoppers : stop[p].at = "nudge" /\ stop[p].session = t /\ stop[p].generation = h
    BY <1>3, StoppingFields
  <2>2. \A t \in Sessions : asked[t] \subseteq asked'[t]
    BY <1>3 DEF Stopping
  <2>3. \A t \in Sessions, h \in Generations :
          (\E p \in Stoppers : stop[p].at = "nudge" /\ stop[p].session = t /\ stop[p].generation = h)
            => h \in asked[t]
    BY DEF StopInv, StopAsked
  <2>4. StopHitsItsRun'
    BY <2>1, <2>2, <2>3 DEF StopInv, StopHitsItsRun
  <2>5. StopAsked'
    <3>1. PICK p \in Stoppers :
            /\ stop'[p].session \in Sessions
            /\ \/ stop'[p].at \in {"snapshot", "done"}
               \/ stop'[p].generation \in asked'[stop'[p].session]
               \/ /\ stop[p].at \in {"nudge", "waiting"}
                  /\ stop'[p].session = stop[p].session
                  /\ stop'[p].generation = stop[p].generation
            /\ \A o \in Stoppers \ {p} : stop'[o] = stop[o]
      BY <1>3 DEF Stopping
    <3>2. stop'[p].at \in {"nudge", "waiting", "ended"} => stop'[p].generation \in asked'[stop'[p].session]
      BY <3>1, <2>2 DEF StopInv, StopAsked
    <3>3. ASSUME NEW o \in Stoppers \ {p}, stop'[o].at \in {"nudge", "waiting", "ended"}
          PROVE  stop'[o].generation \in asked'[stop'[o].session]
      <4>1. stop'[o] = stop[o] /\ stop[o].generation \in asked[stop[o].session]
        BY <3>1, <3>3 DEF StopInv, StopAsked
      <4>2. stop[o].session \in Sessions
        BY <3>3, <4>1 DEF Wellformed
      <4> QED BY <4>1, <4>2, <2>2
    <3> QED BY <3>2, <3>3 DEF StopAsked
  <2> QED BY <2>4, <2>5 DEF StopInv
<1>4. ASSUME NEW w \in Workers, Crash(w)
      PROVE  StopInv'
  BY <1>4, CrashFields DEF StopInv, StopAsked, StopHitsItsRun
<1>5. CASE Tick
  BY <1>5, TickFields DEF StopInv, StopAsked, StopHitsItsRun
<1>6. CASE Reading
  BY <1>6 DEF Reading, rows, local, hist, StopInv, StopAsked, StopHitsItsRun
<1> QED BY <1>1, <1>2, <1>3, <1>4, <1>5, <1>6, Kinds

\* Every step keeps the inductive invariant.
LEMMA InvStep == Inv /\ [Next]_vars => Inv'
<1> SUFFICES ASSUME Inv, [Next]_vars PROVE Inv'
  OBVIOUS
<1>1. TypeOK /\ Wellformed /\ LeaseInv /\ StopInv
  BY DEF Inv
<1>2. TypeOK' /\ Wellformed' /\ StopInv'
  BY <1>1, TypeStep, WellformedStep, StopInvStep
<1>3. ASSUME NEW w \in Workers, NEW s \in Sessions, NEW phase \in {"reserved", "finalizing"},
             NEW m \in Messages \cup {NoMessage}, NEW settles \in BOOLEAN,
             Admission(w, s, phase, m, settles)
      PROVE  LeaseInv'
  BY <1>1, <1>3, AdmissionKeepsLease
<1>4. ASSUME NEW s \in Sessions, NEW g \in Generations, LeaseStep(s, g)
      PROVE  LeaseInv'
  BY <1>1, <1>2, <1>4, LeaseStepKeepsLease
<1>5. Stopping \/ (\E w \in Workers : Crash(w)) \/ Tick \/ Reading => LeaseInv'
  BY <1>1, <1>2, OthersKeepLease
<1>6. LeaseInv'
  BY <1>1, <1>3, <1>4, <1>5, Kinds
<1> QED BY <1>2, <1>6 DEF Inv

LEMMA InitInv == Init => Inv
<1> SUFFICES ASSUME Init PROVE Inv
  OBVIOUS
<1>1. TypeOK /\ Wellformed
  BY InitTypes
<1>2. LeaseInv
  BY DEF Init, LeaseInv, Silent, PhaseAgrees, ReceiptWithinLease, ClearedKnown, DispatchWindow, RanPhase,
         IdleRow, NoLease, NotCleared
<1>3. StopInv
  BY DEF Init, StopInv, StopAsked, StopHitsItsRun, IdleRow, NoLease, NoStop
<1> QED BY <1>1, <1>2, <1>3 DEF Inv

\* The invariant holds in every reachable state.
LEMMA Invariance == Spec => []Inv
  BY InitInv, InvStep, PTL DEF Spec

-----------------------------------------------------------------------------
(* The theorems. *)

\* A receipt of current_run_transport_lease never outlives the database lease of
\* its generation: the execution plane never sees two valid owners.
THEOREM ReceiptSafe == Spec => []ReceiptWithinLease
<1>1. Inv => ReceiptWithinLease
  BY DEF Inv, LeaseInv
<1> QED BY <1>1, Invariance, PTL

\* A dispatch that assert_current let pass keeps its generation live for two
\* heartbeats, unless its own owner settles it.
THEOREM DispatchSafe == Spec => []DispatchWindow
<1>1. Inv => DispatchWindow
  BY DEF Inv, LeaseInv
<1> QED BY <1>1, Invariance, PTL

\* An exact stop never reaches a generation it did not name.
THEOREM StopSafe == Spec => []StopHitsItsRun
<1>1. Inv => StopHitsItsRun
  BY DEF Inv, StopInv
<1> QED BY <1>1, Invariance, PTL

\* No step erases a recovery marker.
THEOREM MarkersSafe == Spec => MarkerKept
<1>1. Inv /\ [Next]_vars => KeepsMarkers
  <2> SUFFICES ASSUME Inv, [Next]_vars, NEW t \in Sessions, Expired(t)
               PROVE  \/ driver'[t] = driver[t]
                      \/ /\ driver'[t].generation = driver[t].generation + 1
                         /\ driver'[t].trigger = driver[t].trigger
                         /\ driver'[t].phase \in {"reserved", "finalizing"}
    BY DEF KeepsMarkers
  <2>a. TypeOK /\ Wellformed /\ driver[t].phase # "idle" /\ driver[t].left = 0
    BY DEF Inv, Expired
  <2>1. ASSUME NEW w \in Workers, NEW s \in Sessions, NEW phase \in {"reserved", "finalizing"},
               NEW m \in Messages \cup {NoMessage}, NEW settles \in BOOLEAN,
               Admission(w, s, phase, m, settles)
        PROVE  \/ driver'[t] = driver[t]
               \/ /\ driver'[t].generation = driver[t].generation + 1
                  /\ driver'[t].trigger = driver[t].trigger
                  /\ driver'[t].phase \in {"reserved", "finalizing"}
    <3>1. Admitted(w, s, phase, m, settles, driver[s].generation + 1)
      BY <2>1, <2>a, AdmissionFields
    <3>2. CASE t # s
      BY <3>1, <3>2 DEF Admitted
    <3>3. CASE t = s
      <4>1. /\ driver'[t].generation = driver[t].generation + 1 /\ driver'[t].phase = phase
            /\ driver'[t].trigger = m
        BY <3>1, <3>3 DEF Admitted
      <4>2. \A n : IdleRow(n).phase = "idle"
        BY DEF IdleRow
      <4>3. \/ driver[s].phase = "idle" \/ m = driver[s].trigger
            \/ \E n : driver[s] = IdleRow(n)
        BY <2>1 DEF Admission
      <4> QED BY <2>a, <3>3, <4>1, <4>2, <4>3
    <3> QED BY <3>2, <3>3
  <2>2. ASSUME NEW s \in Sessions, NEW g \in Generations, LeaseStep(s, g)
        PROVE  driver'[t] = driver[t]
    <3>1. t # s => driver'[t] = driver[t]
      BY <2>2, <2>a, LeaseShape
    <3>2. LeaseFields(s, g)
      BY <2>2, <2>a, LeaseFieldsHold
    <3>3. t = s => driver'[t] = driver[t]
      BY <3>2, <2>a DEF LeaseFields, Quiet, OwnedLive, FenceHolds, Live
    <3> QED BY <3>1, <3>3
  <2>3. CASE Stopping
    BY <2>3, <2>a, StoppingFields DEF Live
  <2>4. ASSUME NEW w \in Workers, Crash(w)
        PROVE  driver'[t] = driver[t]
    BY <2>4, <2>a, CrashFields
  <2>5. CASE Tick
    BY <2>5, <2>a, TickFields
  <2>6. CASE Reading
    BY <2>6 DEF Reading, rows
  <2> QED BY <2>a, <2>1, <2>2, <2>3, <2>4, <2>5, <2>6, Kinds
<1> QED BY <1>1, Invariance, PTL DEF Spec, MarkerKept

\* What a step that gives a session a new generation must have been.
LEMMA NewGeneration ==
  ASSUME TypeOK, Wellformed, [Next]_vars, NEW t \in Sessions, driver'[t].generation # driver[t].generation
  PROVE  \E w \in Workers, phase \in {"reserved", "finalizing"},
            m \in Messages \cup {NoMessage}, settles \in BOOLEAN : Admission(w, t, phase, m, settles)
<1>1. ASSUME NEW w \in Workers, NEW s \in Sessions, NEW phase \in {"reserved", "finalizing"},
             NEW m \in Messages \cup {NoMessage}, NEW settles \in BOOLEAN,
             Admission(w, s, phase, m, settles)
      PROVE  t = s
  <2>1. Admitted(w, s, phase, m, settles, driver[s].generation + 1)
    BY <1>1, AdmissionFields
  <2> QED BY <2>1 DEF Admitted
<1>2. ASSUME NEW s \in Sessions, NEW g \in Generations, LeaseStep(s, g)
      PROVE  FALSE
  BY <1>2, LeaseShape
<1>3. ~Stopping
  BY StoppingFields
<1>4. ASSUME NEW w \in Workers, Crash(w) PROVE FALSE
  BY <1>4, CrashFields
<1>5. ~Tick
  BY TickFields
<1>6. ~Reading
  BY DEF Reading, rows
<1>7. \E w \in Workers, s \in Sessions, phase \in {"reserved", "finalizing"},
         m \in Messages \cup {NoMessage}, settles \in BOOLEAN : Admission(w, s, phase, m, settles)
  BY <1>2, <1>3, <1>4, <1>5, <1>6, Kinds
<1> QED BY <1>1, <1>7, Zenon

\* Recovery never replays a prompt whose generation passed a dispatch.
THEOREM ReplaySafe == Spec => ReplayNeverRepeatsWork
<1>1. Inv /\ [Next]_vars => ReplaysOnlyUnrun
  <2> SUFFICES ASSUME Inv, [Next]_vars, NEW t \in Sessions, Expired(t),
                      driver'[t].generation # driver[t].generation, driver'[t].phase = "reserved"
               PROVE  ~ran[t]
    BY DEF ReplaysOnlyUnrun
  <2>1. TypeOK /\ Wellformed /\ RanPhase
    BY DEF Inv, LeaseInv
  <2>2. PICK w \in Workers, phase \in {"reserved", "finalizing"},
             m \in Messages \cup {NoMessage}, settles \in BOOLEAN : Admission(w, t, phase, m, settles)
    BY <2>1, NewGeneration
  <2>3. Admitted(w, t, phase, m, settles, driver[t].generation + 1)
    BY <2>1, <2>2, AdmissionFields
  <2>4. phase = "reserved"
    BY <2>3 DEF Admitted
  <2>5. driver[t].phase = "reserved"
    BY <2>2, <2>4 DEF Admission, Expired
  <2> QED BY <2>1, <2>5 DEF RanPhase
<1> QED BY <1>1, Invariance, PTL DEF Spec, ReplayNeverRepeatsWork

\* The bookkeeping generation of a stop directly follows the generation that
\* stop named.
THEOREM SettlementSafe == Spec => SettlementFollowsItsRun
<1>1. Inv /\ [Next]_vars => SettlesTheStopped
  <2> SUFFICES ASSUME Inv, [Next]_vars, NEW t \in Sessions, exempt'[t],
                      driver'[t].generation # driver[t].generation
               PROVE  driver[t].generation \in asked[t]
    BY DEF SettlesTheStopped
  <2>1. TypeOK /\ Wellformed /\ StopAsked
    BY DEF Inv, StopInv
  <2>2. PICK w \in Workers, phase \in {"reserved", "finalizing"},
             m \in Messages \cup {NoMessage}, settles \in BOOLEAN : Admission(w, t, phase, m, settles)
    BY <2>1, NewGeneration
  <2>3. Admitted(w, t, phase, m, settles, driver[t].generation + 1)
    BY <2>1, <2>2, AdmissionFields
  <2>4. settles
    BY <2>3 DEF Admitted
  <2>5. PICK p \in Stoppers : /\ stop[p].at = "ended" /\ stop[p].session = t
                             /\ driver[t] = IdleRow(stop[p].generation)
    BY <2>2, <2>4 DEF Admission
  <2>6. \A n : IdleRow(n).generation = n
    BY DEF IdleRow
  <2> QED BY <2>1, <2>5, <2>6 DEF StopAsked
<1> QED BY <1>1, Invariance, PTL DEF Spec, SettlementFollowsItsRun

-----------------------------------------------------------------------------
(* The quota. *)

Counted == {s \in Sessions : Live(s) /\ ~exempt[s]}

\* Only an admission makes a row live: renewals, phase changes and the clock
\* never bring an expired or idle row back.
LEMMA NoRevival ==
  ASSUME TypeOK, Wellformed, TypeOK',
         \/ \E s \in Sessions, g \in Generations : LeaseStep(s, g)
         \/ Stopping \/ (\E w \in Workers : Crash(w)) \/ Tick \/ Reading
  PROVE  Counted' \subseteq Counted
<1>1. ASSUME NEW s \in Sessions, NEW g \in Generations, LeaseStep(s, g)
      PROVE  Counted' \subseteq Counted
  <2>1. /\ \A t \in Sessions \ {s} : driver'[t] = driver[t]
        /\ exempt' = exempt
    BY <1>1, LeaseShape
  <2>2. LeaseFields(s, g)
    BY <1>1, LeaseFieldsHold
  <2>3. Live(s)' => Live(s)
    BY <2>2 DEF LeaseFields, Quiet, OwnedLive, Owned, FenceHolds, Live
  <2> QED BY <2>1, <2>3 DEF Counted, Live
<1>2. CASE Stopping
  BY <1>2, StoppingFields DEF Stopping, Counted, Live
<1>3. ASSUME NEW w \in Workers, Crash(w)
      PROVE  Counted' \subseteq Counted
  BY <1>3, CrashFields DEF Counted, Live
<1>4. CASE Tick
  <2>1. /\ \A t \in Sessions : driver'[t].phase = driver[t].phase /\ driver'[t].left = Less(driver[t].left)
        /\ exempt' = exempt
    BY <1>4, TickFields
  <2> QED BY <2>1, Numbers DEF Counted, Live, Less
<1>5. CASE Reading
  BY <1>5 DEF Reading, rows, Counted, Live
<1> QED BY <1>1, <1>2, <1>3, <1>4, <1>5

\* Live generations other than stop settlements never exceed
\* max_concurrent_agents, whatever the interleaving of admissions, renewals,
\* expiries and recoveries.
THEOREM QuotaSafe == Spec => []QuotaHolds
<1> USE BoundAssumption
<1>a. IsFiniteSet(Sessions) /\ \A S \in SUBSET Sessions : IsFiniteSet(S) /\ Cardinality(S) \in Nat
  BY FiniteAssumption, FS_Subset, FS_CardinalityType
<1>b. \A S, T \in SUBSET Sessions : S \subseteq T => Cardinality(S) <= Cardinality(T)
  BY <1>a, FS_Subset
<1>c. QuotaHolds <=> Cardinality(Counted) <= MaxConcurrent
  BY DEF QuotaHolds, Counted
<1>1. Init => QuotaHolds
  <2> SUFFICES ASSUME Init PROVE QuotaHolds
    OBVIOUS
  <2>1. Counted = {}
    BY DEF Init, Counted, Live, IdleRow
  <2> QED BY <2>1, <1>c, FS_EmptySet
<1>2. TypeOK /\ Wellformed /\ QuotaHolds /\ [Next]_vars => QuotaHolds'
  <2> SUFFICES ASSUME TypeOK, Wellformed, QuotaHolds, [Next]_vars PROVE Cardinality(Counted') <= MaxConcurrent
    BY DEF QuotaHolds, Counted
  <2>0. TypeOK'
    BY TypeStep
  <2>t. Counted' \in SUBSET Sessions /\ Counted \in SUBSET Sessions
    BY DEF Counted
  <2>1. ASSUME NEW w \in Workers, NEW s \in Sessions, NEW phase \in {"reserved", "finalizing"},
               NEW m \in Messages \cup {NoMessage}, NEW settles \in BOOLEAN,
               Admission(w, s, phase, m, settles)
        PROVE  Cardinality(Counted') <= MaxConcurrent
    <3>1. Admitted(w, s, phase, m, settles, driver[s].generation + 1)
      BY <2>1, AdmissionFields
    <3>2. exempt'[s] = settles /\ \A t \in Sessions \ {s} : driver'[t] = driver[t] /\ exempt'[t] = exempt[t]
      BY <3>1 DEF Admitted
    <3>3. CASE settles
      <4>1. Counted' \subseteq Counted
        BY <3>2, <3>3 DEF Counted, Live
      <4> QED BY <4>1, <2>t, <1>a, <1>b, <1>c
    <3>4. CASE ~settles
      <4> DEFINE L == {t \in Sessions : Live(t)}
      <4>1. QuotaAdmits
        BY <2>1, <3>4 DEF Admission
      <4>2. L \in SUBSET Sessions /\ Cardinality(L) < MaxConcurrent
        BY <4>1 DEF QuotaAdmits
      <4>3. Counted' \subseteq L \cup {s}
        BY <3>2 DEF Counted, Live
      <4>4. IsFiniteSet(L) /\ Cardinality(L) \in Nat
        BY <4>2, <1>a
      <4>5. Cardinality(L \cup {s}) <= Cardinality(L) + 1
        <5>1. Cardinality(L \cup {s}) = IF s \in L THEN Cardinality(L) ELSE Cardinality(L) + 1
          BY <4>4, FS_AddElement
        <5> QED BY <5>1, <4>4
      <4>6. L \cup {s} \in SUBSET Sessions
        BY <4>2
      <4>7. Cardinality(Counted') <= Cardinality(L \cup {s})
        BY <4>3, <4>6, <2>t, <1>b
      <4>8. Cardinality(Counted') \in Nat /\ Cardinality(L \cup {s}) \in Nat
        BY <4>6, <2>t, <1>a
      <4> HIDE DEF L
      <4> QED BY <4>2, <4>4, <4>5, <4>7, <4>8
    <3> QED BY <3>3, <3>4
  <2>2. ASSUME \/ \E s \in Sessions, g \in Generations : LeaseStep(s, g)
               \/ Stopping \/ (\E w \in Workers : Crash(w)) \/ Tick \/ Reading
        PROVE  Cardinality(Counted') <= MaxConcurrent
    <3>1. Counted' \subseteq Counted
      BY <2>0, <2>2, NoRevival
    <3> QED BY <3>1, <2>t, <1>a, <1>b, <1>c
  <2> QED BY <2>1, <2>2, Kinds
<1> QED BY <1>1, <1>2, TypeCorrect, PTL DEF Spec

-----------------------------------------------------------------------------
(* Refinement. *)

\* The driver implements the run fence: for every session, only a reservation
\* makes the row live, and it takes the next generation.
THEOREM FenceRefinement == Spec => ImplementsRunFence
<1>1. Init => \A s \in Sessions : Fence(s)!Init
  BY DEF Init, Fence!Init, IdleRow, Live
<1>2. TypeOK /\ Wellformed /\ [Next]_vars => FenceSteps
  <2> SUFFICES ASSUME TypeOK, Wellformed, [Next]_vars, NEW t \in Sessions
               PROVE  [Fence(t)!Next]_<<driver[t].generation, Live(t)>>
    BY DEF FenceSteps
  <2> DEFINE Same == driver'[t].generation = driver[t].generation /\ (Live(t)' = Live(t))
             Ends == driver'[t].generation = driver[t].generation /\ Live(t) /\ ~Live(t)'
             Begins == /\ ~Live(t) /\ Live(t)' /\ driver[t].generation < MaxGeneration
                       /\ driver'[t].generation = driver[t].generation + 1
  <2>0. ASSUME Same \/ Ends \/ Begins PROVE [Fence(t)!Next]_<<driver[t].generation, Live(t)>>
    BY <2>0 DEF Fence!Next, Fence!Begin, Fence!End
  <2>a. driver[t].generation \in Nat /\ (Live(t)' \in BOOLEAN) /\ Live(t) \in BOOLEAN
    BY Numbers DEF Live
  <2>1. ASSUME NEW w \in Workers, NEW s \in Sessions, NEW phase \in {"reserved", "finalizing"},
               NEW m \in Messages \cup {NoMessage}, NEW settles \in BOOLEAN,
               Admission(w, s, phase, m, settles)
        PROVE  Same \/ Begins
    <3>1. Admitted(w, s, phase, m, settles, driver[s].generation + 1)
      BY <2>1, AdmissionFields
    <3>2. CASE t # s
      BY <3>1, <3>2 DEF Admitted, Live
    <3>3. CASE t = s
      <4>1. /\ driver'[t].generation = driver[t].generation + 1
            /\ driver[t].generation + 1 \in Generations
            /\ driver'[t].phase # "idle" /\ driver'[t].left = LeaseSeconds
            /\ driver[t].phase = "idle" \/ Expired(t)
        BY <3>1, <3>3 DEF Admitted
      <4>2. driver[t].generation < MaxGeneration
        BY <4>1, <2>a, BoundAssumption DEF Generations
      <4>3. Live(t)' /\ ~Live(t)
        BY <4>1, LeaseAssumption DEF Live, Expired
      <4> QED BY <4>1, <4>2, <4>3
    <3> QED BY <3>2, <3>3
  <2>2. ASSUME driver'[t].generation = driver[t].generation, Live(t)' => Live(t)
        PROVE  Same \/ Ends
    BY <2>2, <2>a
  <2>3. ASSUME NEW s \in Sessions, NEW g \in Generations, LeaseStep(s, g)
        PROVE  driver'[t].generation = driver[t].generation /\ (Live(t)' => Live(t))
    <3>1. /\ t # s => driver'[t] = driver[t]
          /\ driver'[s].generation = driver[s].generation
      BY <2>3, LeaseShape
    <3>2. LeaseFields(s, g)
      BY <2>3, LeaseFieldsHold
    <3>3. t = s => (Live(t)' => Live(t))
      BY <3>2 DEF LeaseFields, Quiet, OwnedLive, Owned, FenceHolds, Live
    <3> QED BY <3>1, <3>3 DEF Live
  <2>4. ASSUME Stopping
        PROVE  driver'[t].generation = driver[t].generation /\ (Live(t)' => Live(t))
    BY <2>4, StoppingFields DEF Live
  <2>5. ASSUME NEW w \in Workers, Crash(w)
        PROVE  driver'[t].generation = driver[t].generation /\ (Live(t)' => Live(t))
    BY <2>5, CrashFields DEF Live
  <2>6. ASSUME Tick
        PROVE  driver'[t].generation = driver[t].generation /\ (Live(t)' => Live(t))
    <3>1. /\ driver'[t].generation = driver[t].generation
          /\ driver'[t].phase = driver[t].phase /\ driver'[t].left = Less(driver[t].left)
      BY <2>6, TickFields
    <3> QED BY <3>1, Numbers DEF Live, Less
  <2>7. ASSUME Reading
        PROVE  driver'[t].generation = driver[t].generation /\ (Live(t)' => Live(t))
    BY <2>7 DEF Reading, rows, Live
  <2>8. Same \/ Ends \/ Begins
    <3> HIDE DEF Same, Ends, Begins
    <3> QED BY <2>1, <2>2, <2>3, <2>4, <2>5, <2>6, <2>7, Kinds
  <2> HIDE DEF Same, Ends, Begins
  <2> QED BY <2>0, <2>8
<1> QED BY <1>1, <1>2, TypeCorrect, PTL DEF Spec, ImplementsRunFence

\* What a live run relies on, in one statement: types, receipts that end with
\* the lease of their generation, and dispatches inside it (RunLease).
THEOREM LeaseSafe == Spec => []LeaseKept
  BY TypeCorrect, ReceiptSafe, DispatchSafe, PTL DEF LeaseKept

\* Recovery erases no marker and replays no generation that dispatched work
\* (recover_expired_driver_records, resume_reserved_prompts).
THEOREM RecoverySafe == Spec => RecoveredOnce
  BY MarkersSafe, ReplaySafe DEF RecoveredOnce
=============================================================================
