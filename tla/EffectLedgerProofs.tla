------------------------- MODULE EffectLedgerProofs -------------------------
(***************************************************************************)
(* Proofs about EffectLedger: for every lease length, number of claims,    *)
(* runs, reconciliation attempts and recovery failures.                    *)
(***************************************************************************)
EXTENDS EffectLedger, FiniteSetTheorems, TLAPS

-----------------------------------------------------------------------------
(* What one worker's move and one row's writes do. *)

\* The claim record of every write is well typed.
LEMMA ClaimTypes ==
  ASSUME TypeOK
  PROVE  /\ claim.generation \in {0} \cup Claims /\ claim.kind \in Kinds
         /\ claim.left \in 0 .. EffectLease
         /\ \A c \in Claims, k \in Kinds : [generation |-> c, kind |-> k, left |-> EffectLease] \in Claim
         /\ [generation |-> claim.generation, kind |-> "none", left |-> 0] \in Claim
         /\ \A n \in 0 .. EffectLease : [claim EXCEPT !.left = n] \in Claim
  BY LedgerAssumption DEF TypeOK, Claim, Kinds

LEMMA ClaimFields ==
  ASSUME TypeOK, NEW n
  PROVE  /\ [claim EXCEPT !.left = n].generation = claim.generation
         /\ [claim EXCEPT !.left = n].kind = claim.kind
         /\ [claim EXCEPT !.left = n].left = n
  BY DEF TypeOK, Claim

\* Move changes where one worker stands and nothing else.
LEMMA MoveEffect ==
  ASSUME TypeOK, NEW c \in Claims, NEW a, Move(c, a),
         a \in {"none", "claimed", "submitted", "checked", "refused", "abandon", "park", "query", "gone"}
  PROVE  /\ worker' \in [Claims -> Worker]
         /\ worker'[c].at = a /\ worker'[c].kind = worker[c].kind /\ worker'[c].run = worker[c].run
         /\ \A d \in Claims \ {c} : worker'[d] = worker[d]
<1>1. worker[c] \in Worker
  BY DEF TypeOK
<1>2. [worker[c] EXCEPT !.at = a] \in Worker
  BY <1>1 DEF Worker
<1>3. /\ [worker[c] EXCEPT !.at = a].at = a
      /\ [worker[c] EXCEPT !.at = a].kind = worker[c].kind
      /\ [worker[c] EXCEPT !.at = a].run = worker[c].run
  BY <1>1 DEF Worker
<1>4. DEFINE w == [worker[c] EXCEPT !.at = a]
<1> HIDE DEF w
<1>5. worker' = [worker EXCEPT ![c] = w]
  BY DEF Move, w
<1>6. w \in Worker /\ w.at = a /\ w.kind = worker[c].kind /\ w.run = worker[c].run
  BY <1>2, <1>3 DEF w
<1> QED BY <1>5, <1>6 DEF TypeOK

\* A new claim publishes one worker.
LEMMA ClaimEffect ==
  ASSUME TypeOK, NEW c \in Claims, NEW k \in Kinds,
         worker' = [worker EXCEPT ![c] = [kind |-> k, run |-> origin, at |-> "claimed"]]
  PROVE  /\ worker' \in [Claims -> Worker]
         /\ worker'[c].at = "claimed" /\ worker'[c].kind = k /\ worker'[c].run = origin
         /\ \A d \in Claims \ {c} : worker'[d] = worker[d]
<1>1. [kind |-> k, run |-> origin, at |-> "claimed"] \in Worker
  BY DEF TypeOK, Worker
<1> QED BY <1>1 DEF TypeOK

-----------------------------------------------------------------------------
(* The kinds of steps. *)

\* A worker of the given kind moves; row and run stay.
Moving(c, kind, to) ==
  /\ worker[c].kind = kind /\ worker[c].at # "gone"
  /\ Move(c, to)
  /\ UNCHANGED <<adapter, row, run, unsent>>

\* The steps of a dispatch worker that leave the row alone.
DispatchMove(c) ==
  \/ Moving(c, "dispatch", "checked") /\ worker[c].at = "submitted" /\ UNCHANGED <<senders, queries>>
  \/ Moving(c, "dispatch", "refused") /\ UNCHANGED <<senders, queries>>
  \/ Moving(c, "dispatch", "gone") /\ UNCHANGED <<senders, queries>>
  \/ /\ Moving(c, "dispatch", "submitted") /\ worker[c].at = "checked"
     /\ senders' = senders \cup {c} /\ UNCHANGED queries

\* The steps of a recovery worker that leave the row alone.
RecoveryMove(c) ==
  \/ Moving(c, "reconcile", "gone") /\ UNCHANGED <<senders, queries>>
  \/ /\ worker[c].at = "claimed" /\ Moving(c, "reconcile", Branch)
     /\ queries' = IF Branch = "query" THEN queries + 1 ELSE queries
     /\ UNCHANGED senders

\* The holder of a claim gives it up and leaves the row in state s.
GivesUp(c, s) ==
  /\ Holding(c) /\ worker[c].kind # "none" /\ worker[c].at # "gone"
  /\ state' = s
  /\ Release
  /\ Move(c, "gone")
  /\ UNCHANGED <<adapter, origin, attempts, reconciles, run, senders, queries>>
  /\ \/ /\ state = "prepared" /\ s = "prepared" /\ UNCHANGED unsent
     \/ s \notin {"absent", "prepared"} /\ UNCHANGED unsent
     \/ /\ s = "failed" /\ unsent' = TRUE
        /\ \/ /\ worker[c].kind = "dispatch" /\ c \notin senders /\ state # "prepared"
              /\ worker[c].at \in {"submitted", "refused"}
           \/ worker[c].at = "abandon" /\ worker[c].kind = "reconcile"

\* Neither the workers nor who holds the claim change.
Holds ==
  /\ claim'.generation = claim.generation /\ claim'.kind = claim.kind
  /\ \/ state' = state
     \/ state \notin Terminal \cup {"absent", "prepared"} /\ state' = "accepted"
     \/ state = "manual_review" /\ state' = "failed"
  /\ UNCHANGED <<adapter, origin, attempts, reconciles, worker, hist>>
  /\ \/ UNCHANGED run
     \/ Run!Begin
     \/ Run!End

\* Every step is of one of these kinds, or a claim, a submission or a (re)binding.
LEMMA StepKinds ==
  ASSUME TypeOK, [Next]_vars
  PROVE  \/ Prepare \/ ClaimForDispatch \/ ClaimForReconcile
         \/ \E c \in Claims : \/ \E acknowledged \in BOOLEAN : Submit(c, acknowledged)
                              \/ DispatchMove(c) \/ RecoveryMove(c)
                              \/ \E s \in States : GivesUp(c, s)
         \/ Holds
<1>1. ASSUME NEW c \in Claims, DispatchStep(c)
      PROVE  \/ \E acknowledged \in BOOLEAN : Submit(c, acknowledged)
             \/ DispatchMove(c) \/ (\E s \in States : GivesUp(c, s)) \/ Holds
  <2>1. CASE Check(c)
    BY <2>1 DEF Check, DispatchMove, Moving, Active, At, hist
  <2>2. CASE Refuse(c)
    BY <2>2 DEF Refuse, DispatchMove, Moving, Active, At, hist
  <2>3. CASE Send(c)
    BY <2>3 DEF Send, DispatchMove, Moving, Active, At
  <2>4. CASE Renew(c)
    <3>1. claim' = [claim EXCEPT !.left = EffectLease]
      BY <2>4 DEF Renew
    <3>2. claim'.generation = claim.generation /\ claim'.kind = claim.kind
      BY <3>1, ClaimFields
    <3> QED BY <2>4, <3>2 DEF Renew, Holds, run, hist
  <2>5. ASSUME NEW given \in BOOLEAN, RecordAccepted(c, given) PROVE Holds
    BY <2>5 DEF RecordAccepted, Holds, run, hist, Terminal
  <2>6. ASSUME NEW given \in BOOLEAN, RecordUnknown(c, given) PROVE \E s \in States : GivesUp(c, s)
    <3>1. GivesUp(c, "outcome_unknown")
      BY <2>6 DEF RecordUnknown, GivesUp, Active, At, run, hist, Terminal
    <3> QED BY <3>1 DEF States, InFlight
  <2>7. CASE Abandon(c)
    <3>1. GivesUp(c, "prepared")
      BY <2>7 DEF Abandon, GivesUp, Active, At, run, hist
    <3> QED BY <3>1 DEF States
  <2>8. ASSUME NEW outcome \in {"succeeded", "failed"}, SettleDispatch(c, outcome)
        PROVE  \E s \in States : GivesUp(c, s)
    <3>1. GivesUp(c, outcome)
      BY <2>8 DEF SettleDispatch, Settle, GivesUp, Active, At, run, hist, Terminal
    <3> QED BY <3>1 DEF States, Terminal
  <2>9. CASE SettleUnsent(c)
    <3>1. GivesUp(c, "failed")
      BY <2>9 DEF SettleUnsent, Settle, GivesUp, Active, At, run, Terminal
    <3> QED BY <3>1 DEF States, Terminal
  <2>10. CASE WorkerEnds(c)
    BY <2>10 DEF WorkerEnds, DispatchMove, Moving, Active, hist
  <2> QED BY <1>1, <2>1, <2>2, <2>3, <2>4, <2>5, <2>6, <2>7, <2>8, <2>9, <2>10 DEF DispatchStep
<1>2. ASSUME NEW c \in Claims, RecoveryStep(c) \/ RecoveryDies(c)
      PROVE  RecoveryMove(c) \/ (\E s \in States : GivesUp(c, s))
  <2>1. CASE ReadSnapshot(c)
    BY <2>1 DEF ReadSnapshot, RecoveryMove, Moving, Active, At
  <2>2. ASSUME NEW outcome \in Terminal, SettleReconcile(c, outcome)
        PROVE  \E s \in States : GivesUp(c, s)
    <3>1. outcome \in States /\ outcome \notin {"absent", "prepared"}
      BY DEF States, Terminal
    <3>2. worker[c].at = "abandon" => outcome = "failed"
      BY <2>2 DEF SettleReconcile, Outcomes
    <3>3. GivesUp(c, outcome)
      <4>1. CASE worker[c].at = "abandon"
        BY <4>1, <3>1, <3>2, <2>2 DEF SettleReconcile, Settle, GivesUp, Active, At, run
      <4>2. CASE worker[c].at # "abandon"
        <5>1. unsent' = unsent
          BY <4>2, <2>2 DEF SettleReconcile, At, TypeOK
        <5> QED BY <4>2, <5>1, <3>1, <2>2 DEF SettleReconcile, Settle, GivesUp, Active, run
      <4> QED BY <4>1, <4>2
    <3> QED BY <3>1, <3>3
  <2>3. ASSUME NEW next \in {"accepted", "outcome_unknown"}, NEW given \in BOOLEAN,
               NEW delay \in 1 .. MaxDelay, Defer(c, next, given, delay)
        PROVE  \E s \in States : GivesUp(c, s)
    <3>1. GivesUp(c, next)
      BY <2>3 DEF Defer, GivesUp, Active, At, run, hist, Terminal
    <3> QED BY <3>1 DEF States, InFlight
  <2>4. CASE FencedOut(c)
    BY <2>4 DEF FencedOut, RecoveryMove, Moving, Active, hist
  <2>5. CASE RecoveryDies(c)
    BY <2>5 DEF RecoveryDies, RecoveryMove, Moving, Active, hist
  <2> QED BY <1>2, <2>1, <2>2, <2>3, <2>4, <2>5 DEF RecoveryStep
<1>3. CASE Acknowledge
  BY <1>3 DEF Acknowledge, Holds, run, hist
<1>4. CASE Tick
  <2>1. claim' = [claim EXCEPT !.left = Less(claim.left)]
    BY <1>4 DEF Tick
  <2>2. claim'.generation = claim.generation /\ claim'.kind = claim.kind
    BY <2>1, ClaimFields
  <2> QED BY <1>4, <2>2 DEF Tick, Holds, run, hist
<1>5. CASE RunBegins
  BY <1>5 DEF RunBegins, Holds, row, hist
<1>6. CASE RunEnds
  BY <1>6 DEF RunEnds, Holds, row, hist
<1>7. CASE UNCHANGED vars
  BY <1>7 DEF vars, Holds, run, hist
<1> QED BY <1>1, <1>2, <1>3, <1>4, <1>5, <1>6, <1>7 DEF Next

-----------------------------------------------------------------------------
(* Type correctness. *)

LEMMA TypeStep == TypeOK /\ [Next]_vars => TypeOK'
<1> SUFFICES ASSUME TypeOK, [Next]_vars PROVE TypeOK'
  OBVIOUS
<1> USE LedgerAssumption
<1>a. "none" \in Kinds /\ "dispatch" \in Kinds /\ "reconcile" \in Kinds
  BY DEF Kinds
<1>b. {"prepared", "submitting", "accepted", "outcome_unknown", "succeeded", "failed", "manual_review"}
        \subseteq States /\ Terminal \subseteq States
  BY DEF States, InFlight, Terminal
<1>c. \A n \in Nat : \A k \in 0 .. n : Less(k) \in 0 .. n
  BY DEF Less
<1>d. 0 \in 0 .. MaxDelay /\ Claims \in SUBSET Nat
  BY DEF Claims
<1>1. CASE Prepare
  BY <1>1, <1>b DEF Prepare, TypeOK, run, hist
<1>2. CASE ClaimForDispatch
  <2>1. claim.generation + 1 \in Claims
    BY <1>2, ClaimTypes DEF ClaimForDispatch, Claims
  <2>2. claim' \in Claim
    BY <1>2, <2>1, <1>a, ClaimTypes DEF ClaimForDispatch
  <2>3. worker' \in [Claims -> Worker]
    BY <1>2, <2>1, <1>a, ClaimEffect DEF ClaimForDispatch
  <2> QED BY <1>2, <2>2, <2>3 DEF ClaimForDispatch, TypeOK, run, hist
<1>3. CASE ClaimForReconcile
  <2>1. claim.generation + 1 \in Claims
    BY <1>3 DEF ClaimForReconcile, ClaimReconcile
  <2>2. claim' \in Claim
    BY <1>3, <2>1, <1>a, ClaimTypes DEF ClaimForReconcile, ClaimReconcile
  <2>3. worker' \in [Claims -> Worker]
    BY <1>3, <2>1, <1>a, ClaimEffect DEF ClaimForReconcile, ClaimReconcile
  <2> QED BY <1>3, <2>2, <2>3 DEF ClaimForReconcile, ClaimReconcile, TypeOK, run, hist
<1>4. ASSUME NEW c \in Claims, DispatchStep(c) PROVE TypeOK'
  <2>1. ASSUME NEW acknowledged \in BOOLEAN, Submit(c, acknowledged) PROVE TypeOK'
    <3>0. Move(c, IF acknowledged THEN "submitted" ELSE "refused")
      BY <2>1 DEF Submit
    <3>1. worker' \in [Claims -> Worker]
      <4>1. CASE acknowledged
        BY <3>0, <4>1, MoveEffect
      <4>2. CASE ~acknowledged
        BY <3>0, <4>2, MoveEffect
      <4> QED BY <4>1, <4>2
    <3>2. attempts' \in Nat
      BY <2>1 DEF Submit, TypeOK
    <3> QED BY <2>1, <3>1, <3>2, <1>b DEF Submit, TypeOK, run, hist
  <2>2. CASE Check(c)
    <3>1. worker' \in [Claims -> Worker]
      BY <2>2, MoveEffect DEF Check
    <3> QED BY <2>2, <3>1 DEF Check, TypeOK, row, run, hist
  <2>3. CASE Refuse(c)
    <3>1. worker' \in [Claims -> Worker]
      BY <2>3, MoveEffect DEF Refuse
    <3> QED BY <2>3, <3>1 DEF Refuse, TypeOK, row, run, hist
  <2>4. CASE Send(c)
    <3>1. worker' \in [Claims -> Worker]
      BY <2>4, MoveEffect DEF Send
    <3> QED BY <2>4, <3>1 DEF Send, TypeOK, row, run
  <2>5. CASE Renew(c)
    <3>1. claim' \in Claim
      BY <2>5, ClaimTypes DEF Renew
    <3> QED BY <2>5, <3>1 DEF Renew, TypeOK, run, hist
  <2>6. ASSUME NEW given \in BOOLEAN, RecordAccepted(c, given) PROVE TypeOK'
    BY <2>6, <1>b, <1>d DEF RecordAccepted, TypeOK, run, hist
  <2>7. ASSUME NEW given \in BOOLEAN, RecordUnknown(c, given) PROVE TypeOK'
    <3>1. worker' \in [Claims -> Worker]
      BY <2>7, MoveEffect DEF RecordUnknown
    <3>2. claim' \in Claim
      BY <2>7, ClaimTypes DEF RecordUnknown, Release
    <3>3. handle' \in BOOLEAN
      BY <2>7 DEF RecordUnknown, TypeOK
    <3> QED BY <2>7, <3>1, <3>2, <3>3, <1>b, <1>d DEF RecordUnknown, TypeOK, run, hist
  <2>8. CASE Abandon(c)
    <3>1. worker' \in [Claims -> Worker]
      BY <2>8, MoveEffect DEF Abandon
    <3>2. claim' \in Claim
      BY <2>8, ClaimTypes DEF Abandon, Release
    <3> QED BY <2>8, <3>1, <3>2 DEF Abandon, TypeOK, run, hist
  <2>9. ASSUME NEW outcome \in {"succeeded", "failed"}, SettleDispatch(c, outcome) PROVE TypeOK'
    <3>1. worker' \in [Claims -> Worker]
      BY <2>9, MoveEffect DEF SettleDispatch
    <3>2. claim' \in Claim
      BY <2>9, ClaimTypes DEF SettleDispatch, Settle, Release
    <3> QED BY <2>9, <3>1, <3>2, <1>b, <1>d DEF SettleDispatch, Settle, TypeOK, run, hist
  <2>10. CASE SettleUnsent(c)
    <3>1. worker' \in [Claims -> Worker]
      BY <2>10, MoveEffect DEF SettleUnsent
    <3>2. claim' \in Claim
      BY <2>10, ClaimTypes DEF SettleUnsent, Settle, Release
    <3> QED BY <2>10, <3>1, <3>2, <1>b, <1>d DEF SettleUnsent, Settle, TypeOK, run, hist
  <2>11. CASE WorkerEnds(c)
    <3>1. worker' \in [Claims -> Worker]
      BY <2>11, MoveEffect DEF WorkerEnds
    <3> QED BY <2>11, <3>1 DEF WorkerEnds, TypeOK, row, run, hist
  <2> QED BY <1>4, <2>1, <2>2, <2>3, <2>4, <2>5, <2>6, <2>7, <2>8, <2>9, <2>10, <2>11 DEF DispatchStep
<1>5. ASSUME NEW c \in Claims, RecoveryStep(c) \/ RecoveryDies(c) PROVE TypeOK'
  <2>1. CASE ReadSnapshot(c)
    <3>1. worker' \in [Claims -> Worker]
      BY <2>1, MoveEffect DEF ReadSnapshot, Branch
    <3> QED BY <2>1, <3>1 DEF ReadSnapshot, TypeOK, row, run
  <2>2. ASSUME NEW outcome \in Terminal, SettleReconcile(c, outcome) PROVE TypeOK'
    <3>1. worker' \in [Claims -> Worker]
      BY <2>2, MoveEffect DEF SettleReconcile
    <3>2. claim' \in Claim
      BY <2>2, ClaimTypes DEF SettleReconcile, Settle, Release
    <3>3. unsent' \in BOOLEAN
      BY <2>2 DEF SettleReconcile, At, TypeOK
    <3> QED BY <2>2, <3>1, <3>2, <3>3, <1>b, <1>d DEF SettleReconcile, Settle, TypeOK, run
  <2>3. ASSUME NEW next \in {"accepted", "outcome_unknown"}, NEW given \in BOOLEAN,
               NEW delay \in 1 .. MaxDelay, Defer(c, next, given, delay)
        PROVE  TypeOK'
    <3>1. worker' \in [Claims -> Worker]
      BY <2>3, MoveEffect DEF Defer
    <3>2. claim' \in Claim
      BY <2>3, ClaimTypes DEF Defer, Release
    <3>3. handle' \in BOOLEAN
      BY <2>3 DEF Defer, TypeOK
    <3> QED BY <2>3, <3>1, <3>2, <3>3, <1>b DEF Defer, TypeOK, run, hist
  <2>4. CASE FencedOut(c)
    <3>1. worker' \in [Claims -> Worker]
      BY <2>4, MoveEffect DEF FencedOut
    <3> QED BY <2>4, <3>1 DEF FencedOut, TypeOK, row, run, hist
  <2>5. CASE RecoveryDies(c)
    <3>1. worker' \in [Claims -> Worker]
      BY <2>5, MoveEffect DEF RecoveryDies
    <3> QED BY <2>5, <3>1 DEF RecoveryDies, TypeOK, row, run, hist
  <2> QED BY <1>5, <2>1, <2>2, <2>3, <2>4, <2>5 DEF RecoveryStep
<1>6. CASE Acknowledge
  BY <1>6, <1>b, <1>d DEF Acknowledge, TypeOK, run, hist
<1>7. CASE Tick
  <2>1. claim' \in Claim
    BY <1>7, <1>c, ClaimTypes DEF Tick
  <2>2. due' \in 0 .. MaxDelay /\ grace' \in 0 .. PreparedGrace
    BY <1>7, <1>c DEF Tick, TypeOK
  <2> QED BY <1>7, <2>1, <2>2 DEF Tick, TypeOK, run, hist
<1>8. CASE RunBegins
  BY <1>8 DEF RunBegins, Run!Begin, RunOf, TypeOK, row, hist
<1>9. CASE RunEnds
  BY <1>9 DEF RunEnds, Run!End, TypeOK, row, hist
<1>10. CASE UNCHANGED vars
  BY <1>10 DEF vars, TypeOK
<1> QED BY <1>1, <1>2, <1>3, <1>4, <1>5, <1>6, <1>7, <1>8, <1>9, <1>10 DEF Next

LEMMA InitTypes == Init => TypeOK
<1> SUFFICES ASSUME Init PROVE TypeOK
  OBVIOUS
<1>1. claim \in Claim
  BY LedgerAssumption DEF Init, Claim, Kinds
<1>2. NoWorker \in Worker
  BY LedgerAssumption DEF NoWorker, Worker, Kinds, RunOf
<1>3. generation = 0 /\ live \in BOOLEAN /\ handle \in BOOLEAN /\ unsent \in BOOLEAN
  BY Zenon DEF Init, Run!Init
<1>4. 0 \in RunOf /\ 0 \in Nat /\ 0 \in 0 .. MaxDelay /\ 0 \in 0 .. PreparedGrace /\ 0 \in 0 .. MaxFailures
  BY LedgerAssumption DEF RunOf
<1>5. worker \in [Claims -> Worker] /\ senders \in SUBSET Claims /\ state \in States
  BY <1>2 DEF Init, States
<1>6. origin = 0 /\ attempts = 0 /\ reconciles = 0 /\ due = 0 /\ grace = 0 /\ failures = 0 /\ queries = 0
      /\ adapter \in Adapters
  BY Zenon DEF Init
<1> QED BY <1>1, <1>3, <1>4, <1>5, <1>6 DEF TypeOK

\* The row, its claim and its workers keep their types.
THEOREM LedgerTypes == Spec => []TypeOK
  BY InitTypes, TypeStep, PTL DEF Spec

-----------------------------------------------------------------------------
(* The inductive invariant. *)

\* Claims that crossed the send boundary and may still send, or have sent.
Submitters == {c \in Claims : worker[c].at \in {"submitted", "checked"}} \cup senders

\* Claim generations are handed out in order.
Fresh == \A c \in Claims : c > claim.generation => worker[c].kind = "none" /\ c \notin Submitters

\* A row that does not look sent has no submitter; one submitter is counted.
Counted ==
  /\ state \in {"absent", "prepared"} => Submitters = {} /\ attempts = 0
  /\ Submitters # {} => attempts = 1

OneSubmitter == \A c, d \in Submitters : c = d

\* A dispatch worker that holds the claim of a row across the boundary is its
\* only possible submitter.
HolderSubmits == claim.kind = "dispatch" /\ state # "prepared" => Submitters \subseteq {claim.generation}

\* A claim belongs to the worker that got it, for the run of the row, and a
\* terminal row has none.
ClaimKnown ==
  claim.kind # "none" =>
    /\ claim.generation \in Claims
    /\ worker[claim.generation].kind = claim.kind
    /\ worker[claim.generation].run = origin
    /\ state \notin Terminal \cup {"absent"}

SubmitterRun == \A c \in Submitters : worker[c].run = origin

\* A recovery worker that still holds the claim of a row it found prepared
\* holds a prepared row.
AbandonTrue ==
  \A c \in Claims :
    worker[c].at = "abandon" /\ claim.generation = c /\ claim.kind = "reconcile" => state = "prepared"

UnsentFinal == unsent => Submitters = {} /\ state \in Terminal

OriginKnown == origin <= generation

SendInv  == Fresh /\ Counted /\ OneSubmitter /\ HolderSubmits /\ SubmitterRun
ClaimInv == ClaimKnown /\ AbandonTrue /\ UnsentFinal /\ OriginKnown /\ RecoveryAfterRun
LedgerInv == TypeOK /\ SendInv /\ ClaimInv

\* Who may send: only a submission adds to the submitters.
LEMMA MoveSubmitters ==
  ASSUME TypeOK, TypeOK', NEW c \in Claims, NEW a, Move(c, a),
         a \in {"none", "claimed", "submitted", "checked", "refused", "abandon", "park", "query", "gone"},
         a \in {"submitted", "checked"} => c \in Submitters,
         senders' \subseteq senders \cup {c}, senders' # senders => c \in Submitters
  PROVE  Submitters' \subseteq Submitters
<1>1. worker'[c].at = a /\ \A d \in Claims \ {c} : worker'[d] = worker[d]
  BY MoveEffect
<1> SUFFICES ASSUME NEW d \in Submitters' PROVE d \in Submitters
  OBVIOUS
<1>2. d \in Claims
  BY DEF Submitters, TypeOK
<1>3. CASE d = c
  BY <1>1, <1>3 DEF Submitters
<1>4. CASE d # c
  BY <1>1, <1>2, <1>4 DEF Submitters
<1> QED BY <1>3, <1>4

\* The moves of workers keep the invariant.
LEMMA MovingKeeps ==
  ASSUME LedgerInv, TypeOK', NEW c \in Claims, NEW k, NEW a, Moving(c, k, a),
         a \in {"submitted", "checked", "refused", "abandon", "park", "query", "gone"},
         k # "none", Submitters' \subseteq Submitters,
         a = "abandon" => state = "prepared"
  PROVE  SendInv' /\ ClaimInv'
<1>1. /\ worker'[c].at = a /\ worker'[c].kind = worker[c].kind /\ worker'[c].run = worker[c].run
      /\ \A d \in Claims \ {c} : worker'[d] = worker[d]
  BY MoveEffect DEF LedgerInv, Moving
<1>2. \A d \in Claims : worker'[d].kind = worker[d].kind /\ worker'[d].run = worker[d].run
  BY <1>1
<1>3. /\ UNCHANGED <<adapter, state, origin, attempts, claim, generation, live, unsent>>
  BY DEF Moving, row, run
<1>4. Submitters \subseteq Claims
  BY DEF LedgerInv, TypeOK, Submitters
<1>5. SendInv'
  BY <1>2, <1>3, <1>4 DEF LedgerInv, SendInv, Fresh, Counted, OneSubmitter, HolderSubmits, SubmitterRun
<1>6. AbandonTrue'
  BY <1>1, <1>3 DEF LedgerInv, ClaimInv, AbandonTrue
<1>7. ClaimKnown'
  BY <1>2, <1>3 DEF LedgerInv, ClaimInv, ClaimKnown
<1>8. UnsentFinal' /\ OriginKnown' /\ RecoveryAfterRun'
  BY <1>3 DEF LedgerInv, ClaimInv, UnsentFinal, OriginKnown, RecoveryAfterRun, Run!Holds
<1> QED BY <1>5, <1>6, <1>7, <1>8 DEF ClaimInv

LEMMA DispatchMoveKeeps ==
  ASSUME LedgerInv, TypeOK', NEW c \in Claims, DispatchMove(c)
  PROVE  SendInv' /\ ClaimInv'
<1>0. TypeOK
  BY DEF LedgerInv
<1>1. PICK a \in {"submitted", "checked", "refused", "gone"} :
        /\ Moving(c, "dispatch", a)
        /\ a \in {"submitted", "checked"} => c \in Submitters
        /\ senders' \subseteq senders \cup {c} /\ (senders' # senders => c \in Submitters)
  BY DEF DispatchMove, Submitters
<1>2. Submitters' \subseteq Submitters
  BY <1>0, <1>1, MoveSubmitters DEF Moving
<1> QED BY <1>1, <1>2, MovingKeeps

LEMMA RecoveryMoveKeeps ==
  ASSUME LedgerInv, TypeOK', NEW c \in Claims, RecoveryMove(c)
  PROVE  SendInv' /\ ClaimInv'
<1>0. TypeOK
  BY DEF LedgerInv
<1>a. Branch \in {"abandon", "park", "query"} /\ (Branch = "abandon" => state = "prepared")
  BY DEF Branch
<1>1. PICK a \in {"abandon", "park", "query", "gone"} :
        /\ Moving(c, "reconcile", a) /\ senders' = senders
        /\ a = "abandon" => state = "prepared"
  BY <1>a DEF RecoveryMove
<1>2. Submitters' \subseteq Submitters
  BY <1>0, <1>1, MoveSubmitters DEF Moving
<1> QED BY <1>1, <1>2, MovingKeeps

\* Steps that keep workers and claim keep the invariant; a new run is not the
\* run of the row.
LEMMA HoldsKeeps ==
  ASSUME LedgerInv, TypeOK', Holds
  PROVE  SendInv' /\ ClaimInv'
<1>1. /\ claim'.generation = claim.generation /\ claim'.kind = claim.kind
      /\ UNCHANGED <<adapter, origin, attempts, reconciles, worker, senders, unsent, queries>>
  BY DEF Holds, hist
<1>2. Submitters' = Submitters
  BY <1>1 DEF Submitters
<1>3. \/ state' = state
      \/ state \notin Terminal \cup {"absent", "prepared"} /\ state' = "accepted"
      \/ state = "manual_review" /\ state' = "failed"
  BY DEF Holds
<1>4. SendInv'
  BY <1>1, <1>2, <1>3 DEF LedgerInv, SendInv, Fresh, Counted, OneSubmitter, HolderSubmits,
                          SubmitterRun, ClaimInv, ClaimKnown, Terminal
<1>5. ClaimKnown' /\ AbandonTrue' /\ UnsentFinal'
  BY <1>1, <1>2, <1>3 DEF LedgerInv, ClaimInv, ClaimKnown, AbandonTrue, UnsentFinal, Terminal
<1>6. /\ origin \in Nat /\ generation \in Nat /\ generation' \in Nat
      /\ origin <= generation
  BY LedgerAssumption DEF LedgerInv, TypeOK, RunOf, ClaimInv, OriginKnown
<1>7. \/ UNCHANGED <<generation, live>> \/ Run!Begin \/ Run!End
  BY DEF Holds, run
<1>8. OriginKnown'
  BY <1>1, <1>6, <1>7 DEF OriginKnown, Run!Begin, Run!End
<1>9. RecoveryAfterRun'
  <2>1. CASE Run!Begin
    <3>1. generation' = generation + 1
      BY <2>1 DEF Run!Begin
    <3>2. generation' # origin
      BY <1>6, <3>1
    <3> QED BY <1>1, <3>2 DEF RecoveryAfterRun, Run!Holds
  <2>2. CASE Run!End
    <3>1. live' = FALSE
      BY <2>2, Zenon DEF Run!End
    <3> QED BY <1>1, <3>1 DEF RecoveryAfterRun, Run!Holds
  <2>3. CASE UNCHANGED <<generation, live>>
    BY <1>1, <2>3 DEF LedgerInv, ClaimInv, RecoveryAfterRun, Run!Holds
  <2> QED BY <1>7, <2>1, <2>2, <2>3
<1> QED BY <1>4, <1>5, <1>8, <1>9 DEF ClaimInv

\* Giving a claim up keeps the invariant: nobody is left who could send on a
\* row that goes back to prepared or that is recorded as not sent.
LEMMA GivesUpKeeps ==
  ASSUME LedgerInv, TypeOK', NEW c \in Claims, NEW s \in States, GivesUp(c, s)
  PROVE  SendInv' /\ ClaimInv'
<1>0. TypeOK
  BY DEF LedgerInv
<1>1. /\ Holding(c) /\ worker[c].kind # "none" /\ Move(c, "gone")
      /\ state' = s
      /\ UNCHANGED <<adapter, origin, attempts, reconciles, generation, live, senders, queries>>
  BY DEF GivesUp, run
<1>2. /\ worker'[c].at = "gone" /\ worker'[c].kind = worker[c].kind /\ worker'[c].run = worker[c].run
      /\ \A d \in Claims \ {c} : worker'[d] = worker[d]
  BY <1>0, <1>1, MoveEffect
<1>3. claim'.generation = claim.generation /\ claim'.kind = "none"
  BY DEF GivesUp, Release
<1>4. claim.generation = c /\ claim.kind = worker[c].kind /\ claim.kind # "none"
  BY <1>1 DEF Holding
<1>5. Submitters' \subseteq Submitters
  BY <1>0, <1>1, MoveSubmitters
<1>6. Submitters \subseteq Claims
  BY <1>0 DEF TypeOK, Submitters
<1>7. \A d \in Claims : worker'[d].kind = worker[d].kind /\ worker'[d].run = worker[d].run
  BY <1>2
<1>8. /\ s \in {"absent", "prepared"} => state = "prepared" /\ s = "prepared"
      /\ state \notin Terminal \cup {"absent"}
  BY <1>4 DEF GivesUp, LedgerInv, ClaimInv, ClaimKnown
<1>9. SendInv'
  <2>1. Fresh'
    BY <1>3, <1>5, <1>7 DEF LedgerInv, SendInv, Fresh
  <2>2. Counted'
    BY <1>1, <1>5, <1>8 DEF LedgerInv, SendInv, Counted
  <2>3. OneSubmitter' /\ SubmitterRun'
    BY <1>1, <1>5, <1>6, <1>7 DEF LedgerInv, SendInv, OneSubmitter, SubmitterRun
  <2>4. HolderSubmits'
    BY <1>3 DEF HolderSubmits
  <2> QED BY <2>1, <2>2, <2>3, <2>4 DEF SendInv
<1>10. ClaimKnown' /\ AbandonTrue' /\ RecoveryAfterRun'
  BY <1>3 DEF ClaimKnown, AbandonTrue, RecoveryAfterRun
<1>11. OriginKnown'
  BY <1>1 DEF LedgerInv, ClaimInv, OriginKnown
<1>12. UnsentFinal'
  <2>1. CASE unsent' = unsent
    <3>1. ~unsent
      BY <1>8 DEF LedgerInv, ClaimInv, UnsentFinal
    <3> QED BY <2>1, <3>1 DEF UnsentFinal
  <2>2. ASSUME s = "failed",
               \/ /\ worker[c].kind = "dispatch" /\ c \notin senders /\ state # "prepared"
                  /\ worker[c].at \in {"submitted", "refused"}
               \/ worker[c].at = "abandon" /\ worker[c].kind = "reconcile"
        PROVE  UnsentFinal'
    <3>1. CASE worker[c].kind = "dispatch" /\ c \notin senders /\ state # "prepared"
      <4>1. Submitters \subseteq {c}
        BY <3>1, <1>4 DEF LedgerInv, SendInv, HolderSubmits
      <4>2. c \notin Submitters'
        BY <3>1, <1>1, <1>2 DEF Submitters
      <4>3. Submitters' = {}
        BY <4>1, <4>2, <1>5
      <4> QED BY <4>3, <2>2, <1>1 DEF UnsentFinal, Terminal
    <3>2. CASE worker[c].at = "abandon" /\ worker[c].kind = "reconcile"
      <4>1. state = "prepared"
        BY <3>2, <1>4 DEF LedgerInv, ClaimInv, AbandonTrue
      <4>2. Submitters = {}
        BY <4>1 DEF LedgerInv, SendInv, Counted
      <4>3. Submitters' = {}
        BY <4>2, <1>5
      <4> QED BY <4>3, <2>2, <1>1 DEF UnsentFinal, Terminal
    <3> QED BY <2>2, <3>1, <3>2
  <2> QED BY <2>1, <2>2 DEF GivesUp
<1> QED BY <1>9, <1>10, <1>11, <1>12 DEF ClaimInv

\* The one step that adds a submitter finds none before it.
LEMMA SubmitKeeps ==
  ASSUME LedgerInv, TypeOK', NEW c \in Claims, NEW acknowledged \in BOOLEAN, Submit(c, acknowledged)
  PROVE  SendInv' /\ ClaimInv'
<1>0. TypeOK
  BY DEF LedgerInv
<1>1. /\ worker[c].kind = "dispatch" /\ claim.generation = c /\ claim.kind = "dispatch"
      /\ state = "prepared" /\ state' = "submitting" /\ attempts' = attempts + 1
      /\ Move(c, IF acknowledged THEN "submitted" ELSE "refused")
      /\ UNCHANGED <<adapter, origin, claim, generation, live, senders, unsent>>
  BY DEF Submit, Active, Holding, run, hist
<1>2. PICK a \in {"submitted", "refused"} : Move(c, a)
  <2>1. CASE acknowledged
    BY <1>1, <2>1
  <2>2. CASE ~acknowledged
    BY <1>1, <2>2
  <2> QED BY <2>1, <2>2
<1>3. /\ worker'[c].at = a /\ worker'[c].kind = worker[c].kind /\ worker'[c].run = worker[c].run
      /\ \A d \in Claims \ {c} : worker'[d] = worker[d]
  BY <1>0, <1>2, MoveEffect
<1>4. \A d \in Claims : worker'[d].kind = worker[d].kind /\ worker'[d].run = worker[d].run
  BY <1>3
<1>5. Submitters = {} /\ attempts = 0
  BY <1>1 DEF LedgerInv, SendInv, Counted
<1>6. Submitters' \subseteq {c}
  <2> SUFFICES ASSUME NEW d \in Submitters' PROVE d = c
    OBVIOUS
  <2>1. d \in Claims /\ senders' = senders
    BY <1>1 DEF Submitters, TypeOK
  <2>2. d # c => d \in Submitters
    BY <2>1, <1>3 DEF Submitters
  <2> QED BY <2>2, <1>5
<1>7. Fresh'
  <2>1. claim.generation \in Nat
    BY <1>0, <1>1 DEF Claims
  <2> QED BY <1>1, <1>4, <1>6, <2>1 DEF LedgerInv, SendInv, Fresh
<1>8. Counted' /\ OneSubmitter' /\ HolderSubmits'
  BY <1>1, <1>5, <1>6 DEF Counted, OneSubmitter, HolderSubmits
<1>9. SubmitterRun'
  <2>1. worker[c].run = origin
    BY <1>1 DEF LedgerInv, ClaimInv, ClaimKnown
  <2> QED BY <1>1, <1>4, <1>6, <2>1 DEF SubmitterRun
<1>10. ClaimKnown' /\ AbandonTrue'
  BY <1>1, <1>4 DEF LedgerInv, ClaimInv, ClaimKnown, AbandonTrue, Terminal
<1>11. UnsentFinal' /\ OriginKnown' /\ RecoveryAfterRun'
  BY <1>1 DEF LedgerInv, ClaimInv, UnsentFinal, OriginKnown, RecoveryAfterRun, Run!Holds, Terminal
<1> QED BY <1>7, <1>8, <1>9, <1>10, <1>11 DEF SendInv, ClaimInv

\* A claim goes to a worker that did not exist before.
LEMMA ClaimKeeps ==
  ASSUME LedgerInv, TypeOK', NEW k \in {"dispatch", "reconcile"}, claim.generation + 1 \in Claims,
         claim' = [generation |-> claim.generation + 1, kind |-> k, left |-> EffectLease],
         worker' = [worker EXCEPT ![claim.generation + 1] =
                      [kind |-> k, run |-> origin, at |-> "claimed"]],
         UNCHANGED <<adapter, state, origin, attempts, generation, live, senders, unsent>>,
         state \notin Terminal \cup {"absent"},
         k = "dispatch" => state = "prepared",
         k = "reconcile" => ~Run!Holds(origin)
  PROVE  SendInv' /\ ClaimInv'
<1>0. TypeOK
  BY DEF LedgerInv
<1> DEFINE c == claim.generation + 1
<1>1. c \in Claims /\ claim'.generation = c /\ claim'.kind = k /\ claim.generation \in Nat
  BY <1>0, ClaimTypes DEF Claims
<1>2. /\ worker'[c].at = "claimed" /\ worker'[c].kind = k /\ worker'[c].run = origin
      /\ \A d \in Claims \ {c} : worker'[d] = worker[d]
  BY <1>0, <1>1, ClaimEffect DEF Kinds
<1> HIDE DEF c
<1>3. c > claim.generation /\ \A d \in Claims : d > c => d > claim.generation
  BY <1>1 DEF c, Claims
<1>4. Submitters' \subseteq Submitters /\ c \notin Submitters
  <2>1. c \notin Submitters
    BY <1>1, <1>3 DEF LedgerInv, SendInv, Fresh
  <2> SUFFICES ASSUME NEW d \in Submitters' PROVE d \in Submitters
    BY <2>1
  <2>2. d \in Claims
    BY <1>0 DEF Submitters, TypeOK
  <2>3. CASE d = c
    BY <2>3, <1>2, <2>1 DEF Submitters
  <2>4. CASE d # c
    BY <2>2, <2>4, <1>2 DEF Submitters
  <2> QED BY <2>3, <2>4
<1>5. Submitters \subseteq Claims
  BY <1>0 DEF TypeOK, Submitters
<1>6. Fresh'
  <2> SUFFICES ASSUME NEW d \in Claims, d > c PROVE worker'[d].kind = "none" /\ d \notin Submitters'
    BY <1>1 DEF Fresh
  <2>1. d # c /\ d > claim.generation
    BY <1>3, <1>1 DEF Claims
  <2> QED BY <2>1, <1>2, <1>4 DEF LedgerInv, SendInv, Fresh
<1>7. Counted' /\ OneSubmitter' /\ SubmitterRun'
  BY <1>2, <1>4, <1>5 DEF LedgerInv, SendInv, Counted, OneSubmitter, SubmitterRun
<1>8. HolderSubmits'
  BY <1>1 DEF HolderSubmits
<1>9. ClaimKnown'
  BY <1>1, <1>2 DEF ClaimKnown
<1>10. AbandonTrue'
  BY <1>1, <1>2 DEF AbandonTrue
<1>11. UnsentFinal' /\ OriginKnown'
  BY <1>4 DEF LedgerInv, ClaimInv, UnsentFinal, OriginKnown
<1>12. RecoveryAfterRun'
  BY <1>1 DEF RecoveryAfterRun, Run!Holds
<1> QED BY <1>6, <1>7, <1>8, <1>9, <1>10, <1>11, <1>12 DEF SendInv, ClaimInv

\* Creating the row, or moving it to another run: no claim, no submitter.
LEMMA PrepareKeeps ==
  ASSUME LedgerInv, TypeOK', Prepare
  PROVE  SendInv' /\ ClaimInv'
<1>0. TypeOK
  BY DEF LedgerInv
<1>1. /\ state \in {"absent", "prepared"} /\ state' = "prepared" /\ origin' = generation
      /\ UNCHANGED <<adapter, attempts, claim, worker, generation, live, senders, unsent>>
  BY DEF Prepare, Rebindable, run, hist
<1>2. claim.kind = "none"
  BY DEF Prepare, Rebindable, LedgerInv, ClaimInv, ClaimKnown
<1>3. Submitters' = Submitters /\ Submitters = {}
  BY <1>1 DEF Submitters, LedgerInv, SendInv, Counted
<1>4. SendInv'
  BY <1>1, <1>2, <1>3 DEF LedgerInv, SendInv, Fresh, Counted, OneSubmitter, HolderSubmits, SubmitterRun
<1>5. ClaimKnown' /\ AbandonTrue' /\ RecoveryAfterRun'
  BY <1>1, <1>2 DEF ClaimKnown, AbandonTrue, RecoveryAfterRun
<1>6. UnsentFinal'
  BY <1>1 DEF LedgerInv, ClaimInv, UnsentFinal, Terminal
<1>7. OriginKnown'
  BY <1>0, <1>1, LedgerAssumption DEF OriginKnown, TypeOK, RunOf
<1> QED BY <1>4, <1>5, <1>6, <1>7 DEF ClaimInv

LEMMA LedgerStep == LedgerInv /\ [Next]_vars => LedgerInv'
<1> SUFFICES ASSUME LedgerInv, [Next]_vars PROVE LedgerInv'
  OBVIOUS
<1>0. TypeOK /\ TypeOK'
  BY TypeStep DEF LedgerInv
<1>1. CASE Prepare
  BY <1>0, <1>1, PrepareKeeps DEF LedgerInv
<1>2. CASE ClaimForDispatch
  <2>1. claim.generation + 1 \in Claims
    BY <1>0, <1>2, LedgerAssumption, ClaimTypes DEF ClaimForDispatch, Claims
  <2>2. SendInv' /\ ClaimInv'
    BY <1>0, <1>2, <2>1, ClaimKeeps DEF ClaimForDispatch, run, hist, Terminal
  <2> QED BY <1>0, <2>2 DEF LedgerInv
<1>3. CASE ClaimForReconcile
  <2>1. SendInv' /\ ClaimInv'
    BY <1>0, <1>3, ClaimKeeps DEF ClaimForReconcile, ClaimReconcile, run, hist
  <2> QED BY <1>0, <2>1 DEF LedgerInv
<1>4. ASSUME NEW c \in Claims, NEW acknowledged \in BOOLEAN, Submit(c, acknowledged)
      PROVE  SendInv' /\ ClaimInv'
  BY <1>0, <1>4, SubmitKeeps
<1>5. ASSUME NEW c \in Claims, DispatchMove(c) PROVE SendInv' /\ ClaimInv'
  BY <1>0, <1>5, DispatchMoveKeeps
<1>6. ASSUME NEW c \in Claims, RecoveryMove(c) PROVE SendInv' /\ ClaimInv'
  BY <1>0, <1>6, RecoveryMoveKeeps
<1>7. ASSUME NEW c \in Claims, NEW s \in States, GivesUp(c, s) PROVE SendInv' /\ ClaimInv'
  BY <1>0, <1>7, GivesUpKeeps
<1>8. CASE Holds
  BY <1>0, <1>8, HoldsKeeps DEF LedgerInv
<1>9. SendInv' /\ ClaimInv'
  BY <1>0, <1>1, <1>2, <1>3, <1>4, <1>5, <1>6, <1>7, <1>8, StepKinds DEF LedgerInv
<1> QED BY <1>0, <1>9 DEF LedgerInv

LEMMA LedgerInit == Init => LedgerInv
<1> SUFFICES ASSUME Init PROVE LedgerInv
  OBVIOUS
<1>1. TypeOK
  BY InitTypes
<1>2. /\ state = "absent" /\ claim.generation = 0 /\ claim.kind = "none" /\ senders = {}
      /\ attempts = 0 /\ origin = 0
      /\ \A c \in Claims : worker[c].kind = "none" /\ worker[c].at = "none"
  BY DEF Init, NoWorker
<1>3. ~unsent /\ generation = 0
  BY Zenon DEF Init, Run!Init
<1>4. Submitters = {}
  BY <1>2 DEF Submitters
<1>5. SendInv
  BY <1>2, <1>4 DEF SendInv, Fresh, Counted, OneSubmitter, HolderSubmits, SubmitterRun
<1>6. ClaimInv
  BY <1>2, <1>3 DEF ClaimInv, ClaimKnown, AbandonTrue, UnsentFinal, OriginKnown, RecoveryAfterRun
<1> QED BY <1>1, <1>5, <1>6 DEF LedgerInv

LEMMA LedgerInvariance == Spec => []LedgerInv
  BY LedgerInit, LedgerStep, PTL DEF Spec

-----------------------------------------------------------------------------
(* The theorems. *)

\* One claim at most ever lets a request leave, and a row that was sent never
\* looks unsent.
THEOREM SentOnceSafe == Spec => []SentOnce
<1>1. LedgerInv => SentOnce
  BY DEF LedgerInv, SendInv, OneSubmitter, Counted, Submitters, SentOnce
<1> QED BY <1>1, LedgerInvariance, PTL

\* An effect recorded as not sent was not and will not be sent.
THEOREM UnsentSafe == Spec => []UnsentIsTrue
<1>1. LedgerInv => UnsentIsTrue
  BY DEF LedgerInv, ClaimInv, UnsentFinal, Submitters, UnsentIsTrue
<1> QED BY <1>1, LedgerInvariance, PTL

\* The row stays with the run whose worker sent it.
THEOREM OriginSafe == Spec => []SentByOrigin
<1>1. LedgerInv => SentByOrigin
  BY DEF LedgerInv, SendInv, SubmitterRun, Submitters, SentByOrigin
<1> QED BY <1>1, LedgerInvariance, PTL

\* Recovery holds a row only after the row's run is over.
THEOREM RecoverySafe == Spec => []RecoveryAfterRun
<1>1. LedgerInv => RecoveryAfterRun
  BY DEF LedgerInv, ClaimInv
<1> QED BY <1>1, LedgerInvariance, PTL

\* No step reopens a terminal row.
THEOREM TerminalSafe == Spec => TerminalKept
<1>1. LedgerInv /\ [Next]_vars => KeepsTerminal
  <2> SUFFICES ASSUME LedgerInv, [Next]_vars, state \in Terminal
               PROVE  /\ claim'.kind = "none" /\ claim'.generation = claim.generation
                      /\ state' # state => state = "manual_review" /\ state' = "failed"
    BY DEF KeepsTerminal
  <2>0. TypeOK /\ claim.kind = "none"
    BY DEF LedgerInv, ClaimInv, ClaimKnown
  <2>1. ~Prepare /\ ~ClaimForDispatch /\ ~ClaimForReconcile
    BY DEF Prepare, Rebindable, ClaimForDispatch, ClaimForReconcile, ClaimReconcile, Terminal
  <2>2. ASSUME NEW c \in Claims, DispatchMove(c) \/ RecoveryMove(c) PROVE UNCHANGED <<state, claim>>
    BY <2>2 DEF DispatchMove, RecoveryMove, Moving, row
  <2>3. ASSUME NEW c \in Claims, NEW acknowledged \in BOOLEAN, Submit(c, acknowledged) PROVE FALSE
    BY <2>3 DEF Submit, Terminal
  <2>4. ASSUME NEW c \in Claims, NEW s \in States, GivesUp(c, s) PROVE FALSE
    BY <2>0, <2>4 DEF GivesUp, Holding
  <2>5. CASE Holds
    BY <2>0, <2>5 DEF Holds, Terminal
  <2> QED BY <2>0, <2>1, <2>2, <2>3, <2>4, <2>5, StepKinds
<1> QED BY <1>1, LedgerInvariance, PTL DEF Spec, TerminalKept

-----------------------------------------------------------------------------
(* Reconciliation attempts. *)

\* Recovery workers that have claimed the row and not read it yet.
Unread == {c \in Claims : worker[c].kind = "reconcile" /\ worker[c].at = "claimed"}

\* Every call of the reconciler was paid for by a claim of its own.
QueriesPaid == queries + Cardinality(Unread) <= reconciles /\ QueriesBounded

LEMMA UnreadFinite ==
  ASSUME NEW S \in SUBSET Claims
  PROVE  /\ IsFiniteSet(S) /\ Cardinality(S) \in Nat
         /\ \A T \in SUBSET S : Cardinality(T) <= Cardinality(S)
<1>1. IsFiniteSet(Claims)
  <2>1. MaxDispatchClaims + MaxReconcile + MaxFailures + 1 \in Int /\ 1 \in Int
    BY LedgerAssumption
  <2> QED BY <2>1, FS_Interval DEF Claims
<1>2. IsFiniteSet(S)
  BY <1>1, FS_Subset
<1>3. \A T \in SUBSET S : Cardinality(T) <= Cardinality(S)
  BY <1>2, FS_Subset
<1> QED BY <1>2, <1>3, FS_CardinalityType

\* Where no worker becomes unread and no query is made.
LEMMA NoNewUnread ==
  ASSUME TypeOK, QueriesPaid, Unread' \subseteq Unread, UNCHANGED <<reconciles, queries>>
  PROVE  QueriesPaid'
<1>1. Unread \in SUBSET Claims /\ Unread' \in SUBSET Claims /\ Unread' \in SUBSET Unread
  BY DEF Unread
<1>2. Cardinality(Unread') <= Cardinality(Unread) /\ Cardinality(Unread') \in Nat /\ Cardinality(Unread) \in Nat
  BY <1>1, UnreadFinite
<1>3. queries \in Nat /\ reconciles \in Nat
  BY DEF TypeOK
<1> QED BY <1>2, <1>3 DEF QueriesPaid, QueriesBounded

\* Every way a worker moves takes it out of the unread.
LEMMA MoveUnread ==
  ASSUME TypeOK, NEW c \in Claims, NEW a, Move(c, a),
         a \in {"submitted", "checked", "refused", "abandon", "park", "query", "gone"}
  PROVE  Unread' \subseteq Unread \ {c}
<1>1. worker'[c].at = a /\ \A d \in Claims \ {c} : worker'[d] = worker[d]
  BY MoveEffect
<1> QED BY <1>1 DEF Unread

LEMMA QueriesStep == LedgerInv /\ QueriesPaid /\ [Next]_vars => QueriesPaid'
<1> SUFFICES ASSUME LedgerInv, QueriesPaid, [Next]_vars PROVE QueriesPaid'
  OBVIOUS
<1>0. TypeOK /\ queries \in Nat /\ reconciles \in Nat
  BY DEF LedgerInv, TypeOK
<1>a. Unread \in SUBSET Claims /\ Unread' \in SUBSET Claims
  BY DEF Unread
<1>b. IsFiniteSet(Unread) /\ Cardinality(Unread) \in Nat /\ Cardinality(Unread') \in Nat
  BY <1>a, UnreadFinite
<1>1. CASE Prepare
  BY <1>0, <1>1, NoNewUnread DEF Prepare, hist, Unread
<1>2. CASE ClaimForDispatch
  <2>1. claim.generation + 1 \in Claims
    BY <1>0, <1>2, LedgerAssumption, ClaimTypes DEF ClaimForDispatch, Claims
  <2>2. /\ worker'[claim.generation + 1].kind = "dispatch"
        /\ \A d \in Claims \ {claim.generation + 1} : worker'[d] = worker[d]
        /\ UNCHANGED <<reconciles, queries>>
    BY <1>0, <1>2, <2>1, ClaimEffect DEF ClaimForDispatch, Kinds, hist
  <2>3. Unread' \subseteq Unread
    BY <2>2 DEF Unread
  <2> QED BY <1>0, <2>2, <2>3, NoNewUnread
<1>3. CASE ClaimForReconcile
  <2> DEFINE c == claim.generation + 1
  <2>1. c \in Claims /\ reconciles' = reconciles + 1 /\ queries' = queries
    BY <1>3 DEF ClaimForReconcile, ClaimReconcile, hist
  <2>2. \A d \in Claims \ {c} : worker'[d] = worker[d]
    BY <1>0, <1>3, <2>1, ClaimEffect DEF ClaimForReconcile, ClaimReconcile, Kinds
  <2> HIDE DEF c
  <2>3. Unread' \subseteq Unread \cup {c} /\ Unread \cup {c} \in SUBSET Claims
    BY <2>1, <2>2 DEF Unread
  <2>4. Cardinality(Unread \cup {c}) <= Cardinality(Unread) + 1
    <3>1. Cardinality(Unread \cup {c}) = IF c \in Unread THEN Cardinality(Unread) ELSE Cardinality(Unread) + 1
      BY <1>b, FS_AddElement
    <3> QED BY <3>1, <1>b
  <2>5. Cardinality(Unread') <= Cardinality(Unread \cup {c}) /\ Cardinality(Unread \cup {c}) \in Nat
    BY <2>3, UnreadFinite
  <2> QED BY <1>0, <1>b, <2>1, <2>4, <2>5 DEF QueriesPaid, QueriesBounded
<1>4. ASSUME NEW c \in Claims, NEW acknowledged \in BOOLEAN, Submit(c, acknowledged) PROVE QueriesPaid'
  <2>1. Unread' \subseteq Unread
    <3>1. CASE acknowledged
      BY <1>0, <1>4, <3>1, MoveUnread DEF Submit
    <3>2. CASE ~acknowledged
      BY <1>0, <1>4, <3>2, MoveUnread DEF Submit
    <3> QED BY <3>1, <3>2
  <2> QED BY <1>0, <1>4, <2>1, NoNewUnread DEF Submit, hist
<1>5. ASSUME NEW c \in Claims, DispatchMove(c) PROVE QueriesPaid'
  <2>1. Unread' \subseteq Unread /\ UNCHANGED <<reconciles, queries>>
    BY <1>0, <1>5, MoveUnread DEF DispatchMove, Moving, row
  <2> QED BY <1>0, <2>1, NoNewUnread
<1>6. ASSUME NEW c \in Claims, RecoveryMove(c) PROVE QueriesPaid'
  <2>1. CASE Moving(c, "reconcile", "gone") /\ UNCHANGED <<senders, queries>>
    <3>1. Unread' \subseteq Unread /\ UNCHANGED <<reconciles, queries>>
      BY <1>0, <2>1, MoveUnread DEF Moving, row
    <3> QED BY <1>0, <3>1, NoNewUnread
  <2>2. CASE /\ worker[c].at = "claimed" /\ Moving(c, "reconcile", Branch)
             /\ queries' = IF Branch = "query" THEN queries + 1 ELSE queries
    <3>1. /\ Branch \in {"abandon", "park", "query"}
          /\ Branch = "query" => ~(reconciles > MaxReconcile)
      BY DEF Branch
    <3>2. Unread' \subseteq Unread \ {c} /\ reconciles' = reconciles
      BY <1>0, <2>2, <3>1, MoveUnread DEF Moving, row
    <3>3. c \in Unread
      BY <2>2 DEF Unread, Moving
    <3>4. Cardinality(Unread \ {c}) = Cardinality(Unread) - 1
      BY <1>b, <3>3, FS_RemoveElement
    <3>5. Cardinality(Unread') <= Cardinality(Unread \ {c}) /\ Cardinality(Unread \ {c}) \in Nat
      BY <1>a, <3>2, UnreadFinite
    <3>6. queries' \in {queries, queries + 1} /\ (queries' # queries => reconciles <= MaxReconcile)
      BY <1>0, <2>2, <3>1, LedgerAssumption
    <3> QED BY <1>0, <1>b, <3>2, <3>4, <3>5, <3>6, LedgerAssumption DEF QueriesPaid, QueriesBounded
  <2> QED BY <1>6, <2>1, <2>2 DEF RecoveryMove
<1>7. ASSUME NEW c \in Claims, NEW s \in States, GivesUp(c, s) PROVE QueriesPaid'
  <2>1. Unread' \subseteq Unread /\ UNCHANGED <<reconciles, queries>>
    BY <1>0, <1>7, MoveUnread DEF GivesUp
  <2> QED BY <1>0, <2>1, NoNewUnread
<1>8. CASE Holds
  BY <1>0, <1>8, NoNewUnread DEF Holds, hist, Unread
<1> QED BY <1>0, <1>1, <1>2, <1>3, <1>4, <1>5, <1>6, <1>7, <1>8, StepKinds

\* The reconciler of an effect is called at most MAX_RECONCILE_ATTEMPTS times,
\* however many recovery workers claim, die or outlast their claims.
THEOREM QueriesSafe == Spec => []QueriesBounded
<1>1. Init => QueriesPaid
  <2> SUFFICES ASSUME Init PROVE QueriesPaid
    OBVIOUS
  <2>1. queries = 0 /\ reconciles = 0 /\ Unread = {}
    BY DEF Init, Unread, NoWorker
  <2>2. Cardinality(Unread) = 0
    BY <2>1, FS_EmptySet
  <2> QED BY <2>1, <2>2, LedgerAssumption DEF QueriesPaid, QueriesBounded
<1>2. QueriesPaid => QueriesBounded
  BY DEF QueriesPaid
<1> QED BY <1>1, <1>2, QueriesStep, LedgerInvariance, PTL DEF Spec

\* Everything about the request of an effect in one statement: it leaves under
\* one claim, of the run that prepared it, and is never falsely called unsent.
THEOREM SendingSafe == Spec => []SendSafe
  BY LedgerTypes, SentOnceSafe, UnsentSafe, OriginSafe, PTL DEF SendSafe

\* Recovery stays behind the run of its effect and within its attempts
\* (_claim_for_reconcile, MAX_RECONCILE_ATTEMPTS).
THEOREM BoundsSafe == Spec => []RecoveryInBounds
  BY RecoverySafe, QueriesSafe, PTL DEF RecoveryInBounds
=============================================================================
