----------------------------- MODULE TurnProofs -----------------------------
(***************************************************************************)
(* Proofs about the abort signals of a session (AbortSignals) and the tool *)
(* calls of a step under them (Turn), for every number of runs and calls,  *)
(* every pool and every time limit; and, in the second part, about the     *)
(* input that a turn is made of (Inbox), for every set of items and kinds, *)
(* every batch, every delivery budget and every number of generations.     *)
(***************************************************************************)
EXTENDS Turn, Inbox, FiniteSetTheorems, TLAPS

-----------------------------------------------------------------------------
(* The signals.                                                            *)

\* A remembered stop is one that was meant, with no more time than it has.
SignalInv == TypeOK /\ NewestReachable /\ pending <= meant

LEMMA SignalInit == Init => SignalInv
<1> SUFFICES ASSUME Init PROVE SignalInv
  OBVIOUS
<1>1. TypeOK
  <2>1. occupied \in BOOLEAN
    BY Zenon DEF Init
  <2>2. /\ newest \in 0 .. MaxRuns /\ holder \in 0 .. newest
        /\ pending \in 0 .. PendingTTL /\ meant \in 0 .. PendingTTL
    BY SignalAssumption DEF Init
  <2>3. open \subseteq 1 .. newest /\ raised \subseteq 1 .. newest
    BY DEF Init
  <2> QED
    BY <2>1, <2>2, <2>3 DEF TypeOK
<1>2. NewestReachable
  BY DEF Init, NewestReachable, Current
<1>3. pending <= meant
  BY DEF Init
<1> QED
  BY <1>1, <1>2, <1>3 DEF SignalInv

LEMMA SignalStep == SignalInv /\ [Next]_vars => SignalInv'
<1> SUFFICES ASSUME SignalInv, [Next]_vars PROVE SignalInv'
  OBVIOUS
<1> USE SignalAssumption DEF SignalInv, TypeOK, NewestReachable, Current, Runs
<1>1. CASE RegisterRun
  BY <1>1 DEF RegisterRun
<1>2. CASE \E r \in Runs : AbortRun(r)
  <2> PICK r \in Runs : AbortRun(r)
    BY <1>2
  <2>1. raised' \subseteq 1 .. newest
    BY DEF AbortRun
  <2> QED
    BY <2>1 DEF AbortRun
<1>7. CASE AbortAll
  <2>1. raised' \subseteq 1 .. newest
    BY <1>7 DEF AbortAll
  <2> QED
    BY <1>7, <2>1 DEF AbortAll
<1>3. CASE \E r \in Runs : ClearAbort(r)
  <2> PICK r \in Runs : ClearAbort(r)
    BY <1>3
  <2>1. CASE occupied /\ holder = r
    <3>1. occupied' \in BOOLEAN /\ ~occupied'
      BY <2>1, Zenon DEF ClearAbort
    <3>2. newest \notin open'
      BY <2>1 DEF ClearAbort
    <3>3. /\ newest' = newest /\ pending' = pending /\ meant' = meant /\ holder' = 0
          /\ open' \subseteq open /\ raised' \subseteq raised
      BY <2>1 DEF ClearAbort
    <3> QED
      BY <3>1, <3>2, <3>3
  <2>2. CASE ~(occupied /\ holder = r)
    BY <2>2 DEF ClearAbort
  <2> QED
    BY <2>1, <2>2
<1>4. CASE TriggerAbort
  <2>1. CASE occupied
    BY <1>4, <2>1 DEF TriggerAbort
  <2>2. CASE ~occupied
    BY <1>4, <2>2 DEF TriggerAbort
  <2> QED
    BY <2>1, <2>2
<1>5. CASE DiscardPendingAbort
  BY <1>5 DEF DiscardPendingAbort
<1>6. CASE Tick
  BY <1>6 DEF Tick, Less
<1>8. CASE UNCHANGED vars
  BY <1>8 DEF vars
<1> QED
  BY <1>1, <1>2, <1>3, <1>4, <1>5, <1>6, <1>7, <1>8 DEF Next

LEMMA SignalsInvariant == Spec => []SignalInv
  BY SignalInit, SignalStep, PTL DEF Spec

\* A stop pressed while the newest run is registered reaches that run, for
\* every number of runs of the session (trigger_abort, clear_abort).
THEOREM Reachable == Spec => []NewestReachable
<1>1. SignalInv => NewestReachable
  BY DEF SignalInv
<1> QED
  BY <1>1, SignalsInvariant, PTL

\* No run starts stopped by a press that was not meant for it, for every
\* number of runs and every time limit (register_run, discard_pending_abort).
THEOREM AmbushSafe == Spec => NoAmbush
<1>1. SignalInv /\ [Next]_vars => [StartsStoppedOnlyIfMeant]_vars
  <2> SUFFICES ASSUME SignalInv, [Next]_vars, newest' # newest, newest' \in raised'
               PROVE meant > 0
    BY DEF StartsStoppedOnlyIfMeant
  <2>1. RegisterRun
    BY DEF Next, vars, AbortRun, ClearAbort, TriggerAbort, AbortAll, DiscardPendingAbort, Tick
  <2> QED
    BY <2>1, SignalAssumption DEF RegisterRun, SignalInv, TypeOK
<1> QED
  BY <1>1, SignalsInvariant, PTL DEF Spec, NoAmbush

\* The variables of the signals keep their types.
THEOREM SignalTypes == Spec => []TypeOK
<1>1. SignalInv => TypeOK
  BY DEF SignalInv
<1> QED
  BY <1>1, SignalsInvariant, PTL

-----------------------------------------------------------------------------
(* The composition.                                                        *)

\* A step of the turn is a step of the signals, or leaves them alone.
LEMMA TurnStepsAreSignals == [TurnNext]_turn => [Next]_vars
<1> SUFFICES ASSUME [TurnNext]_turn PROVE [Next]_vars
  OBVIOUS
<1>1. CASE UNCHANGED turn
  BY <1>1 DEF turn
<1>2. CASE TurnNext
  BY <1>2 DEF TurnNext, InStep, AtAwait, Register, Press, Shutdown, SignalRun, Quietly, Next
<1> QED
  BY <1>1, <1>2

\* Composed with the tool calls of a step the signals do what they do alone:
\* the turn implements AbortSignals.
THEOREM TurnImplementsSignals == TurnSpec => Spec
<1>1. TurnInit => Init
  BY DEF TurnInit
<1> QED
  BY <1>1, TurnStepsAreSignals, PTL DEF TurnSpec, Spec

-----------------------------------------------------------------------------
(* The inductive invariant of a step.                                      *)

\* The slot belongs to the newest run, or to nobody.
HolderIsNewest == holder # 0 => occupied /\ holder = newest /\ newest \in open

\* Whatever cuts a call goes back to a signal for this run, and one that found
\* the run open still stands while it is.
StopsAreMine ==
  /\ Mine \in raised => signalled # "no"
  /\ signalled = "yes" /\ Mine \in open => Mine \in raised
  /\ newest < Mine => signalled = "no"

CutsAreMine ==
  /\ aborted => signalled # "no"
  /\ \A c \in 1 .. N : slot[c] = "aborted" => signalled # "no"
  /\ \A k \in 1 .. Len(log) : log[k][2] = "aborted" => signalled # "no"

\* The group that is being worked on; a group of one exclusive call has one
\* place, and its class is the one its first call had when it was formed.
GroupShape ==
  /\ base <= started /\ started <= last
  /\ pc \notin {"outer", "done"} /\ ~parallel => last = base + 1
  /\ pc \in {"prepare", "check", "commit"} => base < started
  /\ pc = "fill" /\ started = base => started < N /\ (parallel <=> safe[started + 1])

\* Only started calls have results or bodies; a running body has no result
\* yet, and what is parked says whether there was one.
SlotsAreTrue ==
  \A c \in 1 .. N :
    /\ slot[c] # "empty" \/ c \in ran => c <= started
    /\ body[c] # "none" => c \in ran /\ base < c
    /\ slot[c] # "empty" => (slot[c] \in {"value", "timeout"} <=> c \in ran)
    /\ body[c] = "running" => slot[c] = "empty"

\* A started call without a result has a running body, is being prepared, or
\* is why the step fails.
Accounted ==
  \A c \in 1 .. N : c <= started /\ slot[c] = "empty" =>
    body[c] = "running" \/ failed \/ (pc = "prepare" /\ c = started)

\* While a call is prepared nothing is known of it and the pool has a place.
Preparing ==
  pc = "prepare" =>
    /\ started \in 1 .. N
    /\ slot[started] = "empty" /\ body[started] = "none" /\ started \notin ran
    /\ Cardinality(Tools!InFlight) < MaxParallel

\* Results are committed in the model's order, what was parked and nothing
\* else; only the pairing of an aborted step goes beyond the started calls.
LogShape ==
  /\ Len(log) <= N
  /\ \A k \in 1 .. Len(log) : log[k][1] = k
  /\ \A k \in 1 .. Len(log) : log[k][2] \in {"value", "timeout"} <=> k \in ran
  /\ pc \notin {"suffix", "done", "raised"} =>
       Len(log) <= started /\ \A k \in 1 .. Len(log) : slot[k] # "empty"
  /\ \A k \in 1 .. Len(log) : body[k] # "running"

\* Where nothing is in flight, everything started is committed.
Drains ==
  /\ pc = "fill" /\ Len(log) < started => body[Len(log) + 1] # "none"
  /\ pc \in {"outer", "suffix", "done"} =>
       Len(log) >= started /\ \A c \in 1 .. N : body[c] = "none"
  /\ pc = "suffix" => aborted
  /\ pc = "done" => Len(log) = N
  /\ pc = "raised" => \A c \in 1 .. N : body[c] # "running"

\* A call that was started as exclusive is the only one of its group.
Barrier ==
  \A c \in alone :
    /\ c <= started
    /\ body[c] # "none" \/ (pc = "prepare" /\ c = started) => ~parallel

StepInv ==
  /\ SignalInv /\ StepTypeOK /\ HolderIsNewest /\ StopsAreMine /\ CutsAreMine
  /\ GroupShape /\ SlotsAreTrue /\ Accounted /\ Preparing /\ LogShape /\ Drains /\ Barrier

\* ToolScheduler counts with the operator that the theorems are about.
LEMMA SameCardinality == \A S : Tools!Cardinality(S) = Cardinality(S)
  BY DEF Tools!Cardinality, Cardinality

-----------------------------------------------------------------------------
(* The runs around the step.                                               *)

LEMMA StepInit == TurnInit => StepInv
<1> SUFFICES ASSUME TurnInit PROVE StepInv
  OBVIOUS
<1> USE TurnAssumption DEF TurnInit
<1>1. SignalInv
  BY SignalInit
<1>2. Tools!InFlight = {} /\ Cardinality(Tools!InFlight) = 0
  BY FS_EmptySet DEF Tools!Init, Tools!InFlight, Tools!Calls
<1>3. StepTypeOK
  <2>1. parallel \in BOOLEAN /\ aborted \in BOOLEAN /\ failed \in BOOLEAN /\ (Mine \in raised) \in BOOLEAN
    BY Zenon DEF Tools!Init
  <2>2. log \in Seq(Tools!Calls \X Tools!Results)
    BY DEF Tools!Init
  <2> QED
    BY <1>2, <2>1, <2>2, SameCardinality
    DEF StepTypeOK, Tools!TypeOK, Tools!Init, Tools!Results, Tools!Calls
<1>4. HolderIsNewest /\ StopsAreMine /\ CutsAreMine
  BY DEF Init, Tools!Init, Tools!Calls, HolderIsNewest, StopsAreMine, CutsAreMine, Runs
<1>5. GroupShape /\ SlotsAreTrue /\ Accounted /\ Preparing /\ LogShape /\ Drains /\ Barrier
  BY DEF Tools!Init, Tools!Calls, GroupShape, SlotsAreTrue, Accounted, Preparing, LogShape,
         Drains, Barrier
<1> QED
  BY <1>1, <1>3, <1>4, <1>5 DEF StepInv

\* What the signals and the history of stops keep when another run moves.
LEMMA AroundStep ==
  ASSUME StepInv,
         Register \/ Press \/ Shutdown \/ (\E r \in Runs : SignalRun(r) \/ Quietly(ClearAbort(r)))
           \/ Quietly(DiscardPendingAbort) \/ Quietly(Tick)
  PROVE  /\ HolderIsNewest' /\ StopsAreMine'
         /\ signalled' \in {"no", "may", "yes"} /\ (signalled # "no" => signalled' # "no")
         /\ UNCHANGED step
<1> USE TurnAssumption, SignalAssumption
    DEF StepInv, StepTypeOK, SignalInv, TypeOK, NewestReachable, Current, Runs,
        HolderIsNewest, StopsAreMine
<1>1. CASE Register
  BY <1>1 DEF Register, AtAwait, RegisterRun
<1>2. CASE Press
  BY <1>2 DEF Press, AtAwait, TriggerAbort
<1>7. CASE Shutdown
  BY <1>7 DEF Shutdown, AtAwait, AbortAll
<1>3. ASSUME NEW r \in Runs, SignalRun(r)
      PROVE  /\ HolderIsNewest' /\ StopsAreMine'
             /\ signalled' \in {"no", "may", "yes"} /\ (signalled # "no" => signalled' # "no")
             /\ UNCHANGED step
  BY <1>3 DEF SignalRun, AtAwait, AbortRun
<1>4. ASSUME NEW r \in Runs, Quietly(ClearAbort(r))
      PROVE  /\ HolderIsNewest' /\ StopsAreMine'
             /\ signalled' \in {"no", "may", "yes"} /\ (signalled # "no" => signalled' # "no")
             /\ UNCHANGED step
  BY <1>4 DEF Quietly, AtAwait, ClearAbort
<1>5. CASE Quietly(DiscardPendingAbort)
  BY <1>5 DEF Quietly, AtAwait, DiscardPendingAbort
<1>6. CASE Quietly(Tick)
  BY <1>6 DEF Quietly, AtAwait, Tick
<1> QED
  BY <1>1, <1>2, <1>3, <1>4, <1>5, <1>6, <1>7

LEMMA StepUntouched ==
  ASSUME StepInv, UNCHANGED step, SignalInv', HolderIsNewest', StopsAreMine',
         signalled' \in {"no", "may", "yes"}, signalled # "no" => signalled' # "no"
  PROVE  StepInv'
<1> USE DEF StepInv, step
<1>1. StepTypeOK'
  <2>1. (Mine \in raised)' \in BOOLEAN
    OBVIOUS
  <2>2. Tools!InFlight' = Tools!InFlight
    BY DEF Tools!InFlight, Tools!Calls
  <2> QED
    BY <2>1, <2>2 DEF StepTypeOK, Tools!TypeOK
<1>2. CutsAreMine' /\ GroupShape' /\ SlotsAreTrue' /\ Accounted'
  BY DEF CutsAreMine, GroupShape, SlotsAreTrue, Accounted
<1>3. Preparing' /\ LogShape' /\ Drains' /\ Barrier'
  <2>1. Tools!InFlight' = Tools!InFlight
    BY DEF Tools!InFlight, Tools!Calls
  <2> QED
    BY <2>1 DEF Preparing, LogShape, Drains, Barrier
<1> QED
  BY <1>1, <1>2, <1>3

-----------------------------------------------------------------------------
(* The step itself: nothing of the signals moves.                          *)

LEMMA SignalsUntouched ==
  ASSUME StepInv, UNCHANGED <<vars, signalled>>
  PROVE  SignalInv' /\ HolderIsNewest' /\ StopsAreMine' /\ (Mine \in raised)' \in BOOLEAN
  BY DEF StepInv, vars, SignalInv, TypeOK, NewestReachable, Current, HolderIsNewest, StopsAreMine

LEMMA PoolIsFinite ==
  /\ IsFiniteSet(Tools!InFlight) /\ Cardinality(Tools!InFlight) \in Nat
<1>1. IsFiniteSet(1 .. N)
  BY TurnAssumption, FS_Interval
<1> QED
  BY <1>1, FS_Subset, FS_CardinalityType DEF Tools!InFlight, Tools!Calls

LEMMA NextGroupStep ==
  ASSUME StepInv, InStep(Tools!NextGroup)
  PROVE  StepInv'
<1> USE TurnAssumption DEF StepInv, StepTypeOK, Tools!TypeOK, InStep, Tools!NextGroup, Tools!Calls
<1>0. SignalInv' /\ HolderIsNewest' /\ StopsAreMine' /\ (Mine \in raised)' \in BOOLEAN
  BY SignalsUntouched
<1>1. Tools!InFlight' = Tools!InFlight
  BY DEF Tools!InFlight
<1>2. StepTypeOK'
  BY <1>0, <1>1
<1>3. CutsAreMine' /\ SlotsAreTrue' /\ Accounted' /\ Preparing'
  BY DEF CutsAreMine, SlotsAreTrue, Accounted, Preparing, StopsAreMine, Drains
<1>4. GroupShape'
  BY DEF GroupShape
<1>5. LogShape' /\ Drains' /\ Barrier'
  BY DEF LogShape, Drains, Barrier, GroupShape
<1> QED
  BY <1>0, <1>2, <1>3, <1>4, <1>5

LEMMA StartCallStep ==
  ASSUME StepInv, InStep(Tools!StartCall)
  PROVE  StepInv'
<1> USE TurnAssumption DEF StepInv, StepTypeOK, Tools!TypeOK, InStep, Tools!StartCall, Tools!Calls,
        Tools!CanStart, Tools!group
<1>0. SignalInv' /\ HolderIsNewest' /\ StopsAreMine' /\ (Mine \in raised)' \in BOOLEAN
  BY SignalsUntouched
<1>1. Tools!InFlight' = Tools!InFlight
  BY DEF Tools!InFlight
<1>a. /\ parallel' = parallel /\ aborted' = aborted /\ failed' = failed
      /\ safe' = safe /\ slot' = slot /\ body' = body /\ log' = log
      /\ base' = base /\ last' = last /\ ran' = ran /\ signalled' = signalled
      /\ pc = "fill" /\ pc' = "prepare" /\ started' = started + 1
  OBVIOUS
<1>2. StepTypeOK'
  <2>1. started' \in 0 .. N /\ alone' \subseteq 1 .. N
    <3>1. started + 1 \in 1 .. N /\ started' = started + 1
      OBVIOUS
    <3>2. alone' \subseteq alone \cup {started + 1}
      OBVIOUS
    <3>3. alone \subseteq 1 .. N /\ started' \in 0 .. N
      BY <3>1
    <3>4. \A c \in alone' : c \in 1 .. N
      BY <3>1, <3>2, <3>3
    <3> QED
      BY <3>3, <3>4
  <2> QED
    BY <1>0, <1>1, <1>a, <2>1
<1>3. CutsAreMine' /\ GroupShape' /\ SlotsAreTrue' /\ Accounted'
  BY DEF CutsAreMine, GroupShape, SlotsAreTrue, Accounted
<1>4. Preparing'
  BY <1>1, SameCardinality DEF Preparing, Tools!Room, SlotsAreTrue
<1>5. LogShape' /\ Drains'
  <2>1. started \in Nat /\ Len(log) \in Nat
    OBVIOUS
  <2>2. LogShape /\ Drains
    OBVIOUS
  <2>3. LogShape'
    BY ONLY <1>a, <2>1, <2>2 DEF LogShape
  <2>4. Drains'
    BY ONLY <1>a DEF Drains
  <2> QED
    BY <2>3, <2>4
<1>6. Barrier'
  BY DEF Barrier, GroupShape, Tools!MayJoin
<1> QED
  BY <1>0, <1>2, <1>3, <1>4, <1>5, <1>6

LEMMA ReturnStep ==
  ASSUME StepInv, InStep(Tools!Return)
  PROVE  StepInv'
<1> USE TurnAssumption DEF StepInv, StepTypeOK, Tools!TypeOK, InStep, Tools!Return, Tools!Calls,
        Tools!group
<1>0. SignalInv' /\ HolderIsNewest' /\ StopsAreMine' /\ (Mine \in raised)' \in BOOLEAN
  BY SignalsUntouched
<1>1. Tools!InFlight' = Tools!InFlight
  BY DEF Tools!InFlight
<1>2. StepTypeOK'
  BY <1>0, <1>1
<1>3. CutsAreMine' /\ SlotsAreTrue' /\ Accounted'
  BY DEF CutsAreMine, SlotsAreTrue, Accounted, StopsAreMine
<1>4. GroupShape' /\ Preparing' /\ Barrier'
  BY <1>1 DEF GroupShape, Preparing, Barrier, Drains, LogShape
<1>5. LogShape' /\ Drains'
  BY DEF LogShape, Drains, Accounted, GroupShape, SlotsAreTrue
<1> QED
  BY <1>0, <1>2, <1>3, <1>4, <1>5

LEMMA CheckStep ==
  ASSUME StepInv, InStep(Tools!Check)
  PROVE  StepInv'
<1> USE TurnAssumption DEF StepInv, StepTypeOK, Tools!TypeOK, InStep, Tools!Check, Tools!Calls,
        Tools!group
<1>0. SignalInv' /\ HolderIsNewest' /\ StopsAreMine' /\ (Mine \in raised)' \in BOOLEAN
  BY SignalsUntouched
<1>1. Tools!InFlight' = Tools!InFlight
  BY DEF Tools!InFlight
<1>2. StepTypeOK'
  BY <1>0, <1>1
<1>3. CutsAreMine' /\ SlotsAreTrue' /\ Accounted'
  BY DEF CutsAreMine, SlotsAreTrue, Accounted, StopsAreMine
<1>4. GroupShape' /\ Preparing' /\ Barrier'
  BY <1>1 DEF GroupShape, Preparing, Barrier, Drains, LogShape
<1>5. LogShape' /\ Drains'
  BY DEF LogShape, Drains, Accounted, GroupShape, SlotsAreTrue, Tools!InFlight
<1> QED
  BY <1>0, <1>2, <1>3, <1>4, <1>5

LEMMA GroupDoneStep ==
  ASSUME StepInv, InStep(Tools!GroupDone)
  PROVE  StepInv'
<1> USE TurnAssumption DEF StepInv, StepTypeOK, Tools!TypeOK, InStep, Tools!GroupDone, Tools!Calls,
        Tools!group
<1>0. SignalInv' /\ HolderIsNewest' /\ StopsAreMine' /\ (Mine \in raised)' \in BOOLEAN
  BY SignalsUntouched
<1>1. Tools!InFlight' = Tools!InFlight
  BY DEF Tools!InFlight
<1>2. StepTypeOK'
  BY <1>0, <1>1
<1>3. CutsAreMine' /\ SlotsAreTrue' /\ Accounted'
  BY DEF CutsAreMine, SlotsAreTrue, Accounted, StopsAreMine
<1>4. GroupShape' /\ Preparing' /\ Barrier'
  BY <1>1 DEF GroupShape, Preparing, Barrier, Drains, LogShape
<1>5. LogShape' /\ Drains'
  <2>1. \A c \in 1 .. N : body[c] = "none"
    BY DEF Tools!Drained, Tools!InFlight
  <2>2. Len(log) \in Nat /\ Len(log) <= N
    BY DEF LogShape
  <2>3. Len(log) >= started
    BY <2>1, <2>2 DEF Drains
  <2>4. LogShape'
    BY DEF LogShape
  <2> QED
    BY <2>1, <2>2, <2>3, <2>4 DEF Drains
<1> QED
  BY <1>0, <1>2, <1>3, <1>4, <1>5

LEMMA ReturnAbortedStep ==
  ASSUME StepInv, InStep(Tools!ReturnAborted)
  PROVE  StepInv'
<1> USE TurnAssumption DEF StepInv, StepTypeOK, Tools!TypeOK, InStep, Tools!ReturnAborted, Tools!Calls,
        Tools!group
<1>0. SignalInv' /\ HolderIsNewest' /\ StopsAreMine' /\ (Mine \in raised)' \in BOOLEAN
  BY SignalsUntouched
<1>1. Tools!InFlight' = Tools!InFlight
  BY DEF Tools!InFlight
<1>2. StepTypeOK'
  BY <1>0, <1>1
<1>3. CutsAreMine' /\ SlotsAreTrue' /\ Accounted'
  BY DEF CutsAreMine, SlotsAreTrue, Accounted, StopsAreMine
<1>4. GroupShape' /\ Preparing' /\ Barrier'
  BY <1>1 DEF GroupShape, Preparing, Barrier, Drains, LogShape
<1>5. LogShape' /\ Drains'
  <2>1. Len(log) \in Nat /\ Len(log) = N
    BY DEF LogShape, Tools!Suffix, Tools!Committed
  <2>2. LogShape'
    BY DEF LogShape
  <2> QED
    BY <2>1, <2>2 DEF Drains
<1> QED
  BY <1>0, <1>2, <1>3, <1>4, <1>5

LEMMA RaiseStep ==
  ASSUME StepInv, InStep(Tools!Raise)
  PROVE  StepInv'
<1> USE TurnAssumption DEF StepInv, StepTypeOK, Tools!TypeOK, InStep, Tools!Raise, Tools!Calls,
        Tools!group
<1>0. SignalInv' /\ HolderIsNewest' /\ StopsAreMine' /\ (Mine \in raised)' \in BOOLEAN
  BY SignalsUntouched
<1>1. Tools!InFlight' = Tools!InFlight
  BY DEF Tools!InFlight
<1>2. StepTypeOK'
  BY <1>0, <1>1
<1>3. CutsAreMine' /\ SlotsAreTrue' /\ Accounted'
  BY DEF CutsAreMine, SlotsAreTrue, Accounted, StopsAreMine
<1>4. GroupShape' /\ Preparing' /\ Barrier'
  BY <1>1 DEF GroupShape, Preparing, Barrier, Drains, LogShape
<1>5. LogShape' /\ Drains'
  BY DEF LogShape, Drains, Accounted, GroupShape, SlotsAreTrue, Tools!Quiet, Tools!Bodies
<1> QED
  BY <1>0, <1>2, <1>3, <1>4, <1>5

LEMMA RaisesPairingStep ==
  ASSUME StepInv, InStep(Tools!RaisesPairing)
  PROVE  StepInv'
<1> USE TurnAssumption DEF StepInv, StepTypeOK, Tools!TypeOK, InStep, Tools!RaisesPairing, Tools!Calls,
        Tools!group
<1>0. SignalInv' /\ HolderIsNewest' /\ StopsAreMine' /\ (Mine \in raised)' \in BOOLEAN
  BY SignalsUntouched
<1>1. Tools!InFlight' = Tools!InFlight
  BY DEF Tools!InFlight
<1>2. StepTypeOK'
  BY <1>0, <1>1
<1>3. CutsAreMine' /\ SlotsAreTrue' /\ Accounted'
  BY DEF CutsAreMine, SlotsAreTrue, Accounted, StopsAreMine
<1>4. GroupShape' /\ Preparing' /\ Barrier'
  BY <1>1 DEF GroupShape, Preparing, Barrier, Drains, LogShape
<1>5. LogShape' /\ Drains'
  BY DEF LogShape, Drains, Accounted, GroupShape, SlotsAreTrue, Tools!Suffix, Tools!Committed
<1> QED
  BY <1>0, <1>2, <1>3, <1>4, <1>5

LEMMA RaisesStep ==
  ASSUME StepInv, InStep(Tools!Raises)
  PROVE  StepInv'
<1> USE TurnAssumption DEF StepInv, StepTypeOK, Tools!TypeOK, InStep, Tools!Raises, Tools!Calls,
        Tools!group
<1>0. SignalInv' /\ HolderIsNewest' /\ StopsAreMine' /\ (Mine \in raised)' \in BOOLEAN
  BY SignalsUntouched
<1>1. Tools!InFlight' = Tools!InFlight
  BY DEF Tools!InFlight
<1>2. StepTypeOK'
  BY <1>0, <1>1
<1>3. CutsAreMine' /\ SlotsAreTrue' /\ Accounted'
  BY DEF CutsAreMine, SlotsAreTrue, Accounted, StopsAreMine
<1>4. GroupShape' /\ Preparing' /\ Barrier'
  BY <1>1 DEF GroupShape, Preparing, Barrier, Drains, LogShape
<1>5. LogShape' /\ Drains'
  BY DEF LogShape, Drains, Accounted, GroupShape, SlotsAreTrue, Tools!Awaiting
<1> QED
  BY <1>0, <1>2, <1>3, <1>4, <1>5

LEMMA CommitDoneStep ==
  ASSUME StepInv, InStep(Tools!CommitDone)
  PROVE  StepInv'
<1> USE TurnAssumption DEF StepInv, StepTypeOK, Tools!TypeOK, InStep, Tools!CommitDone, Tools!Calls,
        Tools!group
<1>0. SignalInv' /\ HolderIsNewest' /\ StopsAreMine' /\ (Mine \in raised)' \in BOOLEAN
  BY SignalsUntouched
<1>1. Tools!InFlight' = Tools!InFlight
  BY DEF Tools!InFlight
<1>2. StepTypeOK'
  BY <1>0, <1>1
<1>3. CutsAreMine' /\ SlotsAreTrue' /\ Accounted'
  BY DEF CutsAreMine, SlotsAreTrue, Accounted, StopsAreMine
<1>4. GroupShape' /\ Preparing' /\ Barrier'
  BY <1>1 DEF GroupShape, Preparing, Barrier, Drains, LogShape
<1>5. LogShape' /\ Drains'
  BY DEF LogShape, Drains, Accounted, GroupShape, SlotsAreTrue, Tools!Ready, Tools!Committed
<1> QED
  BY <1>0, <1>2, <1>3, <1>4, <1>5

LEMMA ReclassifyStep ==
  ASSUME StepInv, NEW c \in Tools!Calls, InStep(Tools!Reclassify(c))
  PROVE  StepInv'
<1> USE TurnAssumption DEF StepInv, StepTypeOK, Tools!TypeOK, InStep, Tools!Reclassify, Tools!Calls,
        Tools!group
<1>0. SignalInv' /\ HolderIsNewest' /\ StopsAreMine' /\ (Mine \in raised)' \in BOOLEAN
  BY SignalsUntouched
<1>1. Tools!InFlight' = Tools!InFlight
  BY DEF Tools!InFlight
<1>2. StepTypeOK'
  BY <1>0, <1>1
<1>3. CutsAreMine' /\ SlotsAreTrue' /\ Accounted'
  BY DEF CutsAreMine, SlotsAreTrue, Accounted
<1>4. GroupShape'
  <2>1. pc = "fill" => started # base
    <3>1. ASSUME pc = "fill", started = base PROVE FALSE
      <4>1. Tools!InFlight # {}
        BY <3>1 DEF Tools!Awaiting, Tools!Waiting
      <4>2. PICK k \in 1 .. N : body[k] # "none"
        BY <4>1 DEF Tools!InFlight
      <4> QED
        BY <3>1, <4>2 DEF SlotsAreTrue
    <3> QED
      BY <3>1
  <2> QED
    BY <2>1 DEF GroupShape
<1>5. Preparing' /\ Barrier' /\ LogShape' /\ Drains'
  BY <1>1 DEF Preparing, Barrier, LogShape, Drains
<1> QED
  BY <1>0, <1>2, <1>3, <1>4, <1>5

LEMMA PreparedStep ==
  ASSUME StepInv, NEW hasBody \in BOOLEAN, InStep(Tools!Prepared(hasBody))
  PROVE  StepInv'
<1>0. SignalInv' /\ HolderIsNewest' /\ StopsAreMine' /\ (Mine \in raised)' \in BOOLEAN
  BY SignalsUntouched DEF InStep
<1>1. /\ pc = "prepare" /\ started \in 1 .. N /\ slot[started] = "empty"
      /\ body[started] = "none" /\ started \notin ran /\ base < started
      /\ Cardinality(Tools!InFlight) < MaxParallel
  BY DEF StepInv, Preparing, GroupShape, InStep, Tools!Prepared
<1>2. /\ base' = base /\ last' = last /\ parallel' = parallel /\ started' = started
      /\ aborted' = aborted /\ failed' = failed /\ log' = log /\ safe' = safe
      /\ alone' = alone /\ signalled' = signalled /\ pc' = "check"
  BY DEF InStep, Tools!Prepared, Tools!group
<1>3. \/ /\ slot' = slot /\ body' = [body EXCEPT ![started] = "running"]
         /\ ran' = ran \cup {started}
      \/ \E result \in {"ready", "aborted"} :
           /\ slot' = [slot EXCEPT ![started] = result] /\ body' = body /\ ran' = ran
           /\ result = "aborted" => Mine \in raised
  BY DEF InStep, Tools!Prepared, StepInv, StepTypeOK, Tools!TypeOK, Tools!Calls
<1>4. /\ slot \in [1 .. N -> {"ready", "value", "timeout", "aborted", "empty"}]
      /\ body \in [1 .. N -> {"none", "running", "done"}]
      /\ ran \subseteq 1 .. N /\ alone \subseteq 1 .. N
      /\ Len(log) \in Nat /\ MaxParallel \in Nat
      /\ base \in Nat /\ last \in Nat /\ N \in Nat
  BY TurnAssumption DEF StepInv, StepTypeOK, Tools!TypeOK, Tools!Calls, Tools!Results
<1>5. StepTypeOK'
  <2>1. Tools!InFlight' = Tools!InFlight \/ Tools!InFlight' = Tools!InFlight \cup {started}
    BY <1>1, <1>3, <1>4 DEF Tools!InFlight, Tools!Calls
  <2>2. /\ Cardinality(Tools!InFlight) \in Nat
        /\ Cardinality(Tools!InFlight \cup {started})
             \in {Cardinality(Tools!InFlight), Cardinality(Tools!InFlight) + 1}
    BY PoolIsFinite, FS_AddElement
  <2>3. Cardinality(Tools!InFlight') <= MaxParallel
    <3>1. Cardinality(Tools!InFlight) + 1 <= MaxParallel
      BY <1>1, <1>4, <2>2
    <3>2. Cardinality(Tools!InFlight \cup {started}) <= MaxParallel
      BY <1>4, <2>2, <3>1
    <3>3. Cardinality(Tools!InFlight) <= MaxParallel
      BY <1>4, <2>2, <3>1
    <3> QED
      BY <2>1, <3>2, <3>3
  <2> QED
    BY <1>0, <1>1, <1>2, <1>3, <2>3, SameCardinality, TurnAssumption
    DEF StepInv, StepTypeOK, Tools!TypeOK, Tools!Calls, Tools!Results
<1>6. CutsAreMine'
  BY <1>1, <1>2, <1>3, <1>4 DEF StepInv, CutsAreMine, StopsAreMine
<1>7. GroupShape' /\ Accounted' /\ Preparing'
  BY <1>1, <1>2, <1>3, <1>4 DEF StepInv, GroupShape, Accounted, Preparing
<1>8. SlotsAreTrue'
  BY <1>1, <1>2, <1>3, <1>4 DEF StepInv, SlotsAreTrue
<1>9. Barrier'
  BY <1>1, <1>2, <1>3, <1>4 DEF StepInv, Barrier
<1>10. Drains'
  BY <1>2 DEF Drains
<1>11. LogShape'
  BY <1>1, <1>2, <1>3, <1>4 DEF StepInv, LogShape
<1> QED
  BY <1>0, <1>5, <1>6, <1>7, <1>8, <1>9, <1>10, <1>11 DEF StepInv

LEMMA SettleStep ==
  ASSUME StepInv, NEW c \in 1 .. N, NEW result \in {"value", "timeout", "error"},
         InStep(Tools!Settle(c, result))
  PROVE  StepInv'
<1>0. SignalInv' /\ HolderIsNewest' /\ StopsAreMine' /\ (Mine \in raised)' \in BOOLEAN
  BY SignalsUntouched DEF InStep
<1>1. /\ slot \in [1 .. N -> {"ready", "value", "timeout", "aborted", "empty"}]
      /\ body \in [1 .. N -> {"none", "running", "done"}]
      /\ ran \subseteq 1 .. N /\ alone \subseteq 1 .. N
      /\ Len(log) \in Nat /\ MaxParallel \in Nat
      /\ base \in Nat /\ last \in Nat /\ N \in Nat /\ started \in 0 .. N
  BY TurnAssumption DEF StepInv, StepTypeOK, Tools!TypeOK, Tools!Calls, Tools!Results
<1>2. /\ base' = base /\ last' = last /\ parallel' = parallel /\ started' = started
      /\ aborted' = aborted /\ log' = log /\ safe' = safe /\ ran' = ran
      /\ alone' = alone /\ signalled' = signalled /\ pc' = pc
      /\ failed' = (failed \/ result = "error")
  BY DEF InStep, Tools!Settle, Tools!group
<1>3. /\ body[c] = "running" /\ body' = [body EXCEPT ![c] = "done"]
      /\ slot' = [slot EXCEPT ![c] = IF result = "error" THEN @ ELSE result]
  BY DEF InStep, Tools!Settle
<1>4. slot[c] = "empty" /\ c \in ran /\ c <= started /\ base < c
  BY <1>3 DEF StepInv, SlotsAreTrue
<1>5. StepTypeOK'
  <2>1. Tools!InFlight' = Tools!InFlight
    BY <1>1, <1>3 DEF Tools!InFlight, Tools!Calls
  <2>2. failed' \in BOOLEAN
    BY <1>2, Zenon
  <2> QED
    BY <1>0, <1>2, <1>3, <2>1, <2>2 DEF StepInv, StepTypeOK, Tools!TypeOK, Tools!Calls, Tools!Results
<1>6. CutsAreMine'
  BY <1>1, <1>2, <1>3 DEF StepInv, CutsAreMine
<1>7. GroupShape'
  BY <1>2 DEF StepInv, GroupShape
<1>8. SlotsAreTrue'
  BY <1>1, <1>2, <1>3, <1>4 DEF StepInv, SlotsAreTrue
<1>9. Accounted'
  <2> SUFFICES ASSUME NEW k \in 1 .. N, k <= started', slot'[k] = "empty", ~failed'
               PROVE  body'[k] = "running" \/ (pc' = "prepare" /\ k = started')
    BY DEF Accounted
  <2>1. ~failed /\ result # "error" /\ k # c
    BY <1>1, <1>2, <1>3
  <2> QED
    BY <1>1, <1>2, <1>3, <2>1 DEF StepInv, Accounted
<1>10. Preparing'
  <2>1. Tools!InFlight' = Tools!InFlight
    BY <1>1, <1>3 DEF Tools!InFlight, Tools!Calls
  <2> QED
    BY <1>1, <1>2, <1>3, <2>1 DEF StepInv, Preparing
<1>11. Barrier'
  BY <1>1, <1>2, <1>3 DEF StepInv, Barrier
<1>12. LogShape'
  BY <1>1, <1>2, <1>3 DEF StepInv, LogShape
<1>13. Drains'
  <2>1. pc \notin {"outer", "suffix", "done", "raised"}
    BY <1>1, <1>3 DEF StepInv, Drains
  <2>2. ASSUME pc = "fill", Len(log) < started PROVE body'[Len(log) + 1] # "none"
    BY <1>1, <1>3, <2>2 DEF StepInv, Drains
  <2> QED
    BY <1>2, <2>1, <2>2 DEF Drains
<1> QED
  BY <1>0, <1>5, <1>6, <1>7, <1>8, <1>9, <1>10, <1>11, <1>12, <1>13 DEF StepInv

LEMMA ReapStep ==
  ASSUME StepInv, InStep(Tools!Reap)
  PROVE  StepInv'
<1>0. SignalInv' /\ HolderIsNewest' /\ StopsAreMine' /\ (Mine \in raised)' \in BOOLEAN
  BY SignalsUntouched DEF InStep
<1>1. /\ slot \in [1 .. N -> {"ready", "value", "timeout", "aborted", "empty"}]
      /\ body \in [1 .. N -> {"none", "running", "done"}]
      /\ ran \subseteq 1 .. N /\ alone \subseteq 1 .. N
      /\ Len(log) \in Nat /\ MaxParallel \in Nat
      /\ base \in Nat /\ last \in Nat /\ N \in Nat /\ started \in 0 .. N
  BY TurnAssumption DEF StepInv, StepTypeOK, Tools!TypeOK, Tools!Calls, Tools!Results
<1>2. /\ base' = base /\ last' = last /\ parallel' = parallel /\ started' = started
      /\ aborted' = aborted /\ failed' = failed /\ slot' = slot /\ log' = log /\ safe' = safe
      /\ ran' = ran /\ alone' = alone /\ signalled' = signalled /\ pc = "fill" /\ pc' = "check"
      /\ body' = [c \in 1 .. N |-> IF body[c] = "done" THEN "none" ELSE body[c]]
  BY DEF InStep, Tools!Reap, Tools!group, Tools!Waiting, Tools!Calls
<1>3. base < started
  <2>1. PICK c \in 1 .. N : body[c] = "done"
    BY DEF InStep, Tools!Reap, Tools!Calls
  <2> QED
    BY <1>1, <2>1 DEF StepInv, SlotsAreTrue
<1>4. StepTypeOK'
  <2>1. Tools!InFlight' \subseteq Tools!InFlight
    BY <1>1, <1>2 DEF Tools!InFlight, Tools!Calls
  <2>2. /\ Cardinality(Tools!InFlight) \in Nat /\ Cardinality(Tools!InFlight) <= MaxParallel
        /\ Cardinality(Tools!InFlight') \in Nat
        /\ Cardinality(Tools!InFlight') <= Cardinality(Tools!InFlight)
    BY <2>1, PoolIsFinite, FS_Subset, FS_CardinalityType, SameCardinality
    DEF StepInv, StepTypeOK, Tools!TypeOK
  <2>3. Cardinality(Tools!InFlight') <= MaxParallel
    BY <1>1, <2>2
  <2> QED
    BY <1>0, <1>2, <2>3, SameCardinality DEF StepInv, StepTypeOK, Tools!TypeOK, Tools!Calls
<1>5. CutsAreMine' /\ GroupShape' /\ SlotsAreTrue'
  BY <1>1, <1>2, <1>3 DEF StepInv, CutsAreMine, GroupShape, SlotsAreTrue
<1>6. Accounted' /\ Preparing' /\ Barrier'
  BY <1>1, <1>2 DEF StepInv, Accounted, Preparing, Barrier
<1>7. LogShape'
  BY <1>1, <1>2 DEF StepInv, LogShape
<1>8. Drains'
  BY <1>2 DEF Drains
<1> QED
  BY <1>0, <1>4, <1>5, <1>6, <1>7, <1>8 DEF StepInv

\* Both commits append the result of the next call.
LEMMA AppendStep ==
  ASSUME StepInv, UNCHANGED <<vars, signalled, pc, base, last, parallel, started, aborted, failed,
                              slot, body, safe, ran, alone>>,
         NEW result \in Tools!Results, log' = Append(log, <<Len(log) + 1, result>>),
         Len(log) < N,
         result \in {"value", "timeout"} <=> Len(log) + 1 \in ran,
         body[Len(log) + 1] # "running",
         result = "aborted" => signalled # "no",
         \/ pc = "suffix"
         \/ pc = "commit" /\ Len(log) < started /\ slot[Len(log) + 1] # "empty"
  PROVE  StepInv'
<1>0. SignalInv' /\ HolderIsNewest' /\ StopsAreMine' /\ (Mine \in raised)' \in BOOLEAN
  BY SignalsUntouched
<1>1. /\ slot \in [1 .. N -> {"ready", "value", "timeout", "aborted", "empty"}]
      /\ body \in [1 .. N -> {"none", "running", "done"}]
      /\ ran \subseteq 1 .. N /\ alone \subseteq 1 .. N
      /\ Len(log) \in Nat /\ MaxParallel \in Nat
      /\ base \in Nat /\ last \in Nat /\ N \in Nat /\ started \in 0 .. N
  BY TurnAssumption DEF StepInv, StepTypeOK, Tools!TypeOK, Tools!Calls, Tools!Results
<1>2. /\ Len(log') = Len(log) + 1
      /\ log'[Len(log) + 1] = <<Len(log) + 1, result>>
      /\ \A k \in 1 .. Len(log) : log'[k] = log[k]
      /\ log' \in Seq((1 .. N) \X Tools!Results)
  <2>1. log \in Seq((1 .. N) \X Tools!Results)
    BY DEF StepInv, StepTypeOK, Tools!TypeOK, Tools!Calls
  <2>2. <<Len(log) + 1, result>> \in (1 .. N) \X Tools!Results
    BY <1>1
  <2> HIDE DEF Tools!Results
  <2> QED
    BY <2>1, <2>2
<1>3. Tools!InFlight' = Tools!InFlight
  BY DEF Tools!InFlight
<1>4. StepTypeOK'
  BY <1>0, <1>2, <1>3 DEF StepInv, StepTypeOK, Tools!TypeOK, Tools!Calls
<1>5. CutsAreMine'
  BY <1>1, <1>2 DEF StepInv, CutsAreMine
<1>6. GroupShape' /\ SlotsAreTrue' /\ Accounted' /\ Barrier'
  BY DEF StepInv, GroupShape, SlotsAreTrue, Accounted, Barrier
<1>7. Preparing'
  BY <1>3 DEF StepInv, Preparing
<1>8. LogShape'
  BY <1>1, <1>2 DEF StepInv, LogShape
<1>9. Drains'
  BY <1>1, <1>2 DEF StepInv, Drains
<1> QED
  BY <1>0, <1>4, <1>5, <1>6, <1>7, <1>8, <1>9 DEF StepInv

LEMMA CommitReadyStep ==
  ASSUME StepInv, NEW c \in 1 .. N, InStep(Tools!CommitReady(c))
  PROVE  StepInv'
<1>1. /\ pc = "commit" /\ c = Len(log) + 1 /\ c <= started /\ slot[c] # "empty"
      /\ log' = Append(log, <<Len(log) + 1, slot[c]>>)
  BY DEF InStep, Tools!CommitReady, Tools!Ready, Tools!Committed
<1>2. slot[c] \in Tools!Results /\ Len(log) \in Nat /\ started \in 0 .. N /\ N \in Nat
  BY <1>1, TurnAssumption DEF StepInv, StepTypeOK, Tools!TypeOK, Tools!Calls
<1>3. /\ slot[c] \in {"value", "timeout"} <=> Len(log) + 1 \in ran
      /\ body[Len(log) + 1] # "running"
      /\ slot[c] = "aborted" => signalled # "no"
  BY <1>1, <1>2 DEF StepInv, SlotsAreTrue, CutsAreMine
<1>4. Len(log) < N /\ Len(log) < started
  BY <1>1, <1>2
<1>5. UNCHANGED <<vars, signalled, pc, base, last, parallel, started, aborted, failed,
                  slot, body, safe, ran, alone>>
  BY DEF InStep, Tools!CommitReady, Tools!group
<1> QED
  BY <1>1, <1>2, <1>3, <1>4, <1>5, AppendStep

LEMMA PairAbortedStep ==
  ASSUME StepInv, InStep(Tools!PairAborted)
  PROVE  StepInv'
<1>1. /\ pc = "suffix" /\ Len(log) < N /\ log' = Append(log, <<Len(log) + 1, "aborted">>)
      /\ UNCHANGED <<vars, signalled, pc, base, last, parallel, started, aborted, failed,
                     slot, body, safe, ran, alone>>
  BY DEF InStep, Tools!PairAborted, Tools!Suffix, Tools!Committed, Tools!group
<1>2. Len(log) \in Nat /\ started \in 0 .. N /\ N \in Nat
  BY TurnAssumption DEF StepInv, StepTypeOK, Tools!TypeOK
<1>3. Len(log) + 1 \notin ran /\ body[Len(log) + 1] # "running" /\ signalled # "no"
  BY <1>1, <1>2 DEF StepInv, SlotsAreTrue, Drains, CutsAreMine
<1>4. "aborted" \in Tools!Results
  BY DEF Tools!Results
<1> QED
  BY <1>1, <1>3, <1>4, AppendStep

LEMMA CoordinatorStep ==
  ASSUME StepInv, InStep(Tools!Coordinator)
  PROVE  StepInv'
<1>1. \/ InStep(Tools!NextGroup) \/ InStep(Tools!Return) \/ InStep(Tools!StartCall)
      \/ InStep(Tools!Reap) \/ InStep(Tools!Check) \/ InStep(Tools!CommitDone)
      \/ InStep(Tools!GroupDone) \/ InStep(Tools!PairAborted) \/ InStep(Tools!ReturnAborted)
      \/ InStep(Tools!Raise)
      \/ \E c \in 1 .. N : InStep(Tools!CommitReady(c))
  BY DEF InStep, Tools!Coordinator, Tools!Calls
<1> QED
  BY <1>1, NextGroupStep, ReturnStep, StartCallStep, ReapStep, CheckStep, CommitDoneStep,
     GroupDoneStep, PairAbortedStep, ReturnAbortedStep, RaiseStep, CommitReadyStep

LEMMA StepStep == StepInv /\ [TurnNext]_turn => StepInv'
<1> SUFFICES ASSUME StepInv, [TurnNext]_turn PROVE StepInv'
  OBVIOUS
<1>0. SignalInv'
  BY SignalStep, TurnStepsAreSignals DEF StepInv
<1>1. CASE UNCHANGED turn
  <2>1. HolderIsNewest' /\ StopsAreMine' /\ signalled' \in {"no", "may", "yes"}
    BY <1>1, SignalsUntouched DEF turn, StepInv, StepTypeOK
  <2> QED
    BY <1>0, <1>1, <2>1, StepUntouched DEF turn, step
<1>2. CASE \/ Register \/ Press \/ Shutdown \/ (\E r \in Runs : SignalRun(r) \/ Quietly(ClearAbort(r)))
           \/ Quietly(DiscardPendingAbort) \/ Quietly(Tick)
  BY <1>0, <1>2, AroundStep, StepUntouched
<1>3. CASE InStep(Tools!Coordinator)
  BY <1>3, CoordinatorStep
<1>6. CASE InStep(Tools!PreparationEnds)
  BY <1>6, PreparedStep DEF InStep, Tools!PreparationEnds
<1>4. CASE InStep(Tools!Raises) \/ InStep(Tools!RaisesPairing)
  BY <1>4, RaisesStep, RaisesPairingStep
<1>5. ASSUME NEW c \in Tools!Calls, InStep(Tools!BodyEnds(c)) \/ InStep(Tools!Reclassify(c))
      PROVE  StepInv'
  <2>1. CASE InStep(Tools!Reclassify(c))
    BY <2>1, ReclassifyStep
  <2>2. CASE InStep(Tools!BodyEnds(c))
    <3>1. PICK result \in {"value", "timeout", "error"} : InStep(Tools!Settle(c, result))
      BY <2>2 DEF InStep, Tools!BodyEnds
    <3> QED
      BY <3>1, SettleStep DEF Tools!Calls
  <2> QED
    BY <1>5, <2>1, <2>2
<1> QED
  BY <1>1, <1>2, <1>3, <1>4, <1>5, <1>6 DEF TurnNext

LEMMA StepInvariant == TurnSpec => []StepInv
  BY StepInit, StepStep, PTL DEF TurnSpec

-----------------------------------------------------------------------------
(* The results.                                                            *)

\* The tool calls of a step (run_ordered_tool_calls) under the signals of its
\* session, for every number of calls and runs and every pool: at most
\* max_parallel bodies and exclusive ones alone, results true, in the model's
\* order and cut only by a signal for this run, nothing open or missing at the end.
THEOREM StepSafe == TurnSpec => []StepIsSound
<1>1. StepInv => StepIsSound
  <2> SUFFICES ASSUME StepInv PROVE StepIsSound
    OBVIOUS
  <2>0. Len(log) \in Nat /\ started \in 0 .. N /\ alone \subseteq 1 .. N
    BY TurnAssumption DEF StepInv, StepTypeOK, Tools!TypeOK, Tools!Calls
  <2>1. TypeOK /\ StepTypeOK
    BY DEF StepInv, SignalInv
  <2>2. CommittedInOrder /\ CommittedIsTrue /\ AbortedWasSignalled
    BY <2>0 DEF StepInv, LogShape, CutsAreMine, CommittedInOrder, Tools!CommittedInOrder,
           CommittedIsTrue, Tools!CommittedIsTrue, AbortedWasSignalled
  <2>3. ExclusiveIsAlone
    <3> SUFFICES ASSUME NEW c \in alone, body[c] = "running" PROVE Tools!Bodies = {c}
      BY DEF ExclusiveIsAlone, Tools!ExclusiveIsAlone
    <3>1. c \in 1 .. N /\ ~parallel /\ pc \notin {"outer", "done"}
      BY <2>0 DEF StepInv, Barrier, Drains
    <3>2. last = base + 1 /\ started <= last /\ base \in Nat
      BY <3>1 DEF StepInv, GroupShape, StepTypeOK, Tools!TypeOK
    <3>3. \A k \in 1 .. N : body[k] = "running" => k = base + 1
      BY <2>0, <3>2 DEF StepInv, SlotsAreTrue
    <3> QED
      BY <3>1, <3>3 DEF Tools!Bodies, Tools!Calls
  <2>4. LeavesNothingOpen
    BY DEF StepInv, Drains, LeavesNothingOpen, Tools!LeavesNothingOpen, Tools!Bodies, Tools!Calls
  <2> QED
    BY <2>1, <2>2, <2>3, <2>4 DEF StepIsSound
<1> QED
  BY <1>1, StepInvariant, PTL

\* After a signal that found the run no tool body is started any more, also when
\* the signal came while the call was prepared (start_call checks the signal
\* after the preparation).
THEOREM HaltSafe == TurnSpec => StopHalts
<1>1. StepInv /\ [TurnNext]_turn => [signalled = "yes" => ran' = ran]_turn
  <2> SUFFICES ASSUME StepInv, [TurnNext]_turn, signalled = "yes" PROVE ran' = ran
    OBVIOUS
  <2>1. CASE UNCHANGED turn \/ UNCHANGED step
    BY <2>1 DEF turn, step
  <2>2. CASE InStep(Tools!Coordinator)
    BY <2>2 DEF InStep, Tools!Coordinator, Tools!NextGroup, Tools!Return, Tools!StartCall,
       Tools!Reap, Tools!Check, Tools!CommitDone, Tools!GroupDone, Tools!CommitReady,
       Tools!PairAborted, Tools!ReturnAborted, Tools!Raise
  <2>5. CASE InStep(Tools!PreparationEnds)
    <3>1. Mine \in raised
      BY <2>5 DEF InStep, StepInv, StopsAreMine
    <3>2. ASSUME NEW b \in BOOLEAN, Tools!Prepared(b) PROVE ran' = ran
      BY <3>1, <3>2 DEF Tools!Prepared
    <3> QED
      BY <2>5, <3>2 DEF InStep, Tools!PreparationEnds
  <2>3. CASE InStep(Tools!Raises) \/ InStep(Tools!RaisesPairing)
    BY <2>3 DEF InStep, Tools!Raises, Tools!RaisesPairing
  <2>4. ASSUME NEW c \in Tools!Calls, InStep(Tools!BodyEnds(c)) \/ InStep(Tools!Reclassify(c))
        PROVE  ran' = ran
    BY <2>4 DEF InStep, Tools!BodyEnds, Tools!Settle, Tools!Reclassify
  <2> QED
    BY <2>1, <2>2, <2>3, <2>4, <2>5 DEF TurnNext, Register, Press, Shutdown, SignalRun, Quietly, AtAwait
<1> QED
  BY <1>1, StepInvariant, PTL DEF TurnSpec, StopHalts

\* Composed with a step, a stop reaches the newest run (trigger_abort).
THEOREM TurnReachable == TurnSpec => []NewestReachable
  BY TurnImplementsSignals, Reachable, PTL

\* Composed with a step, no run starts stopped by a press that was not meant
\* for it (register_run, discard_pending_abort).
THEOREM TurnAmbushSafe == TurnSpec => NoAmbush
  BY TurnImplementsSignals, AmbushSafe

-----------------------------------------------------------------------------
(* Sequences: what Among, First and concatenation keep.                    *)

\* A set of numbers has a least one.
LEMMA Least ==
  ASSUME NEW T \in SUBSET Nat, T # {}
  PROVE  \E m \in T : \A k \in T : m <= k
  <1> DEFINE R == OpToRel(<, Nat)
  <1>1. IsWellFoundedOn(R, Nat)
    BY NatLessThanWellFounded
  <1>2. \A x, y \in Nat : x < y => <<x, y>> \in R
    BY DEF OpToRel
  <1> HIDE DEF R
  <1>3. PICK x \in T : \A y \in T : ~(<<y, x>> \in R)
    BY <1>1, WFMin
  <1>4. ASSUME NEW y \in T PROVE x <= y
    <2>1. x \in Nat /\ y \in Nat /\ ~(y < x)
      BY <1>2, <1>3
    <2> QED
      BY <2>1
  <1> QED
    BY <1>4

\* Induction up to a bound, for a set of numbers.
LEMMA UpTo ==
  ASSUME NEW M \in Nat, NEW T, 0 \in T, \A n \in 0..M : n \in T /\ n < M => n + 1 \in T
  PROVE  0..M \subseteq T
  <1> SUFFICES ASSUME NEW x \in 0..M, x \notin T PROVE FALSE
    OBVIOUS
  <1> DEFINE B == {n \in 0..M : n \notin T}
  <1>1. PICK m \in B : \A k \in B : m <= k
    <2>1. B \in SUBSET Nat /\ B # {}
      OBVIOUS
    <2> QED BY <2>1, Least
  <1>2. m # 0 /\ m - 1 \in 0..M
    BY <1>1
  <1>3. m - 1 \in T
    BY <1>1, <1>2
  <1> QED BY <1>1, <1>2, <1>3

\* The prefixes that Among goes through.
Builds(s, S, g) ==
  /\ Among(s, S) = g[Len(s)]
  /\ g[0] = <<>>
  /\ \A n \in 1..Len(s) : g[n] = IF s[n] \in S THEN Append(g[n-1], s[n]) ELSE g[n-1]

LEMMA AmongBuilt ==
  ASSUME NEW X, NEW s \in Seq(X), NEW S
  PROVE  \E g \in [0..Len(s) -> Seq(X)] : Builds(s, S, g)
  <1> DEFINE Good(m, g) == /\ g \in [0..m -> Seq(X)] /\ g[0] = <<>>
                           /\ \A n \in 1..m : g[n] = IF s[n] \in S THEN Append(g[n-1], s[n])
                                                                   ELSE g[n-1]
             L == Len(s)
             T == {m \in 0..L : \E g : Good(m, g)}
  <1>0. L \in Nat /\ \A n \in 1..L : s[n] \in X
    OBVIOUS
  <1>1. 0 \in T
    <2>1. Good(0, [n \in 0..0 |-> <<>>])
      OBVIOUS
    <2>2. \E g : Good(0, g)
      BY <2>1
    <2> HIDE DEF Good
    <2> QED BY <2>2, <1>0
  <1>2. ASSUME NEW m \in 0..L, m \in T, m < L PROVE m + 1 \in T
    <2>1. PICK g : Good(m, g)
      BY <1>2
    <2> DEFINE h == [n \in 0..(m+1) |-> IF n <= m THEN g[n]
                       ELSE IF s[m+1] \in S THEN Append(g[m], s[m+1]) ELSE g[m]]
    <2>2. h \in [0..(m+1) -> Seq(X)]
      <3>1. g[m] \in Seq(X) /\ s[m+1] \in X
        BY <2>1, <1>0, <1>2
      <3>2. Append(g[m], s[m+1]) \in Seq(X)
        BY <3>1
      <3>3. ASSUME NEW n \in 0..(m+1) PROVE h[n] \in Seq(X)
        <4>1. n <= m => g[n] \in Seq(X)
          BY <2>1
        <4> QED BY <3>1, <3>2, <4>1
      <3> QED BY <3>3
    <2>3. h[0] = <<>>
      BY <2>1, <1>2
    <2>4. ASSUME NEW n \in 1..(m+1)
          PROVE  h[n] = IF s[n] \in S THEN Append(h[n-1], s[n]) ELSE h[n-1]
      <3>1. CASE n <= m
        <4>1. h[n] = g[n] /\ h[n-1] = g[n-1] /\ n \in 1..m
          BY <3>1, <1>2
        <4> QED BY <4>1, <2>1
      <3>2. CASE n = m + 1
        <4>1. h[n-1] = g[m] /\ h[n] = IF s[m+1] \in S THEN Append(g[m], s[m+1]) ELSE g[m]
          BY <3>2, <1>2
        <4> HIDE DEF h
        <4> QED BY <4>1, <3>2
      <3> QED BY <3>1, <3>2
    <2>5. Good(m + 1, h)
      BY <2>2, <2>3, <2>4
    <2>6. \E k : Good(m + 1, k)
      BY <2>5
    <2> HIDE DEF Good
    <2> QED BY <2>6, <1>2, <1>0
  <1>3. L \in T
    <2> HIDE DEF T
    <2>1. 0..L \subseteq T
      BY <1>0, <1>1, <1>2, UpTo
    <2> QED BY <2>1, <1>0
  <1>4. PICK g : Good(L, g)
    BY <1>3
  <1> DEFINE Unfold(f) == [n \in 0..L |-> IF n = 0 THEN <<>>
                        ELSE IF s[n] \in S THEN Append(f[n-1], s[n]) ELSE f[n-1]]
             r == CHOOSE f : f = Unfold(f)
  <1>5. g = Unfold(g)
    <2>1. ASSUME NEW n \in 0..L PROVE g[n] = Unfold(g)[n]
      <3>1. CASE n = 0
        BY <3>1, <1>4
      <3>2. CASE n # 0
        <4>1. n \in 1..L
          BY <3>2
        <4> QED BY <4>1, <3>2, <1>4, Zenon
      <3> QED BY <3>1, <3>2
    <2>2. g = [n \in 0..L |-> g[n]]
      BY <1>4
    <2>3. Unfold(g) = [n \in 0..L |-> Unfold(g)[n]]
      OBVIOUS
    <2> QED BY <2>1, <2>2, <2>3, Zenon
  <1>6. r = Unfold(r)
    BY <1>5
  <1>7. Among(s, S) = r[L]
    BY DEF Among
  <1> HIDE DEF r
  <1>8. r[0] = <<>> /\ \A n \in 1..L : r[n] = IF s[n] \in S THEN Append(r[n-1], s[n]) ELSE r[n-1]
    <2>1. \A n \in 0..L : r[n] = Unfold(r)[n]
      BY <1>6
    <2> QED BY <2>1, <1>0
  <1>9. \A n \in 0..L : r[n] \in Seq(X)
    <2> DEFINE U == {n \in 0..L : r[n] \in Seq(X)}
    <2>1. 0 \in U
      <3>1. r[0] \in Seq(X)
        <4>1. <<>> \in Seq(X)
          OBVIOUS
        <4> QED BY <4>1, <1>8, Zenon
      <3> QED BY <3>1, <1>0
    <2>2. ASSUME NEW n \in 0..L, n \in U, n < L PROVE n + 1 \in U
      <3>1. n + 1 \in 1..L /\ s[n+1] \in X /\ r[n] \in Seq(X) /\ (n + 1) - 1 = n
        BY <2>2, <1>0
      <3>2. r[n+1] = IF s[n+1] \in S THEN Append(r[n], s[n+1]) ELSE r[n]
        BY <3>1, <1>8
      <3>3. Append(r[n], s[n+1]) \in Seq(X)
        BY <3>1
      <3>4. r[n+1] \in Seq(X)
        BY <3>1, <3>2, <3>3
      <3> QED BY <3>1, <3>4
    <2> HIDE DEF U
    <2>3. 0..L \subseteq U
      BY <1>0, <2>1, <2>2, UpTo
    <2> QED BY <2>3 DEF U
  <1>10. r = [n \in 0..L |-> r[n]]
    BY <1>6
  <1>11. r \in [0..L -> Seq(X)]
    BY <1>9, <1>10
  <1> QED BY <1>7, <1>8, <1>11 DEF Builds

\* Among keeps the items of S, and no two of them are the same if s has each item once.
LEMMA AmongFact ==
  ASSUME NEW X, NEW s \in Seq(X), NEW S
  PROVE  /\ Among(s, S) \in Seq(X)
         /\ Range(Among(s, S)) = Range(s) \cap S
         /\ IsInjective(s) => IsInjective(Among(s, S))
  <1>a. PICK g \in [0..Len(s) -> Seq(X)] : Builds(s, S, g)
    BY AmongBuilt
  <1>0. /\ Among(s, S) = g[Len(s)]
        /\ g[0] = <<>>
        /\ \A n \in 1..Len(s) :
             g[n] = IF s[n] \in S THEN Append(g[n-1], s[n]) ELSE g[n-1]
    BY <1>a DEF Builds
  <1> DEFINE L == Len(s)
             P(n) == /\ \A k \in 1..Len(g[n]) : \E j \in 1..n : g[n][k] = s[j] /\ s[j] \in S
                     /\ \A j \in 1..n : s[j] \in S => \E k \in 1..Len(g[n]) : g[n][k] = s[j]
                     /\ IsInjective(s) => \A k, l \in 1..Len(g[n]) : g[n][k] = g[n][l] => k = l
             T == {n \in 0..L : P(n)}
  <1>1. L \in Nat /\ DOMAIN s = 1..L
    OBVIOUS
  <1>2. 0 \in T
    BY <1>0, <1>1
  <1>3. ASSUME NEW n \in 0..L, n \in T, n < L PROVE n + 1 \in T
    <2>a. P(n)
      BY <1>3
    <2>b. n + 1 \in 1..L /\ n + 1 \in 0..L
      BY <1>3, <1>1
    <2>1. g[n] \in Seq(X) /\ g[n+1] \in Seq(X) /\ n + 1 \in 1..L /\ P(n)
      <3> HIDE DEF P
      <3> QED BY <1>3, <2>a, <2>b
    <2>2. g[n+1] = IF s[n+1] \in S THEN Append(g[n], s[n+1]) ELSE g[n]
      BY <1>0, <1>1, <2>1
    <2>3. CASE s[n+1] \notin S
      <3>1. g[n+1] = g[n]
        BY <2>2, <2>3
      <3>2. P(n+1)
        <4>1. \A k \in 1..Len(g[n+1]) : \E j \in 1..(n+1) : g[n+1][k] = s[j] /\ s[j] \in S
          BY <3>1, <2>1
        <4>2. \A j \in 1..(n+1) : s[j] \in S => \E k \in 1..Len(g[n+1]) : g[n+1][k] = s[j]
          <5> TAKE j \in 1..(n+1)
          <5>1. s[j] \in S => j \in 1..n
            BY <2>3
          <5> QED BY <5>1, <3>1, <2>1
        <4>3. IsInjective(s) => \A k, l \in 1..Len(g[n+1]) : g[n+1][k] = g[n+1][l] => k = l
          BY <3>1, <2>1
        <4> QED BY <4>1, <4>2, <4>3
      <3> QED BY <3>2, <2>1
    <2>4. CASE s[n+1] \in S
      <3>1. g[n+1] = Append(g[n], s[n+1])
        BY <2>2, <2>4
      <3> DEFINE q == g[n]  r == g[n+1]  e == s[n+1]
      <3>2. /\ Len(r) = Len(q) + 1 /\ Len(q) \in Nat
            /\ \A k \in 1..Len(q) : r[k] = q[k]
            /\ r[Len(q) + 1] = e
        BY <3>1, <2>1
      <3> HIDE DEF q, r, e
      <3>3. \A k \in 1..Len(r) : \E j \in 1..(n+1) : r[k] = s[j] /\ s[j] \in S
        <4> TAKE k \in 1..Len(r)
        <4>1. CASE k = Len(q) + 1
          BY <4>1, <3>2, <2>4, <2>1 DEF e
        <4>2. CASE k \in 1..Len(q)
          <5>1. PICK j \in 1..n : q[k] = s[j] /\ s[j] \in S
            BY <4>2, <2>1 DEF q
          <5> QED BY <5>1, <4>2, <3>2
        <4> QED BY <4>1, <4>2, <3>2
      <3>4. \A j \in 1..(n+1) : s[j] \in S => \E k \in 1..Len(r) : r[k] = s[j]
        <4> SUFFICES ASSUME NEW j \in 1..(n+1), s[j] \in S PROVE \E k \in 1..Len(r) : r[k] = s[j]
          OBVIOUS
        <4>1. CASE j = n + 1
          BY <4>1, <3>2 DEF e
        <4>2. CASE j \in 1..n
          <5>1. PICK k \in 1..Len(q) : q[k] = s[j]
            BY <4>2, <2>1 DEF q
          <5> QED BY <5>1, <3>2
        <4> QED BY <4>1, <4>2
      <3>5. IsInjective(s) => \A k, l \in 1..Len(r) : r[k] = r[l] => k = l
        <4> SUFFICES ASSUME IsInjective(s), NEW k \in 1..Len(r), NEW l \in 1..Len(r), r[k] = r[l]
                     PROVE  k = l
          OBVIOUS
        <4>1. \A m \in 1..Len(q) : q[m] # e
          <5> SUFFICES ASSUME NEW m \in 1..Len(q), q[m] = e PROVE FALSE
            OBVIOUS
          <5>1. PICK j \in 1..n : q[m] = s[j]
            BY <2>1 DEF q
          <5>2. s[j] = s[n+1] /\ j \in 1..L /\ n + 1 \in 1..L /\ j # n + 1
            BY <5>1, <2>1 DEF e
          <5>3. \A x, y \in 1..L : s[x] = s[y] => x = y
            BY <1>1 DEF IsInjective
          <5> HIDE DEF L
          <5> QED BY <5>2, <5>3
        <4>2. \A a, b \in 1..Len(q) : q[a] = q[b] => a = b
          BY <2>1 DEF q
        <4>3. /\ (k \in 1..Len(q) /\ r[k] = q[k]) \/ (k = Len(q) + 1 /\ r[k] = e)
              /\ (l \in 1..Len(q) /\ r[l] = q[l]) \/ (l = Len(q) + 1 /\ r[l] = e)
          BY <3>2
        <4>4. CASE k \in 1..Len(q) /\ r[k] = q[k] /\ l \in 1..Len(q) /\ r[l] = q[l]
          BY <4>2, <4>4
        <4>5. CASE ~(k \in 1..Len(q) /\ r[k] = q[k] /\ l \in 1..Len(q) /\ r[l] = q[l])
          BY <4>1, <4>3, <4>5
        <4> QED BY <4>4, <4>5
      <3>6. P(n + 1)
        BY <3>3, <3>4, <3>5 DEF r
      <3> QED BY <3>6, <2>1
    <2> QED BY <2>3, <2>4
  <1>4. P(L)
    <2> HIDE DEF T
    <2>1. 0..L \subseteq T
      BY <1>1, <1>2, <1>3, UpTo
    <2>2. L \in T
      BY <2>1, <1>1
    <2> QED BY <2>2 DEF T
  <1> DEFINE a == Among(s, S)
  <1>5. a = g[L] /\ a \in Seq(X) /\ DOMAIN a = 1..Len(a)
    BY <1>0, <1>1
  <1>6. Range(a) = Range(s) \cap S
    <2>1. ASSUME NEW x \in Range(a) PROVE x \in Range(s) \cap S
      <3>1. PICK k \in 1..Len(a) : x = a[k]
        BY <1>5, <2>1 DEF Range
      <3>2. PICK j \in 1..L : a[k] = s[j] /\ s[j] \in S
        BY <1>4, <1>5
      <3> QED BY <3>1, <3>2, <1>1 DEF Range
    <2>2. ASSUME NEW x \in Range(s), x \in S PROVE x \in Range(a)
      <3>1. PICK j \in 1..L : x = s[j]
        BY <1>1, <2>2 DEF Range
      <3>2. PICK k \in 1..Len(a) : a[k] = s[j]
        BY <1>4, <1>5, <3>1, <2>2
      <3> QED BY <3>1, <3>2, <1>5 DEF Range
    <2> QED BY <2>1, <2>2
  <1>7. IsInjective(s) => IsInjective(a)
    BY <1>4, <1>5 DEF IsInjective
  <1> QED BY <1>5, <1>6, <1>7

LEMMA FirstFact ==
  ASSUME NEW X, NEW s \in Seq(X), NEW n \in Nat
  PROVE  /\ First(s, n) \in Seq(X)
         /\ Range(First(s, n)) \subseteq Range(s)
         /\ IsInjective(s) => IsInjective(First(s, n))
         /\ n = 1 => \A x, y \in Range(First(s, n)) : x = y
  <1> DEFINE m == IF Len(s) < n THEN Len(s) ELSE n
             r == First(s, n)
  <1>1. m \in 0..Len(s) /\ Len(s) \in Nat /\ (n = 1 => m <= 1)
    OBVIOUS
  <1>2. r = SubSeq(s, 1, m)
    BY DEF First
  <1> HIDE DEF m, r
  <1>3. r \in Seq(X) /\ Len(r) = m /\ \A k \in 1..m : r[k] = s[k]
    BY <1>1, <1>2
  <1>4. DOMAIN r = 1..m /\ DOMAIN s = 1..Len(s)
    BY <1>3
  <1>5. Range(r) \subseteq Range(s)
    BY <1>1, <1>3, <1>4 DEF Range
  <1>6. IsInjective(s) => IsInjective(r)
    <2>1. \A k \in DOMAIN r : k \in DOMAIN s /\ r[k] = s[k]
      BY <1>1, <1>3, <1>4
    <2> QED BY <2>1 DEF IsInjective
  <1>7. ASSUME n = 1, NEW x \in Range(r), NEW y \in Range(r) PROVE x = y
    <2>1. PICK k \in 1..m : x = r[k]
      BY <1>4, <1>7 DEF Range
    <2>2. PICK l \in 1..m : y = r[l]
      BY <1>4, <1>7 DEF Range
    <2>3. k = l
      BY <1>1, <1>7
    <2> QED BY <2>1, <2>2, <2>3
  <1> QED BY <1>3, <1>5, <1>6, <1>7 DEF r

LEMMA JoinFact ==
  ASSUME NEW X, NEW s \in Seq(X), NEW t \in Seq(X)
  PROVE  /\ s \o t \in Seq(X)
         /\ Range(s \o t) = Range(s) \cup Range(t)
         /\ IsInjective(s) /\ IsInjective(t) /\ Range(s) \cap Range(t) = {}
              => IsInjective(s \o t)
  <1> DEFINE r == s \o t
  <1>1. /\ r \in Seq(X) /\ Len(r) = Len(s) + Len(t) /\ Len(s) \in Nat /\ Len(t) \in Nat
        /\ DOMAIN r = 1..(Len(s) + Len(t)) /\ DOMAIN s = 1..Len(s) /\ DOMAIN t = 1..Len(t)
    OBVIOUS
  <1>2. /\ \A k \in 1..Len(s) : r[k] = s[k] /\ k \in DOMAIN r
        /\ \A k \in 1..Len(t) : r[Len(s) + k] = t[k] /\ Len(s) + k \in DOMAIN r
    OBVIOUS
  <1>3. \A k \in DOMAIN r : \/ k \in 1..Len(s) /\ r[k] = s[k]
                            \/ k - Len(s) \in 1..Len(t) /\ r[k] = t[k - Len(s)]
    OBVIOUS
  <1> HIDE DEF r
  <1>4. Range(r) \subseteq Range(s) \cup Range(t)
    BY <1>1, <1>3 DEF Range
  <1>5. Range(s) \subseteq Range(r) /\ Range(t) \subseteq Range(r)
    BY <1>1, <1>2 DEF Range
  <1>6. ASSUME IsInjective(s), IsInjective(t), Range(s) \cap Range(t) = {}
        PROVE  IsInjective(r)
    <2> SUFFICES ASSUME NEW k \in DOMAIN r, NEW l \in DOMAIN r, r[k] = r[l] PROVE k = l
      BY DEF IsInjective
    <2>1. \A x \in 1..Len(s), y \in 1..Len(t) : s[x] # t[y]
      BY <1>1, <1>6 DEF Range
    <2>2. \A x, y \in 1..Len(s) : s[x] = s[y] => x = y
      BY <1>1, <1>6 DEF IsInjective
    <2>3. \A x, y \in 1..Len(t) : t[x] = t[y] => x = y
      BY <1>1, <1>6 DEF IsInjective
    <2>4. CASE k \in 1..Len(s) /\ r[k] = s[k] /\ l \in 1..Len(s) /\ r[l] = s[l]
      BY <2>4, <2>2
    <2>5. CASE /\ k - Len(s) \in 1..Len(t) /\ r[k] = t[k - Len(s)]
               /\ l - Len(s) \in 1..Len(t) /\ r[l] = t[l - Len(s)]
      <3>1. k - Len(s) = l - Len(s)
        BY <2>5, <2>3
      <3> QED BY <3>1, <1>1
    <2> QED BY <1>3, <2>1, <2>4, <2>5
  <1> QED BY <1>1, <1>4, <1>5, <1>6 DEF r

\* The last and the first item of a sequence are in its range.
LEMMA EndsFact ==
  ASSUME NEW X, NEW s \in Seq(X), s # <<>>
  PROVE  Last(s) \in Range(s) /\ Head(s) \in Range(s)
  <1>1. Len(s) \in DOMAIN s /\ 1 \in DOMAIN s /\ Head(s) = s[1]
    OBVIOUS
  <1> QED BY <1>1 DEF Last, Range

LEMMA EmptyFact ==
  ASSUME NEW X, NEW s \in Seq(X)
  PROVE  s = <<>> <=> Range(s) = {}
  <1>1. s = <<>> => Range(s) = {}
    BY DEF Range
  <1>2. s # <<>> => Range(s) # {}
    BY EndsFact
  <1> QED BY <1>1, <1>2

LEMMA LastOfFact ==
  ASSUME NEW X, NEW s \in Seq(X), NEW S, Range(s) \cap S # {}
  PROVE  LastOf(s, S) \in S
  <1>1. Among(s, S) \in Seq(X) /\ Range(Among(s, S)) = Range(s) \cap S
    BY AmongFact
  <1>2. Among(s, S) # <<>>
    BY <1>1, EmptyFact
  <1>3. Last(Among(s, S)) \in Range(Among(s, S))
    BY <1>1, <1>2, EndsFact
  <1> QED BY <1>1, <1>3 DEF LastOf

-----------------------------------------------------------------------------
\* Rows, messages and turns.  An item that has no message is in no turn and has not
\* been seen; a turn is named after one of its items, and the turn of the run too.
Queued == IsInjective(queue) /\ Range(queue) = {i \in Items : item[i].state # "new"}
Rows ==
  /\ Queued
  /\ IsInjective(messages) /\ Range(messages) = State("claimed") \cup State("settled")
  /\ \A i \in Items :
       /\ item[i].gen <= generation
       /\ IF item[i].state \in {"claimed", "settled"} THEN item[i].turn # None
          ELSE item[i].turn = None /\ ~item[i].seen /\ item[i].ranBy = 0

SameTurn(i, j) == item[i].turn # None /\ item[i].turn = item[j].turn
Shapes ==
  /\ \A i \in Items : item[i].turn # None => item[item[i].turn].turn = item[i].turn
  /\ \A i, j \in Items :
       SameTurn(i, j) => /\ NextTurn(i) /\ NextTurn(j) => i = j
                         /\ Kind[i] = "report" => i = j
  /\ trigger # None => item[trigger].turn = trigger

\* Where the worker is, and what the driver row says of it.
Replaying == task = "rebind" /\ plan \in {"replay", "redeliver"}
Driver ==
  /\ live <=> task # "none"
  /\ phase = "idle" => ~live /\ trigger = None
  /\ task \in {"claim", "deliver", "delivered", "start", "refused", "boot", "unclaimed"}
       \/ Replaying => phase = "reserved"
  /\ task \in {"boundary", "stepDeliver", "stepDelivered", "step", "stream", "final"}
       => phase = "running"
  /\ task \in {"settle", "finish", "repair", "resettle", "answered"} \/ (task = "rebind" /\ ~Replaying)
       => phase = "finalizing"
  /\ task \in {"deliver", "delivered", "start", "refused", "boot", "unclaimed", "boundary",
               "stepDeliver", "stepDelivered", "step", "stream"} \/ Replaying
       => trigger # None
  /\ task = "claim" => trigger = None
  /\ task \in {"claim", "rebind", "unclaimed"} => Claimed(generation) = {}

\* The claims of a run belong to its turn; before the run none of them was seen,
\* and the turn was never run, or by this generation only.
Unrun(g) == /\ \A i \in Claimed(g) : item[i].turn = trigger /\ ~item[i].seen
            /\ trigger = None => Claimed(g) = {}
            /\ trigger # None => item[trigger].ranBy = 0
Claims ==
  /\ phase = "reserved" => Unrun(generation)
  /\ Replaying => Unrun(from)
  /\ phase = "running" => /\ \A i \in Claimed(generation) : item[i].turn = trigger
                          /\ trigger # None
  /\ phase = "running" /\ live => item[trigger].ranBy \in {0, generation}

\* Deliveries.
Files ==
  /\ \A i \in Items : verdict[i] # "none" =>
       /\ task \in {"deliver", "delivered", "stepDeliver", "stepDelivered"}
       /\ ~item[i].seen
       /\ i \in Claimed(generation)
            \/ (task \in {"delivered", "stepDelivered"} /\ verdict[i] = "terminal"
                /\ item[i].state = "settled")
  /\ task \in {"delivered", "stepDelivered"} =>
       \A i \in Items : /\ verdict[i] # "todo"
                        /\ verdict[i] = "terminal" => i \notin Claimed(generation)
  /\ task \in {"deliver", "delivered", "stepDeliver", "stepDelivered", "start", "boot",
               "boundary", "step", "stream"} =>
       \A i \in Claimed(generation) \cap Attached :
         verdict[i] \in {"none", "run"} => item[i].delivered
  /\ task = "rebind" /\ plan = "replay" => Claimed(from) \cap Attached = {}

\* A report whose turn may still run is claimed; before the run, it is or has a reply.
Reports ==
  trigger # None /\ Kind[trigger] = "report" =>
    /\ phase = "reserved" => item[trigger].state = "claimed" \/ item[trigger].reply # "none"
    /\ task \in {"deliver", "start", "refused", "boot", "unclaimed", "boundary", "step", "stream"}
         \/ Replaying => item[trigger].state = "claimed"
    /\ task \notin {"stepDeliver", "stepDelivered"}

Unseen == \A i \in Items : item[i].outcome = "delivery_error" => ~item[i].seen

InboxInv ==
  /\ InboxTypeOK /\ Rows /\ Shapes /\ Driver /\ Claims /\ Files /\ Reports /\ Unseen

-----------------------------------------------------------------------------
(* Steps that leave claims, turns and what was seen as they are.           *)

LEMMA RowFact ==
  ASSUME InboxTypeOK, NEW i \in Items
  PROVE  /\ item[i] \in Row
         /\ item[i].state \in {"new", "accepted", "claimed", "settled", "canceled"}
         /\ item[i].gen \in 0..MaxGeneration /\ item[i].turn \in Items \cup {None}
         /\ item[i].attempts \in 0..MaxAttempts /\ item[i].again \in 0..MaxAttempts
         /\ item[i].reply \in {"none", "open", "tools", "done"}
         /\ item[i].delivered \in BOOLEAN /\ item[i].seen \in BOOLEAN
         /\ item[i].ranBy \in 0..MaxGeneration /\ item[i].outcome \in Outcomes
  BY DEF InboxTypeOK, Row

\* A change of one field of a row: the result is a row that differs in that field.
LEMMA EditFact ==
  ASSUME NEW r \in Row
  PROVE  /\ [r EXCEPT !.state = "accepted"] \in Row
         /\ [r EXCEPT !.state = "canceled", !.outcome = "canceled"] \in Row
         /\ [r EXCEPT !.gone = TRUE] \in Row
         /\ [r EXCEPT !.expired = TRUE] \in Row
         /\ [r EXCEPT !.delivered = TRUE] \in Row
         /\ \A a \in 0..MaxAttempts : [r EXCEPT !.again = a] \in Row
         /\ \A v \in {"none", "open", "tools", "done"} : [r EXCEPT !.reply = v] \in Row
  <1>1. [r EXCEPT !.state = "accepted"] \in Row
    BY DEF Row
  <1>2. [r EXCEPT !.state = "canceled", !.outcome = "canceled"] \in Row
    BY DEF Row, Outcomes
  <1>3. [r EXCEPT !.gone = TRUE] \in Row
    BY DEF Row
  <1>4. [r EXCEPT !.expired = TRUE] \in Row
    BY DEF Row
  <1>5. [r EXCEPT !.delivered = TRUE] \in Row
    BY DEF Row
  <1>6. \A a \in 0..MaxAttempts : [r EXCEPT !.again = a] \in Row
    BY DEF Row
  <1>7. \A v \in {"none", "open", "tools", "done"} : [r EXCEPT !.reply = v] \in Row
    BY DEF Row
  <1> QED BY <1>1, <1>2, <1>3, <1>4, <1>5, <1>6, <1>7

\* The row of i keeps what the invariant is about.
Alike(i) ==
  /\ \/ item'[i].state = item[i].state
     \/ {item'[i].state, item[i].state} \subseteq {"new", "accepted", "canceled"}
  /\ item'[i].outcome \in {item[i].outcome, "canceled"} /\ item'[i].gen = item[i].gen
  /\ item'[i].turn = item[i].turn /\ item'[i].ranBy = item[i].ranBy
  /\ item'[i].seen = item[i].seen
  /\ item[i].delivered => item'[i].delivered
  /\ item[i].reply # "none" => item'[i].reply # "none"

LEMMA ItemsKept ==
  ASSUME InboxInv, \A i \in Items : Alike(i), Queued', UNCHANGED messages,
         generation' \in Nat, generation <= generation'
  PROVE  /\ Rows' /\ Unseen'
         /\ trigger' \in {trigger, None} => Shapes'
         /\ \A g : Claimed(g)' = Claimed(g)
  <1>1. generation \in Nat /\ \A i \in Items : item[i].gen \in Nat /\ item[i].turn \in Items \cup {None}
    BY RowFact, KindAssumption DEF InboxInv, InboxTypeOK
  <1>2. \A g : Claimed(g)' = Claimed(g)
    BY DEF Alike, Claimed, State
  <1>3. Rows'
    <2>1. State("claimed")' = State("claimed") /\ State("settled")' = State("settled")
      BY DEF State, Alike
    <2>3. ASSUME NEW i \in Items
          PROVE  /\ item'[i].gen <= generation'
                 /\ IF item'[i].state \in {"claimed", "settled"} THEN item'[i].turn # None
                    ELSE item'[i].turn = None /\ ~item'[i].seen /\ item'[i].ranBy = 0
      BY <1>1 DEF InboxInv, Rows, Alike
    <2> QED BY <2>1, <2>3 DEF InboxInv, Rows
  <1>4. Unseen'
    BY DEF InboxInv, Unseen, Alike
  <1>5. ASSUME trigger' \in {trigger, None} PROVE Shapes'
    <2>0. trigger \in Items \cup {None}
      BY DEF InboxInv, InboxTypeOK
    <2>1. \A i \in Items : item'[i].turn # None => item'[item'[i].turn].turn = item'[i].turn
      BY <1>1 DEF InboxInv, Shapes, Alike
    <2>2. \A i, j \in Items :
            SameTurn(i, j)' => /\ NextTurn(i) /\ NextTurn(j) => i = j
                               /\ Kind[i] = "report" => i = j
      BY DEF InboxInv, Shapes, SameTurn, Alike
    <2>3. trigger' # None => item'[trigger'].turn = trigger'
      BY <1>5, <2>0 DEF InboxInv, Shapes, Alike
    <2> QED BY <2>1, <2>2, <2>3 DEF Shapes, NextTurn
  <1> QED BY <1>2, <1>3, <1>4, <1>5

\* The environment changes no claim and no worker.
LEMMA Untouched ==
  ASSUME InboxInv, InboxTypeOK', \A i \in Items : Alike(i),
         Queued', UNCHANGED <<driver, messages, worker>>
  PROVE  InboxInv'
  <1>0. generation \in Nat /\ UNCHANGED <<generation, live, phase, trigger, task, plan, from, verdict>>
    BY KindAssumption DEF InboxInv, InboxTypeOK, driver, worker
  <1>1. Rows' /\ Unseen' /\ Shapes' /\ \A g : Claimed(g)' = Claimed(g)
    BY <1>0, ItemsKept
  <1>2. /\ Claimed(generation)' = Claimed(generation) /\ Claimed(from)' = Claimed(from)
        /\ trigger \in Items \cup {None}
    <2>1. Claimed(generation)' = Claimed(generation) /\ Claimed(from)' = Claimed(from)
      BY <1>0 DEF Claimed, State, Alike
    <2> QED BY <2>1 DEF InboxInv, InboxTypeOK
  <1>3. Driver'
    BY <1>0, <1>2 DEF InboxInv, Driver, Replaying
  <1>4. Claims'
    <2>1. \A i \in Items : item'[i].turn = item[i].turn /\ item'[i].seen = item[i].seen
                           /\ item'[i].ranBy = item[i].ranBy
      BY DEF Alike
    <2>2. Claimed(generation) \subseteq Items /\ Claimed(from) \subseteq Items
      BY DEF Claimed, State
    <2> QED BY <1>0, <1>2, <2>1, <2>2 DEF InboxInv, Claims, Unrun, Replaying
  <1>5. Files'
    <2>1. \A i \in Items : (item'[i].state = "settled" <=> item[i].state = "settled") /\ item'[i].seen = item[i].seen
                           /\ (item[i].delivered => item'[i].delivered)
      BY DEF Alike
    <2>2. Claimed(generation) \subseteq Items
      BY DEF Claimed, State
    <2> QED BY <1>0, <1>2, <2>1, <2>2 DEF InboxInv, Files
  <1>6. Reports'
    BY <1>0, <1>2 DEF InboxInv, Reports, Replaying, Alike
  <1> QED BY <1>1, <1>3, <1>4, <1>5, <1>6 DEF InboxInv

\* The queue is as it was when no row came into being.
LEMMA QueueKept ==
  ASSUME InboxInv, queue' = queue,
         \A i \in Items : item'[i].state = "new" <=> item[i].state = "new"
  PROVE  Queued'
  BY DEF InboxInv, Rows, Queued

LEMMA AcceptStep ==
  ASSUME InboxInv, NEW x \in Items, Accept(x) PROVE InboxInv'
  <1>1. /\ item' = [item EXCEPT ![x].state = "accepted"] /\ item[x].state = "new"
        /\ queue' = Append(queue, x) /\ UNCHANGED <<driver, execution, messages, worker, faults>>
    BY DEF Accept
  <1>a. item \in [Items -> Row]
    BY DEF InboxInv, InboxTypeOK
  <1>b. /\ item'[x] = [item[x] EXCEPT !.state = "accepted"]
        /\ \A i \in Items : i # x => item'[i] = item[i]
        /\ item' \in [Items -> Row]
    BY <1>1, <1>a, EditFact
  <1>2. InboxTypeOK'
    <2>1. queue' \in Seq(Items)
      BY <1>1 DEF InboxInv, InboxTypeOK
    <2> QED BY <1>1, <1>b, <2>1 DEF InboxInv, InboxTypeOK, driver, execution, worker
  <1>3. \A i \in Items : Alike(i)
    <2>1. Alike(x) /\ item'[x].state = "accepted"
      BY <1>a, <1>b, <1>1 DEF Alike, Row
    <2> QED BY <2>1, <1>b DEF Alike
  <1>4. Queued'
    <2>1. queue \in Seq(Items) /\ <<x>> \in Seq(Items) /\ queue' = queue \o <<x>>
      BY <1>1 DEF InboxInv, InboxTypeOK
    <2>2. Range(<<x>>) = {x} /\ IsInjective(<<x>>)
      BY DEF Range, IsInjective
    <2>3. IsInjective(queue) /\ Range(queue) = {i \in Items : item[i].state # "new"}
      BY DEF InboxInv, Rows, Queued
    <2>a. /\ Range(queue \o <<x>>) = Range(queue) \cup Range(<<x>>)
          /\ IsInjective(queue) /\ IsInjective(<<x>>) /\ Range(queue) \cap Range(<<x>>) = {}
               => IsInjective(queue \o <<x>>)
      BY <2>1, JoinFact
    <2>4. IsInjective(queue') /\ Range(queue') = Range(queue) \cup {x}
      BY <2>1, <2>2, <2>3, <1>1, <2>a
    <2>5. {i \in Items : item'[i].state # "new"} = {i \in Items : item[i].state # "new"} \cup {x}
      <3>1. item'[x].state = "accepted"
        BY <1>a, <1>b DEF Row
      <3> QED BY <3>1, <1>b
    <2> QED BY <2>3, <2>4, <2>5 DEF Queued
  <1> QED BY <1>1, <1>2, <1>3, <1>4, Untouched

LEMMA CancelStep ==
  ASSUME InboxInv, NEW S, CancelRows(S),
         UNCHANGED <<driver, execution, queue, messages, worker, faults>>
  PROVE  InboxInv'
  <1>1. item' = [i \in Items |->
                   IF i \in S /\ item[i].state = "accepted"
                   THEN [item[i] EXCEPT !.state = "canceled", !.outcome = "canceled"]
                   ELSE item[i]]
    BY DEF CancelRows
  <1>2. InboxTypeOK'
    <2>1. item \in [Items -> Row]
      BY DEF InboxInv, InboxTypeOK
    <2>2. \A i \in Items : item'[i] \in Row
      BY <1>1, <2>1, EditFact
    <2>3. item' \in [Items -> Row]
      BY <1>1, <2>2
    <2> QED BY <2>3 DEF InboxInv, InboxTypeOK, driver, execution, worker
  <1>3. ASSUME NEW i \in Items
        PROVE  Alike(i) /\ (item'[i].state = "new" <=> item[i].state = "new")
    <2>1. item[i] \in Row
      BY DEF InboxInv, InboxTypeOK
    <2>2. CASE i \in S /\ item[i].state = "accepted"
      <3>1. item'[i] = [item[i] EXCEPT !.state = "canceled", !.outcome = "canceled"]
        BY <1>1, <2>2
      <3> QED BY <3>1, <2>1, <2>2 DEF Row, Alike
    <2>3. CASE ~(i \in S /\ item[i].state = "accepted")
      BY <1>1, <2>3 DEF Alike
    <2> QED BY <2>2, <2>3
  <1>4. Queued'
    BY <1>3, QueueKept
  <1> QED BY <1>2, <1>3, <1>4, Untouched

\* What other parties do: a deleted asset, clocks, cards and executions.
LEMMA OutsideStep ==
  ASSUME InboxInv,
         \/ \E i \in Items : DeleteAsset(i) \/ ClaimExpires(i)
         \/ Ask \/ CardGone \/ TicketExpires \/ RecoverExpiredRun \/ CancelSession
  PROVE  InboxInv'
  <1>1. CASE \E i \in Items : DeleteAsset(i) \/ ClaimExpires(i)
    <2>1. PICK x \in Items : DeleteAsset(x) \/ ClaimExpires(x)
      BY <1>1
    <2>2. /\ \/ item' = [item EXCEPT ![x].gone = TRUE]
             \/ item' = [item EXCEPT ![x].expired = TRUE]
          /\ UNCHANGED <<driver, execution, queue, messages, worker, faults>>
      BY <2>1 DEF DeleteAsset, ClaimExpires
    <2>a. item \in [Items -> Row]
      BY DEF InboxInv, InboxTypeOK
    <2>b. /\ \/ item'[x] = [item[x] EXCEPT !.gone = TRUE]
             \/ item'[x] = [item[x] EXCEPT !.expired = TRUE]
          /\ \A i \in Items : i # x => item'[i] = item[i]
          /\ item' \in [Items -> Row]
      BY <2>2, <2>a, EditFact
    <2>3. InboxTypeOK'
      BY <2>2, <2>b DEF InboxInv, InboxTypeOK, driver, execution, worker
    <2>4. \A i \in Items : Alike(i) /\ item'[i].state = item[i].state
      <3>1. Alike(x) /\ item'[x].state = item[x].state
        <4>1. CASE item'[x] = [item[x] EXCEPT !.gone = TRUE]
          BY <4>1, <2>a DEF Row, Alike
        <4>2. CASE item'[x] = [item[x] EXCEPT !.expired = TRUE]
          BY <4>2, <2>a DEF Row, Alike
        <4> QED BY <4>1, <4>2, <2>b
      <3> QED BY <3>1, <2>b DEF Alike
    <2>5. Queued'
      BY <2>2, <2>4, QueueKept
    <2> QED BY <2>2, <2>3, <2>4, <2>5, Untouched
  <1>2. CASE Ask \/ CardGone \/ TicketExpires \/ RecoverExpiredRun \/ CancelSession
    <2>1. UNCHANGED <<driver, item, queue, messages, worker, faults>>
      BY <1>2 DEF Ask, CardGone, TicketExpires, RecoverExpiredRun, CancelSession
    <2>2. ticket' \in 0..MaxGeneration /\ ticketLive' \in BOOLEAN /\ card' \in BOOLEAN
      <3>1. 0 \in 0..MaxGeneration
        BY KindAssumption
      <3>2. CASE Ask
        BY <3>1, <3>2 DEF InboxInv, InboxTypeOK, Ask
      <3>3. CASE CardGone \/ TicketExpires \/ RecoverExpiredRun \/ CancelSession
        BY <3>1, <3>3
           DEF InboxInv, InboxTypeOK, CardGone, TicketExpires, RecoverExpiredRun, CancelSession
      <3> QED BY <1>2, <3>2, <3>3
    <2>3. InboxTypeOK'
      BY <2>1, <2>2 DEF InboxInv, InboxTypeOK, driver, worker
    <2>4. \A i \in Items : Alike(i)
      BY <2>1 DEF Alike
    <2>5. Queued'
      BY <2>1, QueueKept
    <2> QED BY <2>1, <2>3, <2>4, <2>5, Untouched
  <1> QED BY <1>1, <1>2

-----------------------------------------------------------------------------
(* The worker goes on, or stops, with the rows as they are.                *)

\* Where a worker may go without touching a claim.
Walks ==
  \/ /\ phase' = phase /\ verdict' = verdict
     /\ \/ task = "start" /\ task' \in {"boot", "refused"}
        \/ task = "stream" /\ task' \in {"boundary", "final"}
        \/ task = "boundary" /\ task' \in {"step", "final"}
        \/ task \in {"finish", "claim"} /\ task' = "leave"
        \/ task = "unclaimed" /\ task' \in {"start", "leave"}
        \/ task = "repair" /\ task' = "resettle"
        \/ task = "step" /\ task' = "final"
  \/ /\ verdict' = verdict
     /\ \/ task = "boot" /\ task' = "boundary" /\ phase' = "running"
        \/ task = "final" /\ task' = "settle" /\ phase' = "finalizing"
  \/ /\ phase' = phase /\ verdict' = NoVerdict /\ With("pending") = {}
     /\ \/ task = "delivered" /\ task' = "start" /\ With("run") # {}
        \/ task = "delivered" /\ task' = "leave"
        \/ task = "stepDelivered" /\ task' = "step"

LEMMA ClaimedFact ==
  ASSUME InboxInv, NEW g, NEW i \in Claimed(g)
  PROVE  i \in Items /\ item[i].state = "claimed" /\ item[i].gen = g
  BY DEF Claimed, State

LEMMA WalkKept ==
  ASSUME InboxInv, InboxTypeOK', \A i \in Items : Alike(i), Queued',
         UNCHANGED <<generation, live, trigger, messages, plan, from>>, Walks
  PROVE  InboxInv'
  <1>0. /\ generation \in Nat /\ trigger \in Items \cup {None} /\ None \notin Items
        /\ verdict \in [Items -> {"none", "todo", "run", "terminal", "pending"}]
        /\ \A i \in Items : NoVerdict[i] = "none"
    BY KindAssumption DEF InboxInv, InboxTypeOK, NoVerdict
  <1>1. Rows' /\ Unseen' /\ Shapes'
    BY <1>0, ItemsKept
  <1>2. /\ Claimed(generation)' = Claimed(generation) /\ Claimed(generation) \subseteq Items
    BY DEF Claimed, State, Alike
  <1>3. \A i \in Items : /\ item'[i].turn = item[i].turn /\ item'[i].seen = item[i].seen
                         /\ item'[i].ranBy = item[i].ranBy
                         /\ (item'[i].state = "claimed" <=> item[i].state = "claimed")
                         /\ (item'[i].state = "settled" <=> item[i].state = "settled")
                         /\ (item[i].delivered => item'[i].delivered)
                         /\ (item[i].reply # "none" => item'[i].reply # "none")
    BY DEF Alike
  <1>4. Driver'
    BY <1>2 DEF InboxInv, Driver, Replaying, Walks
  <1>5. Claims'
    BY <1>0, <1>2, <1>3 DEF InboxInv, Claims, Unrun, Driver, Replaying, Walks
  <1>6. Files'
    <2>1. \A i \in Items : verdict'[i] # "none" =>
            /\ task' \in {"deliver", "delivered", "stepDeliver", "stepDelivered"}
            /\ ~item'[i].seen
            /\ i \in Claimed(generation)
                 \/ (task' \in {"delivered", "stepDelivered"} /\ verdict'[i] = "terminal"
                     /\ item'[i].state = "settled")
      BY <1>0, <1>3 DEF InboxInv, Files, Walks
    <2>2. task' \notin {"delivered", "stepDelivered", "rebind"}
      BY DEF Walks
    <2>3. ASSUME task' \in {"deliver", "delivered", "stepDeliver", "stepDelivered", "start", "boot",
                            "boundary", "step", "stream"},
                 NEW i \in Claimed(generation) \cap Attached, verdict'[i] \in {"none", "run"}
          PROVE  item'[i].delivered
      <3>1. i \in Items /\ i \in Claimed(generation)
        BY <1>2, <2>3
      <3>2. CASE task \in {"delivered", "stepDelivered"}
        <4>1. verdict[i] \notin {"pending", "todo", "terminal"}
          <5>1. verdict[i] # "pending"
            BY <3>1, <3>2 DEF Walks, With
          <5> QED BY <5>1, <3>1, <3>2 DEF InboxInv, Files
        <4>2. verdict[i] \in {"none", "run"}
          BY <4>1, <3>1, <1>0
        <4> QED BY <4>2, <3>1, <3>2, <2>3, <1>3 DEF InboxInv, Files
      <3>3. CASE task = "unclaimed"
        BY <3>1, <3>3 DEF InboxInv, Driver
      <3>4. CASE task \in {"start", "stream", "boundary", "boot"}
        <4>1. verdict' = verdict
          BY <3>4 DEF Walks
        <4> QED BY <4>1, <3>4, <3>1, <2>3, <1>3 DEF InboxInv, Files
      <3>5. task \in {"delivered", "stepDelivered", "unclaimed", "start", "stream", "boundary", "boot"}
        BY <2>3 DEF Walks
      <3> QED BY <3>2, <3>3, <3>4, <3>5
    <2> QED BY <2>1, <2>2, <2>3, <1>2 DEF Files
  <1>7. Reports'
    <2> SUFFICES ASSUME trigger # None, Kind[trigger] = "report"
                 PROVE  /\ phase' = "reserved" => \/ item'[trigger].state = "claimed"
                                                  \/ item'[trigger].reply # "none"
                        /\ task' \in {"deliver", "start", "refused", "boot", "unclaimed",
                                      "boundary", "step", "stream"}
                             => item'[trigger].state = "claimed"
                        /\ task' \notin {"stepDeliver", "stepDelivered", "rebind"}
      BY DEF Reports, Replaying
    <2>1. trigger \in Items
      BY <1>0
    <2>2. task # "stepDelivered" /\ task' \notin {"stepDeliver", "stepDelivered", "rebind"}
      BY DEF InboxInv, Reports, Walks
    <2>3. phase' = "reserved" => phase = "reserved"
      BY DEF Walks
    <2>4. CASE task = "delivered" /\ task' = "start"
      <3>1. PICK i \in Items : verdict[i] = "run"
        BY <2>4 DEF Walks, With
      <3>2. i \in Claimed(generation) /\ item[i].turn = trigger
        BY <3>1, <2>4 DEF InboxInv, Files, Driver, Claims, Unrun
      <3>3. SameTurn(trigger, i)
        BY <3>2 DEF InboxInv, Shapes, SameTurn
      <3>4. i = trigger
        BY <3>3, <2>1 DEF InboxInv, Shapes
      <3> QED BY <3>2, <3>4, <2>1, <2>2, <1>3, ClaimedFact
    <2>5. CASE task' \in {"deliver", "start", "refused", "boot", "unclaimed",
                          "boundary", "step", "stream"} /\ task # "delivered"
      <3>1. task \in {"start", "stream", "boundary", "unclaimed", "boot"}
        BY <2>5, <2>2 DEF Walks
      <3> QED BY <3>1, <2>1, <2>2, <1>3 DEF InboxInv, Reports
    <2>6. CASE task' \notin {"deliver", "start", "refused", "boot", "unclaimed",
                             "boundary", "step", "stream"}
      BY <2>6, <2>1, <2>2, <2>3, <1>3 DEF InboxInv, Reports
    <2>7. task = "delivered" => task' \in {"start", "leave"}
      BY DEF Walks
    <2> QED BY <2>4, <2>5, <2>6, <2>7
  <1> QED BY <1>1, <1>4, <1>5, <1>6, <1>7 DEF InboxInv

\* The worker is gone: its row is idle, or left for recovery as it is.
Stops ==
  /\ UNCHANGED generation /\ live' = FALSE
  /\ task' = "none" /\ plan' = "none" /\ from' = 0 /\ verdict' = NoVerdict
  /\ \/ phase' = "idle" /\ trigger' = None
     \/ UNCHANGED <<phase, trigger>>

LEMMA StopKept ==
  ASSUME InboxInv, InboxTypeOK', \A i \in Items : Alike(i), Queued', messages' = messages, Stops, live
  PROVE  InboxInv'
  <1>0. /\ generation \in Nat /\ trigger \in Items \cup {None} /\ None \notin Items
        /\ \A i \in Items : NoVerdict[i] = "none"
        /\ trigger' \in {trigger, None} /\ generation' = generation
    BY KindAssumption DEF InboxInv, InboxTypeOK, NoVerdict, Stops
  <1>1. Rows' /\ Unseen' /\ Shapes'
    BY <1>0, ItemsKept
  <1>2. /\ Claimed(generation)' = Claimed(generation) /\ Claimed(generation) \subseteq Items
    BY <1>0 DEF Claimed, State, Alike
  <1>3. \A i \in Items : /\ item'[i].turn = item[i].turn /\ item'[i].seen = item[i].seen
                         /\ item'[i].ranBy = item[i].ranBy
                         /\ (item'[i].state = "claimed" <=> item[i].state = "claimed")
                         /\ (item[i].reply # "none" => item'[i].reply # "none")
    BY DEF Alike
  <1>4. Driver'
    BY DEF InboxInv, Driver, Replaying, Stops
  <1>5. Claims'
    BY <1>0, <1>2, <1>3 DEF InboxInv, Claims, Unrun, Replaying, Stops
  <1>6. Files'
    BY <1>0 DEF Files, Stops
  <1>7. Reports'
    BY <1>0, <1>3 DEF InboxInv, Reports, Replaying, Stops
  <1> QED BY <1>1, <1>4, <1>5, <1>6, <1>7 DEF InboxInv

\* A row whose files arrived, whose attempts are counted or whose message is replied
\* to keeps what the invariant is about.
Touched(i) ==
  \/ item'[i] = item[i]
  \/ item'[i] = [item[i] EXCEPT !.delivered = TRUE]
  \/ \E v \in {"open", "tools", "done"} : item'[i] = [item[i] EXCEPT !.reply = v]
  \/ \E a \in 0..MaxAttempts :
       \/ item'[i] = [item[i] EXCEPT !.again = a]
       \/ item'[i] = [[item[i] EXCEPT !.again = a] EXCEPT !.reply = "done"]

LEMMA TouchedKept ==
  ASSUME InboxInv, item' = [i \in Items |-> item'[i]], \A i \in Items : Touched(i), queue' = queue
  PROVE  item' \in [Items -> Row] /\ (\A i \in Items : Alike(i)) /\ Queued'
  <1>1. ASSUME NEW i \in Items
        PROVE  item'[i] \in Row /\ Alike(i) /\ item'[i].state = item[i].state
    <2>1. item[i] \in Row
      BY RowFact DEF InboxInv
    <2>2. CASE item'[i] = item[i]
      BY <2>1, <2>2 DEF Alike
    <2>3. CASE item'[i] = [item[i] EXCEPT !.delivered = TRUE]
      <3>1. item'[i] \in Row
        BY <2>1, <2>3, EditFact
      <3> QED BY <2>1, <2>3, <3>1 DEF Alike, Row
    <2>4. CASE \E v \in {"open", "tools", "done"} : item'[i] = [item[i] EXCEPT !.reply = v]
      <3>0. PICK v \in {"open", "tools", "done"} : item'[i] = [item[i] EXCEPT !.reply = v]
        BY <2>4
      <3>1. item'[i] \in Row
        BY <2>1, <3>0, EditFact
      <3> QED BY <2>1, <3>0, <3>1 DEF Alike, Row
    <2>5. CASE \E a \in 0..MaxAttempts : item'[i] = [item[i] EXCEPT !.again = a]
      <3>0. PICK a \in 0..MaxAttempts : item'[i] = [item[i] EXCEPT !.again = a]
        BY <2>5
      <3>1. item'[i] \in Row
        BY <2>1, <3>0, EditFact
      <3> QED BY <2>1, <3>0, <3>1 DEF Alike, Row
    <2>6. CASE \E a \in 0..MaxAttempts :
                 item'[i] = [[item[i] EXCEPT !.again = a] EXCEPT !.reply = "done"]
      <3>0. PICK a \in 0..MaxAttempts :
                 item'[i] = [[item[i] EXCEPT !.again = a] EXCEPT !.reply = "done"]
        BY <2>6
      <3> DEFINE r == [item[i] EXCEPT !.again = a]
      <3>1. r \in Row
        BY <2>1, EditFact
      <3>2. /\ r.state = item[i].state /\ r.outcome = item[i].outcome /\ r.gen = item[i].gen
            /\ r.turn = item[i].turn /\ r.ranBy = item[i].ranBy
            /\ r.seen = item[i].seen /\ r.delivered = item[i].delivered
        BY <2>1 DEF Row
      <3>3. item'[i] = [r EXCEPT !.reply = "done"]
        BY <3>0
      <3> HIDE DEF r
      <3>4. item'[i] \in Row
        BY <3>1, <3>3, EditFact
      <3> QED BY <3>1, <3>2, <3>3, <3>4 DEF Alike, Row
    <2> QED BY <2>2, <2>3, <2>4, <2>5, <2>6 DEF Touched
  <1>2. item' \in [Items -> Row]
    BY <1>1
  <1>3. Queued'
    BY <1>1, QueueKept
  <1> QED BY <1>1, <1>2, <1>3

\* A reply under one message.
LEMMA ReplyFact ==
  ASSUME InboxInv, NEW x, NEW v \in {"open", "tools", "done"},
         item' = [item EXCEPT ![x].reply = v]
  PROVE  item' = [i \in Items |-> item'[i]] /\ \A i \in Items : Touched(i)
  <1>1. item \in [Items -> Row]
    BY DEF InboxInv, InboxTypeOK
  <1>2. item' = [i \in Items |-> item'[i]]
    BY <1>1
  <1>3. ASSUME NEW i \in Items PROVE Touched(i)
    <2>1. item'[i] = item[i] \/ item'[i] = [item[i] EXCEPT !.reply = v]
      BY <1>1
    <2> QED BY <2>1 DEF Touched
  <1> QED BY <1>2, <1>3

LEMMA TailFact ==
  ASSUME InboxInv, item' = TailClosed
  PROVE  item' = [i \in Items |-> item'[i]] /\ \A i \in Items : Touched(i)
  <1>1. item \in [Items -> Row]
    BY DEF InboxInv, InboxTypeOK
  <1>2. item' = [i \in Items |-> item'[i]]
    BY DEF TailClosed
  <1>3. ASSUME NEW i \in Items PROVE Touched(i)
    <2>1. item'[i] = item[i] \/ item'[i] = [item[i] EXCEPT !.reply = "done"]
      BY DEF TailClosed
    <2> QED BY <2>1 DEF Touched
  <1> QED BY <1>2, <1>3

LEMMA RepairFact ==
  ASSUME InboxInv, Repair
  PROVE  item' = [i \in Items |-> item'[i]] /\ \A i \in Items : Touched(i)
  <1>1. item \in [Items -> Row]
    BY DEF InboxInv, InboxTypeOK
  <1>2. item' = [i \in Items |-> item'[i]]
    BY DEF Repair
  <1>3. ASSUME NEW i \in Items PROVE Touched(i)
    <2>1. item'[i] = item[i] \/ item'[i] = [item[i] EXCEPT !.reply = "done"]
      BY DEF Repair
    <2> QED BY <2>1 DEF Touched
  <1> QED BY <1>2, <1>3

LEMMA SameFact ==
  ASSUME InboxInv, item' = item
  PROVE  item' = [i \in Items |-> item'[i]] /\ \A i \in Items : Touched(i)
  BY DEF InboxInv, InboxTypeOK, Touched

\* The steps of a run that settle nothing and claim nothing.
LEMMA RunStep ==
  ASSUME InboxInv,
         \/ StartRun \/ EnterRunning \/ AbortTurn \/ EnterFinalizing \/ FinishRun \/ Repair
         \/ UnclaimedClosed \/ \E f \in {"tools", "done"} : StepDone(f)
  PROVE  InboxInv'
  <1>1. \E p, q : Worker(p, q)
    BY DEF StartRun, EnterRunning, AbortTurn, EnterFinalizing, FinishRun, Repair,
           UnclaimedClosed, StepDone
  <1>2. UNCHANGED <<generation, live, trigger, queue, messages, plan, from, verdict, faults>>
    BY <1>1 DEF Worker
  <1>3. item' = [i \in Items |-> item'[i]] /\ \A i \in Items : Touched(i)
    <2>1. CASE StartRun \/ EnterRunning \/ EnterFinalizing \/ FinishRun \/ UnclaimedClosed
      BY <2>1, SameFact DEF StartRun, EnterRunning, EnterFinalizing, FinishRun, UnclaimedClosed
    <2>2. CASE AbortTurn
      BY <2>2, ReplyFact DEF AbortTurn
    <2>3. CASE Repair
      BY <2>3, RepairFact
    <2>4. CASE \E f \in {"tools", "done"} : StepDone(f)
      <3>1. PICK f \in {"tools", "done"} : StepDone(f)
        BY <2>4
      <3>2. item' = [item EXCEPT ![Last(Surface)].reply = f]
        BY <3>1 DEF StepDone
      <3> QED BY <3>2, ReplyFact
    <2> QED BY <2>1, <2>2, <2>3, <2>4
  <1>4. item' \in [Items -> Row] /\ (\A i \in Items : Alike(i)) /\ Queued'
    BY <1>2, <1>3, TouchedKept
  <1>5. Walks
    <2>1. CASE StartRun
      BY <2>1 DEF StartRun, Worker, At, Walks
    <2>2. CASE EnterRunning \/ EnterFinalizing
      BY <2>2 DEF EnterRunning, EnterFinalizing, Worker, At, Walks
    <2>3. CASE AbortTurn \/ FinishRun \/ Repair \/ UnclaimedClosed
      BY <2>3 DEF AbortTurn, FinishRun, Repair, UnclaimedClosed, Worker, At, Walks
    <2>4. CASE \E f \in {"tools", "done"} : StepDone(f)
      BY <2>4 DEF StepDone, Worker, At, Walks
    <2> QED BY <2>1, <2>2, <2>3, <2>4
  <1>6. InboxTypeOK'
    <2>1. task' \in Pcs
      BY <1>5 DEF Walks, Pcs
    <2>2. phase' \in {"idle", "reserved", "running", "finalizing"}
      BY <1>5 DEF Walks, InboxInv, InboxTypeOK
    <2>3. ticket' \in 0..MaxGeneration /\ ticketLive' \in BOOLEAN /\ card' \in BOOLEAN
      <3>1. 0 \in 0..MaxGeneration
        BY KindAssumption
      <3>2. CASE StartRun
        BY <3>1, <3>2 DEF StartRun, InboxInv, InboxTypeOK
      <3>3. CASE FinishRun
        BY <3>1, <3>3 DEF FinishRun, InboxInv, InboxTypeOK
      <3>4. CASE \/ EnterRunning \/ AbortTurn \/ EnterFinalizing \/ Repair
                 \/ UnclaimedClosed \/ \E f \in {"tools", "done"} : StepDone(f)
        BY <3>4 DEF EnterRunning, AbortTurn, EnterFinalizing, Repair, UnclaimedClosed, StepDone,
                    execution, InboxInv, InboxTypeOK
      <3> QED BY <3>2, <3>3, <3>4
    <2> QED BY <1>2, <1>4, <2>1, <2>2, <2>3 DEF InboxInv, InboxTypeOK
  <1> QED BY <1>2, <1>4, <1>5, <1>6, WalkKept

LEMMA StopTyped ==
  ASSUME InboxInv, Stops, item' \in [Items -> Row], UNCHANGED <<queue, messages>>,
         ticket' \in 0..MaxGeneration, ticketLive' \in BOOLEAN, card' \in BOOLEAN,
         faults' \in 0..MaxFaults
  PROVE  InboxTypeOK'
  <1>1. /\ phase' \in {"idle", "reserved", "running", "finalizing"}
        /\ trigger' \in Items \cup {None} /\ live' \in BOOLEAN /\ generation' = generation
    BY DEF Stops, InboxInv, InboxTypeOK
  <1>2. /\ task' \in Pcs /\ from' \in 0..MaxGeneration
        /\ plan' \in {"none", "replay", "redeliver", "settle", "repair", "orphan"}
        /\ verdict' \in [Items -> {"none", "todo", "run", "terminal", "pending"}]
    BY KindAssumption DEF Stops, Pcs, NoVerdict
  <1> QED BY <1>1, <1>2 DEF InboxInv, InboxTypeOK

\* The worker leaves, dies, or gives its turn up to recovery.
LEMMA StopStep ==
  ASSUME InboxInv, Leave \/ Revoked \/ Dies \/ RebindFails \/ ResettleRaises PROVE InboxInv'
  <1>1. UNCHANGED <<execution, item, queue, messages>>
    BY DEF Leave, Revoked, Dies, RebindFails, ResettleRaises
  <1>2. (Release \/ Preserve) /\ live
    BY DEF Leave, Revoked, Dies, RebindFails, ResettleRaises, At, Release, Preserve, F!End, F!Holds
  <1>3. Stops
    BY <1>2 DEF Release, Preserve, Stops, Idle, F!End
  <1>4. (\A i \in Items : Alike(i)) /\ Queued'
    BY <1>1, SameFact, TouchedKept
  <1>5. InboxTypeOK'
    <2>1. faults' \in 0..MaxFaults
      BY KindAssumption DEF Leave, Revoked, Dies, RebindFails, ResettleRaises, InboxInv, InboxTypeOK
    <2>2. item' \in [Items -> Row] /\ UNCHANGED <<queue, messages>>
      BY <1>1 DEF InboxInv, InboxTypeOK
    <2>3. ticket' \in 0..MaxGeneration /\ ticketLive' \in BOOLEAN /\ card' \in BOOLEAN
      BY <1>1 DEF InboxInv, InboxTypeOK, execution
    <2> QED BY <1>3, <2>1, <2>2, <2>3, StopTyped
  <1> QED BY <1>1, <1>2, <1>3, <1>4, <1>5, StopKept

LEMMA ConcludeStep ==
  ASSUME InboxInv, ConcludeDelivery \/ ConcludeStepDelivery PROVE InboxInv'
  <1>1. UNCHANGED <<card, item, queue, messages, faults>>
    BY DEF ConcludeDelivery, ConcludeStepDelivery, execution
  <1>2. (\A i \in Items : Alike(i)) /\ Queued'
    BY <1>1, SameFact, TouchedKept
  <1>3. ticket' \in 0..MaxGeneration /\ ticketLive' \in BOOLEAN
    <2>1. CASE ConcludeDelivery
      BY <2>1 DEF ConcludeDelivery, execution, InboxInv, InboxTypeOK
    <2>2. CASE ConcludeStepDelivery
      <3>1. CASE Unfinished
        BY <2>2, <3>1, KindAssumption DEF ConcludeStepDelivery, InboxInv, InboxTypeOK
      <3>2. CASE ~Unfinished
        BY <2>2, <3>2 DEF ConcludeStepDelivery, InboxInv, InboxTypeOK
      <3> QED BY <3>1, <3>2
    <2> QED BY <2>1, <2>2
  <1>4. live
    BY DEF ConcludeDelivery, ConcludeStepDelivery, At, F!Holds
  <1>5. CASE Unfinished
    <2>1. Preserve
      BY <1>5 DEF ConcludeDelivery, ConcludeStepDelivery
    <2>2. Stops /\ UNCHANGED <<phase, trigger, generation>>
      BY <2>1 DEF Preserve, Stops, Idle, F!End
    <2>3. InboxTypeOK'
      <3>1. item' \in [Items -> Row] /\ card' \in BOOLEAN /\ faults' \in 0..MaxFaults
        BY <1>1 DEF InboxInv, InboxTypeOK
      <3> QED BY <1>1, <1>3, <2>2, <3>1, StopTyped
    <2> QED BY <1>1, <1>2, <1>4, <2>2, <2>3, StopKept
  <1>6. CASE ~Unfinished
    <2>1. UNCHANGED <<driver, plan, from>> /\ verdict' = NoVerdict
      BY <1>6 DEF ConcludeDelivery, ConcludeStepDelivery
    <2>2. Walks
      BY <1>6, <2>1 DEF ConcludeDelivery, ConcludeStepDelivery, At, Unfinished, Walks, driver
    <2>3. InboxTypeOK'
      <3>1. task' \in Pcs
        BY <2>2 DEF Walks, Pcs
      <3> QED BY <1>1, <1>3, <2>1, <3>1 DEF NoVerdict, InboxInv, InboxTypeOK, driver
    <2> QED BY <1>1, <1>2, <2>1, <2>2, <2>3, WalkKept DEF driver
  <1> QED BY <1>5, <1>6

\* deliver_unclaimed_attachments: the turn goes on, ends, or waits for another pass.
LEMMA DeliverUnclaimedStep ==
  ASSUME InboxInv, NEW result \in Results, DeliverUnclaimed(result) PROVE InboxInv'
  <1>1. /\ live /\ task = "unclaimed" /\ UNCHANGED <<execution, queue, messages, faults>>
        /\ item[trigger].again < MaxAttempts
    BY DEF DeliverUnclaimed, At, F!Holds
  <1>2. trigger \in Items /\ item \in [Items -> Row]
    BY <1>1 DEF InboxInv, InboxTypeOK, Driver
  <1>3. item[trigger].again + 1 \in 0..MaxAttempts /\ MaxAttempts \in 0..MaxAttempts
    <2>1. item[trigger].again \in 0..MaxAttempts
      BY <1>2, RowFact DEF InboxInv
    <2> QED BY <2>1, <1>1, KindAssumption
  <1> DEFINE ended == result = "fatal" \/ item[trigger].again + 1 >= MaxAttempts
  <1>4. CASE result = "ok"
    <2>1. /\ item' = [item EXCEPT ![trigger].delivered = TRUE]
          /\ task' = "start" /\ UNCHANGED <<driver, plan, from, verdict>>
      BY <1>4 DEF DeliverUnclaimed
    <2>2. item' = [i \in Items |-> item'[i]] /\ \A i \in Items : Touched(i)
      <3>1. ASSUME NEW i \in Items
            PROVE  item'[i] = item[i] \/ item'[i] = [item[i] EXCEPT !.delivered = TRUE]
        BY <1>2, <2>1
      <3>2. item' = [i \in Items |-> item'[i]]
        BY <1>2, <2>1
      <3> QED BY <3>1, <3>2 DEF Touched
    <2>3. item' \in [Items -> Row] /\ (\A i \in Items : Alike(i)) /\ Queued'
      BY <1>1, <2>2, TouchedKept
    <2>4. Walks
      BY <1>1, <2>1 DEF Walks, driver
    <2>5. InboxTypeOK'
      BY <1>1, <2>1, <2>3 DEF InboxInv, InboxTypeOK, driver, execution, Pcs
    <2> QED BY <1>1, <2>1, <2>3, <2>4, <2>5, WalkKept DEF driver
  <1>5. CASE result # "ok" /\ ended
    <2>1. /\ item' = [item EXCEPT ![trigger].again = MaxAttempts,
                                  ![LatestTurnInput].reply = "done"]
          /\ task' = "leave" /\ UNCHANGED <<driver, plan, from, verdict>>
      BY <1>5 DEF DeliverUnclaimed
    <2>2. item' = [i \in Items |-> item'[i]] /\ \A i \in Items : Touched(i)
      <3> DEFINE x == LatestTurnInput
      <3>0. item' = [item EXCEPT ![trigger].again = MaxAttempts, ![x].reply = "done"]
        BY <2>1
      <3> HIDE DEF x
      <3>1. ASSUME NEW i \in Items PROVE Touched(i)
        <4>1. \/ item'[i] = item[i]
              \/ item'[i] = [item[i] EXCEPT !.reply = "done"]
              \/ item'[i] = [item[i] EXCEPT !.again = MaxAttempts]
              \/ item'[i] = [[item[i] EXCEPT !.again = MaxAttempts] EXCEPT !.reply = "done"]
          BY <1>2, <3>0
        <4> QED BY <4>1, <1>3 DEF Touched
      <3>2. item' = [i \in Items |-> item'[i]]
        BY <1>2, <3>0
      <3> QED BY <3>1, <3>2
    <2>3. item' \in [Items -> Row] /\ (\A i \in Items : Alike(i)) /\ Queued'
      BY <1>1, <2>2, TouchedKept
    <2>4. Walks
      BY <1>1, <2>1 DEF Walks, driver
    <2>5. InboxTypeOK'
      BY <1>1, <2>1, <2>3 DEF InboxInv, InboxTypeOK, driver, execution, Pcs
    <2> QED BY <1>1, <2>1, <2>3, <2>4, <2>5, WalkKept DEF driver
  <1>6. CASE result # "ok" /\ ~ended
    <2>1. item' = [item EXCEPT ![trigger].again = item[trigger].again + 1] /\ Preserve
      BY <1>6 DEF DeliverUnclaimed
    <2>2. item' = [i \in Items |-> item'[i]] /\ \A i \in Items : Touched(i)
      <3>1. ASSUME NEW i \in Items PROVE Touched(i)
        <4> DEFINE a == item[trigger].again + 1
        <4>1. item'[i] = item[i] \/ item'[i] = [item[i] EXCEPT !.again = a]
          BY <1>2, <2>1
        <4>2. a \in 0..MaxAttempts
          BY <1>3
        <4> HIDE DEF a
        <4> QED BY <4>1, <4>2 DEF Touched
      <3>2. item' = [i \in Items |-> item'[i]]
        BY <1>2, <2>1
      <3> QED BY <3>1, <3>2
    <2>3. item' \in [Items -> Row] /\ (\A i \in Items : Alike(i)) /\ Queued'
      BY <1>1, <2>2, TouchedKept
    <2>4. Stops
      BY <2>1 DEF Preserve, Stops, Idle, F!End
    <2>5. InboxTypeOK'
      <3>1. /\ ticket' \in 0..MaxGeneration /\ ticketLive' \in BOOLEAN /\ card' \in BOOLEAN
            /\ faults' \in 0..MaxFaults
        BY <1>1 DEF InboxInv, InboxTypeOK, execution
      <3> QED BY <1>1, <2>3, <2>4, <3>1, StopTyped
    <2> QED BY <1>1, <2>3, <2>4, <2>5, StopKept
  <1> QED BY <1>4, <1>5, <1>6

-----------------------------------------------------------------------------
(* A new generation.                                                       *)

\* The new generation has claimed nothing.
LEMMA BeginFact ==
  ASSUME InboxInv, F!Begin, UNCHANGED <<item, queue, messages, verdict>>, trigger' \in {trigger, None}
  PROVE  /\ Rows' /\ Unseen' /\ Shapes'
         /\ live' = TRUE /\ generation' \in 0..MaxGeneration
         /\ Claimed(generation)' = {}
         /\ \A i \in Items : verdict'[i] = "none"
  <1>1. /\ generation' = generation + 1 /\ live' = TRUE /\ ~live /\ generation < MaxGeneration
        /\ generation \in Nat /\ generation' \in 0..MaxGeneration
    BY KindAssumption DEF F!Begin, InboxInv, InboxTypeOK
  <1>2. (\A i \in Items : Alike(i)) /\ Queued'
    BY SameFact, TouchedKept
  <1>3. Rows' /\ Unseen' /\ Shapes'
    BY <1>1, <1>2, ItemsKept
  <1>4. Claimed(generation)' = {}
    <2>1. ASSUME NEW i \in Items PROVE item'[i].gen # generation'
      <3>1. item[i].gen \in Nat
        BY RowFact, KindAssumption DEF InboxInv
      <3> QED BY <3>1, <1>1 DEF InboxInv, Rows
    <2> QED BY <2>1 DEF Claimed, State
  <1>5. \A i \in Items : verdict'[i] = "none"
    BY <1>1 DEF InboxInv, Files, Driver
  <1> QED BY <1>1, <1>3, <1>4, <1>5

LEMMA WakeStep ==
  ASSUME InboxInv, Wake PROVE InboxInv'
  <1>1. /\ F!Begin /\ phase' = "reserved" /\ trigger' = None /\ task' = "claim"
        /\ UNCHANGED <<execution, item, queue, messages, plan, from, verdict, faults>>
    BY DEF Wake
  <1>2. /\ Rows' /\ Unseen' /\ Shapes'
        /\ live' = TRUE /\ generation' \in 0..MaxGeneration
        /\ Claimed(generation)' = {}
        /\ \A i \in Items : verdict'[i] = "none"
    BY <1>1, BeginFact
  <1>3. InboxTypeOK'
    BY <1>1, <1>2 DEF InboxInv, InboxTypeOK, execution, Pcs
  <1>4. Driver'
    BY <1>1, <1>2 DEF Driver, Replaying
  <1>5. Claims'
    BY <1>1, <1>2 DEF Claims, Unrun, Replaying
  <1>6. Files'
    BY <1>1, <1>2 DEF Files
  <1>7. Reports'
    BY <1>1 DEF Reports
  <1> QED BY <1>2, <1>3, <1>4, <1>5, <1>6, <1>7 DEF InboxInv

\* A takeover that runs nothing: the turn is only repaired and settled.
LEMMA TakeOverStep ==
  ASSUME InboxInv, NEW why \in {"settle", "repair", "orphan"}, NEW g \in 0..MaxGeneration,
         TakeOver("finalizing", why, g), trigger' \in {trigger, None}
  PROVE  InboxInv'
  <1>1. /\ F!Begin /\ phase' = "finalizing" /\ plan' = why /\ from' = g /\ task' = "rebind"
        /\ UNCHANGED <<execution, item, queue, messages, verdict, faults>>
    BY DEF TakeOver
  <1>2. /\ Rows' /\ Unseen' /\ Shapes'
        /\ live' = TRUE /\ generation' \in 0..MaxGeneration
        /\ Claimed(generation)' = {}
        /\ \A i \in Items : verdict'[i] = "none"
    BY <1>1, BeginFact
  <1>3. InboxTypeOK'
    <2>1. trigger' \in Items \cup {None} /\ task' \in Pcs
      BY <1>1 DEF InboxInv, InboxTypeOK, Pcs
    <2> QED BY <1>1, <1>2, <2>1 DEF InboxInv, InboxTypeOK, execution
  <1>4. Driver'
    BY <1>1, <1>2 DEF Driver, Replaying
  <1>5. Claims'
    BY <1>1, <1>2 DEF Claims, Replaying
  <1>6. Files'
    BY <1>1, <1>2 DEF Files
  <1>7. Reports'
    BY <1>1 DEF Reports, Replaying
  <1> QED BY <1>2, <1>3, <1>4, <1>5, <1>6, <1>7 DEF InboxInv

\* A replay: the wake it takes over never ran, and a report it replays is claimed.
LEMMA ReplayStep ==
  ASSUME InboxInv, RecoverPrompt, NEW why \in {"replay", "redeliver"},
         TakeOver("reserved", why, generation)
  PROVE  InboxInv'
  <1>1. /\ F!Begin /\ phase' = "reserved" /\ plan' = why /\ from' = generation
        /\ task' = "rebind" /\ UNCHANGED <<execution, item, queue, messages, verdict, faults>>
    BY DEF TakeOver
  <1>2. /\ Rows' /\ Unseen' /\ Shapes'
        /\ live' = TRUE /\ generation' \in 0..MaxGeneration
        /\ Claimed(generation)' = {}
        /\ \A i \in Items : verdict'[i] = "none"
    BY <1>1, BeginFact DEF RecoverPrompt
  <1> DEFINE inputs == IF Claimed(generation) = {} THEN {trigger} ELSE Claimed(generation)
  <1>3. /\ phase = "reserved" /\ trigger # None /\ trigger' = trigger /\ trigger \in Items
        /\ item[trigger].turn = trigger
    BY DEF RecoverPrompt, Replayable, InboxInv, InboxTypeOK, Shapes
  <1>4. /\ item[LastOf(messages, inputs)].reply = "none"
        /\ why = "replay" => inputs \cap Attached = {}
    BY <1>1 DEF RecoverPrompt, TakeOver
  <1>5. Unrun(generation)
    BY <1>3 DEF InboxInv, Claims
  <1>6. Claimed(from)' = Claimed(generation) /\ Claimed(generation) \subseteq Items
    BY <1>1 DEF Claimed, State
  <1>7. InboxTypeOK'
    BY <1>1, <1>2, <1>3 DEF InboxInv, InboxTypeOK, execution, Pcs
  <1>8. Driver'
    BY <1>1, <1>2, <1>3 DEF Driver, Replaying
  <1>9. Claims'
    BY <1>1, <1>2, <1>3, <1>5, <1>6 DEF Claims, Unrun, Replaying
  <1>10. Files'
    BY <1>1, <1>2, <1>4, <1>6 DEF Files
  <1>11. Reports'
    <2> SUFFICES ASSUME Kind[trigger] = "report" PROVE item[trigger].state = "claimed"
      BY <1>1, <1>3 DEF Reports, Replaying
    <2>1. item[trigger].state = "claimed" \/ item[trigger].reply # "none"
      BY <1>3 DEF InboxInv, Reports
    <2>2. CASE Claimed(generation) = {}
      <3>1. trigger \in Range(messages)
        BY <1>3, KindAssumption DEF InboxInv, Rows, State
      <3>2. LastOf(messages, {trigger}) \in {trigger}
        BY <3>1, LastOfFact DEF InboxInv, InboxTypeOK
      <3> QED BY <2>1, <2>2, <3>2, <1>4
    <2>3. CASE Claimed(generation) # {}
      <3>1. PICK i \in Claimed(generation) : TRUE
        BY <2>3
      <3>2. i \in Items /\ item[i].turn = trigger /\ item[i].state = "claimed"
        BY <3>1, <1>5, ClaimedFact DEF Unrun
      <3>3. SameTurn(trigger, i)
        BY <3>2, <1>3 DEF SameTurn
      <3>4. i = trigger
        BY <3>2, <3>3, <1>3 DEF InboxInv, Shapes
      <3> QED BY <3>2, <3>4
    <2> QED BY <2>2, <2>3
  <1> QED BY <1>2, <1>7, <1>8, <1>9, <1>10, <1>11 DEF InboxInv

LEMMA RecoverStep ==
  ASSUME InboxInv,
         RecoverPrompt \/ RecoverRun \/ \E g \in 1..MaxGeneration : RecoverOrphans(g)
  PROVE  InboxInv'
  <1>0. generation \in 0..MaxGeneration /\ 1..MaxGeneration \subseteq 0..MaxGeneration
    BY KindAssumption DEF InboxInv, InboxTypeOK
  <1>1. CASE RecoverRun
    BY <1>0, <1>1, TakeOverStep DEF RecoverRun
  <1>2. CASE \E g \in 1..MaxGeneration : RecoverOrphans(g)
    <2>1. PICK g \in 1..MaxGeneration : RecoverOrphans(g)
      BY <1>2
    <2>2. g \in 0..MaxGeneration /\ TakeOver("finalizing", "orphan", g) /\ trigger' = None
      BY <1>0, <2>1 DEF RecoverOrphans
    <2> QED BY <2>2, TakeOverStep
  <1>3. CASE RecoverPrompt
    <2>1. trigger' = trigger
      BY <1>3 DEF RecoverPrompt
    <2>2. \/ TakeOver("finalizing", "settle", generation)
          \/ TakeOver("reserved", "replay", generation)
          \/ TakeOver("reserved", "redeliver", generation)
      BY <1>3 DEF RecoverPrompt
    <2> QED BY <1>0, <1>3, <2>1, <2>2, TakeOverStep, ReplayStep
  <1> QED BY <1>1, <1>2, <1>3

-----------------------------------------------------------------------------
(* A boundary claims its rows.                                             *)

LEMMA OldestFact ==
  ASSUME InboxInv, NEW S
  PROVE  /\ Oldest(S) \in Seq(Items) /\ IsInjective(Oldest(S))
         /\ Range(Oldest(S)) \subseteq State("accepted") \cap S
  <1>1. queue \in Seq(Items) /\ IsInjective(queue)
    BY DEF InboxInv, InboxTypeOK, Rows, Queued
  <1> QED BY <1>1, AmongFact DEF Oldest

LEMMA FirstOldestFact ==
  ASSUME InboxInv, NEW S, NEW n \in Nat
  PROVE  /\ First(Oldest(S), n) \in Seq(Items) /\ IsInjective(First(Oldest(S), n))
         /\ Range(First(Oldest(S), n)) \subseteq State("accepted") \cap S
         /\ n = 1 => \A x, y \in Range(First(Oldest(S), n)) : x = y
  <1>1. /\ Oldest(S) \in Seq(Items) /\ IsInjective(Oldest(S))
        /\ Range(Oldest(S)) \subseteq State("accepted") \cap S
    BY OldestFact
  <1> HIDE DEF Oldest
  <1>2. /\ First(Oldest(S), n) \in Seq(Items)
        /\ Range(First(Oldest(S), n)) \subseteq Range(Oldest(S))
        /\ IsInjective(Oldest(S)) => IsInjective(First(Oldest(S), n))
        /\ n = 1 => \A x, y \in Range(First(Oldest(S), n)) : x = y
    BY <1>1, FirstFact
  <1> QED BY <1>1, <1>2

\* Rows one boundary may take.
Boundary(rows, b) ==
  /\ rows \in Seq(Items) /\ IsInjective(rows) /\ Range(rows) \subseteq State("accepted")
  /\ \A x, y \in Range(rows) : NextTurn(x) /\ NextTurn(y) => x = y
  /\ \A x, y \in Range(rows) : Kind[x] = "report" => x = y
  /\ ~b => \A x \in Range(rows) : NextStep(x)
  /\ (\E i \in State("claimed") : Kind[i] = "report") => rows = <<>>

LEMMA SelectedFact ==
  ASSUME InboxInv, NEW b \in BOOLEAN PROVE Boundary(SelectedRows(b), b)
  <1> DEFINE steps == First(Oldest({i \in Items : NextStep(i)}), MaxStepBatch)
             turns == First(Oldest({i \in Items : NextTurn(i)}), 1)
             one == First(Oldest({i \in Items : Kind[i] = "human"}), 1)
             report == \E i \in State("claimed") : Kind[i] = "report"
  <1>0. MaxStepBatch \in Nat /\ 1 \in Nat
    BY KindAssumption
  <1>1. /\ steps \in Seq(Items) /\ IsInjective(steps)
        /\ Range(steps) \subseteq State("accepted") \cap {i \in Items : NextStep(i)}
    BY <1>0, FirstOldestFact
  <1>2. /\ turns \in Seq(Items) /\ IsInjective(turns)
        /\ Range(turns) \subseteq State("accepted") \cap {i \in Items : NextTurn(i)}
        /\ \A x, y \in Range(turns) : x = y
    BY <1>0, FirstOldestFact
  <1>3. /\ one \in Seq(Items) /\ IsInjective(one)
        /\ Range(one) \subseteq State("accepted") \cap {i \in Items : Kind[i] = "human"}
        /\ \A x, y \in Range(one) : x = y
    BY <1>0, FirstOldestFact
  <1>4. /\ report => SelectedRows(b) = <<>>
        /\ ~report =>
             \/ card /\ b /\ SelectedRows(b) = one
             \/ card /\ ~b /\ SelectedRows(b) = <<>>
             \/ ~card /\ (~b \/ turns = <<>>) /\ SelectedRows(b) = steps
             \/ b /\ turns # <<>> /\ Kind[turns[1]] = "report" /\ SelectedRows(b) \in {turns, steps}
             \/ b /\ turns # <<>> /\ Kind[turns[1]] # "report" /\ SelectedRows(b) = steps \o turns
    <2>1. SelectedRows(b) =
            IF report THEN <<>>
            ELSE IF card THEN (IF b THEN one ELSE <<>>)
            ELSE IF ~b \/ turns = <<>> THEN steps
            ELSE IF Kind[turns[1]] # "report" THEN steps \o turns
            ELSE IF steps = <<>> THEN turns ELSE steps
      BY DEF SelectedRows
    <2>2. card \in BOOLEAN /\ report \in BOOLEAN
      BY DEF InboxInv, InboxTypeOK
    <2> HIDE DEF steps, turns, one, report
    <2>3. CASE report
      BY <2>1, <2>2, <2>3
    <2>4. CASE ~report /\ card
      BY <2>1, <2>2, <2>4
    <2>5. CASE ~report /\ ~card /\ (~b \/ turns = <<>>)
      BY <2>1, <2>2, <2>5
    <2>6. CASE ~report /\ ~card /\ b /\ turns # <<>> /\ Kind[turns[1]] = "report"
      BY <2>1, <2>2, <2>6
    <2>7. CASE ~report /\ ~card /\ b /\ turns # <<>> /\ Kind[turns[1]] # "report"
      BY <2>1, <2>2, <2>7
    <2> QED BY <2>2, <2>3, <2>4, <2>5, <2>6, <2>7
  <1>5. /\ <<>> \in Seq(Items) /\ IsInjective(<<>>) /\ Range(<<>>) = {}
    BY DEF IsInjective, Range
  <1>6. \A i \in Items : /\ NextStep(i) => ~NextTurn(i) /\ Kind[i] # "report"
                         /\ Kind[i] = "human" => NextTurn(i) /\ Kind[i] # "report"
    BY DEF NextStep, NextTurn
  <1>7. Range(steps) \subseteq Items /\ Range(turns) \subseteq Items /\ Range(one) \subseteq Items
    BY <1>1, <1>2, <1>3
  <1> HIDE DEF steps, turns, one, report
  <1>8. CASE SelectedRows(b) = <<>>
    BY <1>8, <1>5 DEF Boundary
  <1>9. CASE ~report /\ b /\ SelectedRows(b) = one
    BY <1>9, <1>3, <1>6, <1>7 DEF Boundary, report
  <1>10. CASE ~report /\ SelectedRows(b) = steps
    BY <1>10, <1>1, <1>6, <1>7 DEF Boundary, report
  <1>11. CASE ~report /\ b /\ SelectedRows(b) = turns
    BY <1>11, <1>2 DEF Boundary, report
  <1>12. CASE /\ ~report /\ b /\ turns # <<>> /\ Kind[turns[1]] # "report"
              /\ SelectedRows(b) = steps \o turns
    <2>1. turns[1] \in Range(turns)
      BY <1>12, <1>2, EndsFact
    <2>2. \A x \in Range(turns) : Kind[x] # "report"
      BY <2>1, <1>2, <1>12
    <2>3. Range(steps) \cap Range(turns) = {}
      BY <1>1, <1>2, <1>6
    <2>4. /\ steps \o turns \in Seq(Items) /\ Range(steps \o turns) = Range(steps) \cup Range(turns)
          /\ IsInjective(steps \o turns)
      BY <1>1, <1>2, <2>3, JoinFact
    <2>5. \A x \in Range(steps \o turns) : Kind[x] # "report" /\ (NextTurn(x) => x \in Range(turns))
      BY <2>2, <2>4, <1>1, <1>6
    <2> QED BY <1>12, <2>4, <2>5, <1>1, <1>2 DEF Boundary, report
  <1> QED BY <1>4, <1>8, <1>9, <1>10, <1>11, <1>12

\* The two boundaries: of a woken driver, and of a step within a run.
Boundaries(rows, b) ==
  \/ task = "claim" /\ b /\ Materialise(rows, "deliver")
  \/ task = "boundary" /\ b = ~TurnClosed /\ Materialise(rows, "stepDeliver")

\* The turn of the rows: named after one of them, or the turn of the run.
LEMMA MaterialiseFact ==
  ASSUME InboxInv, NEW b \in BOOLEAN, NEW rows, Boundary(rows, b), Boundaries(rows, b)
  PROVE  /\ trigger' \in Items
         /\ item' = [i \in Items |->
                       IF i \in Range(rows)
                         THEN [item[i] EXCEPT !.state = "claimed", !.gen = generation,
                                              !.turn = trigger', !.expired = FALSE]
                         ELSE item[i]]
         /\ \/ /\ task = "claim" /\ task' = "deliver" /\ trigger = None
               /\ trigger' \in Range(rows) /\ Claimed(generation) = {}
            \/ /\ task = "boundary" /\ task' = "stepDeliver" /\ trigger' = trigger
               /\ Kind[trigger] # "report" /\ \A x \in Range(rows) : NextStep(x)
  <1>0. rows \in Seq(Items) /\ rows # <<>> /\ Range(rows) \subseteq Items /\ Last(rows) \in Range(rows)
    BY EndsFact DEF Boundary, Boundaries, Materialise, State
  <1> DEFINE mine == Claimed(generation)
             named == IF mine # {} THEN item[CHOOSE i \in mine : TRUE].turn
                      ELSE IF trigger # None THEN trigger ELSE Last(rows)
  <1>1. /\ trigger' = named
        /\ item' = [i \in Items |->
                      IF i \in Range(rows)
                        THEN [item[i] EXCEPT !.state = "claimed", !.gen = generation,
                                             !.turn = named, !.expired = FALSE]
                        ELSE item[i]]
    BY DEF Boundaries, Materialise
  <1>2. CASE task = "claim"
    <2>1. mine = {} /\ trigger = None /\ task' = "deliver"
      BY <1>2 DEF InboxInv, Driver, Boundaries, Materialise
    <2> QED BY <1>0, <1>1, <1>2, <2>1
  <1>3. CASE task = "boundary"
    <2>1. /\ trigger # None /\ trigger \in Items /\ b = FALSE /\ task' = "stepDeliver"
          /\ phase = "running"
      BY <1>3 DEF InboxInv, InboxTypeOK, Driver, Boundaries, TurnClosed, Materialise
    <2>2. \A i \in mine : item[i].turn = trigger
      BY <2>1 DEF InboxInv, Claims
    <2>3. named = trigger
      BY <2>1, <2>2
    <2>4. Kind[trigger] # "report"
      <3>1. Kind[trigger] = "report" => trigger \in State("claimed")
        BY <1>3, <2>1 DEF InboxInv, Reports, State
      <3> QED BY <3>1, <1>0 DEF Boundary
    <2> HIDE DEF named
    <2>5. \A x \in Range(rows) : NextStep(x)
      BY <2>1 DEF Boundary
    <2> QED BY <1>1, <1>3, <2>1, <2>3, <2>4, <2>5
  <1> QED BY <1>2, <1>3 DEF Boundaries

LEMMA MaterialiseStep ==
  ASSUME InboxInv, NEW b \in BOOLEAN, NEW rows, Boundary(rows, b), Boundaries(rows, b),
         ticket' \in 0..MaxGeneration, ticketLive' \in BOOLEAN, card' \in BOOLEAN
  PROVE  InboxInv'
  <1> DEFINE R == Range(rows)
  <1>1. /\ trigger' \in Items
        /\ item' = [i \in Items |->
                       IF i \in R
                         THEN [item[i] EXCEPT !.state = "claimed", !.gen = generation,
                                              !.turn = trigger', !.expired = FALSE]
                         ELSE item[i]]
        /\ \/ /\ task = "claim" /\ task' = "deliver" /\ trigger = None
              /\ trigger' \in R /\ Claimed(generation) = {}
           \/ /\ task = "boundary" /\ task' = "stepDeliver" /\ trigger' = trigger
              /\ Kind[trigger] # "report" /\ \A x \in R : NextStep(x)
    BY MaterialiseFact
  <1>2. /\ messages' = messages \o rows
        /\ verdict' = [i \in Items |-> IF i \in R THEN "todo" ELSE "none"]
        /\ UNCHANGED <<generation, live, phase, queue, plan, from, faults>>
    BY DEF Boundaries, Materialise
  <1>3. /\ rows \in Seq(Items) /\ IsInjective(rows) /\ R \subseteq State("accepted") /\ R \subseteq Items
        /\ \A x, y \in R : NextTurn(x) /\ NextTurn(y) => x = y
        /\ \A x, y \in R : Kind[x] = "report" => x = y
    BY DEF Boundary, State
  <1>4. /\ item \in [Items -> Row] /\ generation \in 0..MaxGeneration /\ generation \in Nat
        /\ messages \in Seq(Items) /\ None \notin Items
    BY KindAssumption DEF InboxInv, InboxTypeOK
  <1> HIDE DEF R
  <1>5. ASSUME NEW i \in R
        PROVE  /\ i \in Items /\ item'[i] \in Row
               /\ item'[i].state = "claimed" /\ item'[i].gen = generation /\ item'[i].turn = trigger'
               /\ item'[i].seen = FALSE /\ item'[i].ranBy = 0 /\ item'[i].outcome = item[i].outcome
               /\ item[i].state = "accepted" /\ item[i].turn = None
    <2>1. i \in Items /\ item[i].state = "accepted"
      BY <1>3 DEF State
    <2>2. item[i].turn = None /\ item[i].seen = FALSE /\ item[i].ranBy = 0
      BY <2>1 DEF InboxInv, Rows
    <2>3. item[i] \in Row
      BY <2>1, <1>4
    <2>4. item'[i] = [item[i] EXCEPT !.state = "claimed", !.gen = generation,
                                     !.turn = trigger', !.expired = FALSE]
      BY <2>1, <1>1
    <2>5. item'[i] \in Row
      <3>1. trigger' \in Items \cup {None}
        BY <1>1
      <3> QED BY <2>3, <2>4, <3>1, <1>4 DEF Row
    <2>6. /\ item'[i].state = "claimed" /\ item'[i].gen = generation /\ item'[i].turn = trigger'
          /\ item'[i].seen = item[i].seen /\ item'[i].ranBy = item[i].ranBy
          /\ item'[i].outcome = item[i].outcome
      BY <2>3, <2>4 DEF Row
    <2> QED BY <2>1, <2>2, <2>5, <2>6
  <1>6. \A i \in Items : i \notin R => item'[i] = item[i]
    BY <1>1
  <1>7. /\ item' \in [Items -> Row]
    <2>1. \A i \in Items : item'[i] \in Row
      BY <1>4, <1>5, <1>6
    <2>2. item' = [i \in Items |-> item'[i]]
      BY <1>1
    <2> QED BY <2>1, <2>2
  <1>8. \A i \in Items : item'[i].state = "new" <=> item[i].state = "new"
    BY <1>5, <1>6
  <1>9. Claimed(generation)' = Claimed(generation) \cup R
    BY <1>2, <1>3, <1>5, <1>6 DEF Claimed, State
  <1>10. /\ trigger # None => item[trigger].turn = trigger /\ trigger \in Items
         /\ \A i \in Items : item[i].turn # None => item[item[i].turn].turn = item[i].turn
         /\ \A i \in Items : item[i].turn \in Items \cup {None}
    BY RowFact DEF InboxInv, InboxTypeOK, Shapes
  <1>11. InboxTypeOK'
    <2>1. messages' \in Seq(Items)
      BY <1>2, <1>3, <1>4, JoinFact
    <2>2. verdict' \in [Items -> {"none", "todo", "run", "terminal", "pending"}]
      BY <1>2
    <2>3. task' \in Pcs
      BY <1>1 DEF Pcs
    <2> QED BY <1>1, <1>2, <1>7, <2>1, <2>2, <2>3 DEF InboxInv, InboxTypeOK
  <1>12. Rows'
    <2>1. Queued'
      BY <1>2, <1>8, QueueKept
    <2>2. /\ State("claimed")' = State("claimed") \cup R
          /\ State("settled")' = State("settled")
          /\ R \cap (State("claimed") \cup State("settled")) = {}
      BY <1>3, <1>5, <1>6 DEF State
    <2>3. IsInjective(messages) /\ Range(messages) = State("claimed") \cup State("settled")
      BY DEF InboxInv, Rows
    <2>4. Range(rows) = R
      BY DEF R
    <2>5. IsInjective(messages') /\ Range(messages') = Range(messages) \cup R
      BY <1>2, <1>3, <1>4, <2>2, <2>3, <2>4, JoinFact
    <2>6. ASSUME NEW i \in Items
          PROVE  /\ item'[i].gen <= generation'
                 /\ IF item'[i].state \in {"claimed", "settled"} THEN item'[i].turn # None
                    ELSE item'[i].turn = None /\ ~item'[i].seen /\ item'[i].ranBy = 0
      <3>1. CASE i \in R
        <4>1. trigger' # None /\ generation' = generation
          BY <1>1, <1>2, <1>4
        <4>2. /\ item'[i].state = "claimed" /\ item'[i].gen = generation
              /\ item'[i].turn = trigger'
          BY <3>1, <1>5
        <4>3. item'[i].gen <= generation'
          BY <4>1, <4>2, <1>4
        <4> QED BY <4>1, <4>2, <4>3
      <3>2. CASE i \notin R
        BY <3>2, <1>2, <1>6 DEF InboxInv, Rows
      <3> QED BY <3>1, <3>2
    <2> QED BY <2>1, <2>2, <2>3, <2>5, <2>6 DEF Rows
  <1>13. item'[trigger'].turn = trigger'
    <2>1. CASE trigger' \in R
      BY <2>1, <1>5
    <2>2. CASE trigger' \notin R
      <3>1. trigger' = trigger /\ trigger' \in Items /\ trigger # None
        BY <2>2, <1>1, <1>4
      <3>2. item'[trigger] = item[trigger]
        BY <2>2, <3>1, <1>6
      <3> QED BY <3>1, <3>2, <1>10
    <2> QED BY <2>1, <2>2
  <1>14. Shapes'
    <2>1. ASSUME NEW i \in Items, item'[i].turn # None
          PROVE  item'[item'[i].turn].turn = item'[i].turn
      <3>1. CASE i \in R
        BY <3>1, <1>5, <1>13
      <3>2. CASE i \notin R
        <4> DEFINE t == item[i].turn
        <4>1. item'[i] = item[i] /\ t # None /\ t \in Items /\ item[t].turn = t
          BY <2>1, <3>2, <1>6, <1>10
        <4>2. t \notin R
          BY <4>1, <1>5
        <4>3. item'[t] = item[t]
          BY <4>1, <4>2, <1>6
        <4> QED BY <4>1, <4>3
      <3> QED BY <3>1, <3>2
    <2>2. ASSUME NEW i \in Items, NEW j \in Items, SameTurn(i, j)'
          PROVE  /\ NextTurn(i) /\ NextTurn(j) => i = j
                 /\ Kind[i] = "report" => i = j
      <3>0. item'[i].turn # None /\ item'[i].turn = item'[j].turn
        BY <2>2 DEF SameTurn
      <3>1. CASE i \in R /\ j \in R
        BY <3>1, <1>3
      <3>2. CASE i \notin R /\ j \notin R
        <4>1. SameTurn(i, j)
          BY <3>0, <3>2, <1>6 DEF SameTurn
        <4> QED BY <4>1 DEF InboxInv, Shapes
      <3>3. CASE ~(i \in R <=> j \in R)
        <4>1. PICK k \in Items : k \in {i, j} /\ k \notin R /\ item[k].turn = trigger'
          BY <3>0, <3>3, <1>5, <1>6
        <4>2. trigger' \notin R
          BY <4>1, <1>1, <1>4, <1>5, <1>10
        <4>3. trigger' = trigger /\ Kind[trigger] # "report" /\ \A x \in R : NextStep(x)
          BY <4>2, <1>1
        <4>4. \A x \in R : ~NextTurn(x) /\ Kind[x] # "report"
          BY <4>3 DEF NextStep, NextTurn
        <4>5. Kind[k] # "report"
          <5>1. SameTurn(k, trigger) /\ trigger \in Items
            BY <4>1, <4>3, <1>1, <1>4, <1>10 DEF SameTurn
          <5>2. Kind[k] = "report" => k = trigger
            BY <5>1 DEF InboxInv, Shapes
          <5> QED BY <5>2, <4>3
        <4> QED BY <3>3, <4>1, <4>4, <4>5
      <3> QED BY <3>1, <3>2, <3>3
    <2>3. trigger' # None => item'[trigger'].turn = trigger'
      BY <1>13
    <2> QED BY <2>1, <2>2, <2>3 DEF Shapes, NextTurn
  <1>15. trigger' # None
    BY <1>1, <1>4
  <1>16. Driver'
    BY <1>1, <1>2, <1>15 DEF InboxInv, Driver, Replaying
  <1>17. Claims'
    <2>1. CASE task = "claim"
      <3>1. phase' = "reserved" /\ trigger' \in R /\ Claimed(generation)' = R /\ task' = "deliver"
        BY <2>1, <1>1, <1>2, <1>9 DEF InboxInv, Driver
      <3>2. Unrun(generation)'
        BY <3>1, <1>5, <1>15 DEF Unrun
      <3> QED BY <3>1, <3>2 DEF Claims, Replaying
    <2>2. CASE task = "boundary"
      <3>1. phase = "running" /\ phase' = "running" /\ trigger' = trigger /\ task' = "stepDeliver" /\ live
        BY <2>2, <1>1, <1>2 DEF InboxInv, Driver
      <3>2. \A i \in Claimed(generation)' : item'[i].turn = trigger'
        <4>1. Claimed(generation) \subseteq Items /\ \A i \in Claimed(generation) : item[i].turn = trigger
          BY <3>1 DEF InboxInv, Claims, Claimed, State
        <4> QED BY <3>1, <4>1, <1>5, <1>6, <1>9
      <3>3. item'[trigger'].ranBy \in {0, generation'}
        <4>1. trigger \notin R /\ trigger \in Items
          BY <3>1, <1>5, <1>10, <1>15
        <4> QED BY <3>1, <4>1, <1>2, <1>6 DEF InboxInv, Claims
      <3> QED BY <3>1, <3>2, <3>3, <1>15 DEF Claims, Replaying
    <2> QED BY <2>1, <2>2, <1>1
  <1>18. Files'
    <2>1. \A i \in Items : IF i \in R THEN verdict'[i] = "todo" ELSE verdict'[i] = "none"
      BY <1>2
    <2>2. ASSUME NEW i \in Claimed(generation)' \cap Attached, verdict'[i] \in {"none", "run"}
          PROVE  item'[i].delivered
      <3>1. i \in Items /\ i \notin R /\ i \in Claimed(generation) \cap Attached
        BY <2>1, <2>2, <1>5, <1>9 DEF Claimed, State
      <3>2. task = "boundary"
        BY <3>1, <1>1
      <3>3. verdict[i] = "none"
        BY <3>1, <3>2 DEF InboxInv, Files
      <3> QED BY <3>1, <3>2, <3>3, <1>6 DEF InboxInv, Files
    <2>3. task' \in {"deliver", "stepDeliver"}
      BY <1>1
    <2> QED BY <2>1, <2>2, <2>3, <1>5, <1>9 DEF Files
  <1>19. Reports'
    BY <1>1, <1>5 DEF Reports, Replaying
  <1>20. Unseen'
    BY <1>5, <1>6 DEF InboxInv, Unseen
  <1> QED BY <1>11, <1>12, <1>14, <1>16, <1>17, <1>18, <1>19, <1>20 DEF InboxInv

LEMMA ClaimStepKept ==
  ASSUME InboxInv, ClaimWoken \/ ClaimStep PROVE InboxInv'
  <1>0. PICK b \in BOOLEAN :
          \/ task = "claim" /\ b = TRUE /\ ClaimWoken
          \/ task = "boundary" /\ b = ~TurnClosed /\ ClaimStep
    <2>1. CASE ClaimWoken
      BY <2>1 DEF ClaimWoken, At
    <2>2. CASE ClaimStep
      <3>1. task = "boundary"
        BY <2>2 DEF ClaimStep, At
      <3>2. PICK b \in BOOLEAN : b = ~TurnClosed
        <4>1. CASE TurnClosed
          <5> WITNESS FALSE \in BOOLEAN
          <5> QED BY <4>1
        <4>2. CASE ~TurnClosed
          <5> WITNESS TRUE \in BOOLEAN
          <5> QED BY <4>2
        <4> QED BY <4>1, <4>2
      <3> QED BY <2>2, <3>1, <3>2
    <2> QED BY <2>1, <2>2
  <1>a. PICK rows : rows = SelectedRows(b)
    OBVIOUS
  <1>1. /\ Boundary(rows, b)
        /\ \/ task = "claim" /\ b /\ rows = SelectedRows(TRUE) /\ ClaimWoken
           \/ task = "boundary" /\ b = ~TurnClosed /\ rows = SelectedRows(b) /\ ClaimStep
    BY <1>0, <1>a, SelectedFact
  <1> DEFINE stays == /\ task' \in {"leave", "step"} /\ (task = "claim" <=> task' = "leave")
                      /\ UNCHANGED <<driver, execution, item, queue, messages, plan, from,
                                     verdict, faults>>
  <1>2. \/ CancelBroken(rows)
        \/ Boundaries(rows, b) /\ (Supersede(rows) \/ UNCHANGED execution)
        \/ stays
    <2>1. CASE ClaimWoken /\ task = "claim" /\ b /\ rows = SelectedRows(TRUE)
      BY <2>1 DEF ClaimWoken, Boundaries
    <2>2. CASE task = "boundary" /\ b = ~TurnClosed /\ rows = SelectedRows(b) /\ ClaimStep
      BY <2>2 DEF ClaimStep, Boundaries
    <2> QED BY <1>1, <2>1, <2>2
  <1>3. CASE CancelBroken(rows)
    BY <1>3, CancelStep DEF CancelBroken
  <1>4. CASE Boundaries(rows, b) /\ (Supersede(rows) \/ UNCHANGED execution)
    <2>1. ticket' \in 0..MaxGeneration /\ ticketLive' \in BOOLEAN /\ card' \in BOOLEAN
      <3>1. (ticket' = 0 /\ ticketLive' = FALSE /\ card' = FALSE) \/ UNCHANGED execution
        <4>1. CASE \E i \in Range(rows) : Human(i)
          BY <1>4, <4>1 DEF Supersede
        <4>2. CASE ~\E i \in Range(rows) : Human(i)
          BY <1>4, <4>2 DEF Supersede
        <4> QED BY <4>1, <4>2
      <3>2. 0 \in 0..MaxGeneration
        BY KindAssumption
      <3>3. CASE ticket' = 0 /\ ticketLive' = FALSE /\ card' = FALSE
        BY <3>2, <3>3
      <3>4. CASE UNCHANGED execution
        BY <3>4 DEF InboxInv, InboxTypeOK, execution
      <3> QED BY <3>1, <3>3, <3>4
    <2> QED BY <1>1, <1>4, <2>1, MaterialiseStep
  <1>5. CASE stays
    <2>1. (\A i \in Items : Alike(i)) /\ Queued'
      BY <1>5, SameFact, TouchedKept
    <2>2. Walks
      BY <1>1, <1>5 DEF Walks, driver
    <2>3. InboxTypeOK'
      BY <1>5 DEF InboxInv, InboxTypeOK, driver, execution, Pcs
    <2> QED BY <1>5, <2>1, <2>2, <2>3, WalkKept DEF driver
  <1> QED BY <1>2, <1>3, <1>4, <1>5

-----------------------------------------------------------------------------
(* Deliveries, and what settles a claim.                                   *)

\* One file was dealt with: its row keeps its claim, and runs only with its file.
LEMMA VerdictKept ==
  ASSUME InboxInv, InboxTypeOK', \A i \in Items : Alike(i), Queued',
         UNCHANGED <<driver, messages, task, plan, from>>,
         task \in {"deliver", "stepDeliver"},
         NEW x \in Items, verdict[x] = "todo",
         \A i \in Items : i # x => verdict'[i] = verdict[i],
         verdict'[x] = "run" /\ x \in Attached => item'[x].delivered,
         verdict'[x] # "none"
  PROVE  InboxInv'
  <1>0. /\ generation \in Nat /\ trigger \in Items \cup {None}
        /\ UNCHANGED <<generation, live, phase, trigger, messages, task, plan, from>>
    BY KindAssumption DEF InboxInv, InboxTypeOK, driver
  <1>1. Rows' /\ Unseen' /\ Shapes'
    BY <1>0, ItemsKept
  <1>2. /\ Claimed(generation)' = Claimed(generation) /\ Claimed(from)' = Claimed(from)
        /\ Claimed(generation) \subseteq Items /\ Claimed(from) \subseteq Items
    BY <1>0 DEF Claimed, State, Alike
  <1>3. \A i \in Items : /\ item'[i].turn = item[i].turn /\ item'[i].seen = item[i].seen
                         /\ item'[i].ranBy = item[i].ranBy
                         /\ (item'[i].state = "claimed" <=> item[i].state = "claimed")
                         /\ (item'[i].state = "settled" <=> item[i].state = "settled")
                         /\ (item[i].delivered => item'[i].delivered)
                         /\ (item[i].reply # "none" => item'[i].reply # "none")
    BY DEF Alike
  <1>4. Driver'
    BY <1>0, <1>2 DEF InboxInv, Driver, Replaying
  <1>5. Claims'
    BY <1>0, <1>2, <1>3 DEF InboxInv, Claims, Unrun, Replaying
  <1>6. Files'
    <2>1. \A i \in Items : verdict'[i] # "none" => ~item'[i].seen /\ i \in Claimed(generation)
      BY <1>0, <1>3 DEF InboxInv, Files
    <2>2. ASSUME NEW i \in Claimed(generation) \cap Attached, verdict'[i] \in {"none", "run"}
          PROVE  item'[i].delivered
      <3>1. CASE i = x
        BY <2>2, <3>1
      <3>2. CASE i # x
        <4>1. i \in Items /\ verdict[i] \in {"none", "run"}
          BY <2>2, <3>2, <1>2
        <4> QED BY <4>1, <2>2, <1>3 DEF InboxInv, Files
      <3> QED BY <3>1, <3>2
    <2> QED BY <2>1, <2>2, <1>0, <1>2 DEF Files
  <1>7. Reports'
    BY <1>0, <1>3 DEF InboxInv, Reports, Replaying
  <1> QED BY <1>1, <1>4, <1>5, <1>6, <1>7 DEF InboxInv

LEMMA UndeliveredFact ==
  ASSUME InboxInv
  PROVE  /\ Undelivered # <<>> => Head(Undelivered) \in Items /\ verdict[Head(Undelivered)] = "todo"
         /\ Undelivered = <<>> => \A i \in Items : verdict[i] # "todo"
  <1>1. queue \in Seq(Items) /\ Range(queue) = {i \in Items : item[i].state # "new"}
    BY DEF InboxInv, InboxTypeOK, Rows, Queued
  <1>2. Undelivered \in Seq(Items) /\ Range(Undelivered) = Range(queue) \cap With("todo")
    BY <1>1, AmongFact DEF Undelivered
  <1>3. Undelivered # <<>> => Head(Undelivered) \in With("todo")
    BY <1>2, EndsFact
  <1>4. ASSUME Undelivered = <<>>, NEW i \in Items, verdict[i] = "todo" PROVE FALSE
    <2>1. item[i].state \in {"claimed", "settled"}
      BY <1>4 DEF InboxInv, Files, Claimed, State
    <2>2. i \in Range(Undelivered)
      BY <2>1, <1>1, <1>2, <1>4 DEF With
    <2> QED BY <2>2, <1>2, <1>4, EmptyFact
  <1> QED BY <1>3, <1>4 DEF With

LEMMA DeliverStep ==
  ASSUME InboxInv, SkipDelivery \/ \E r \in Results : DeliverItem(r) PROVE InboxInv'
  <1>1. PICK x : x = Head(Undelivered)
    OBVIOUS
  <1>2. /\ task \in {"deliver", "stepDeliver"} /\ Undelivered # <<>>
        /\ UNCHANGED <<driver, execution, queue, messages, task, plan, from, faults>>
    BY DEF SkipDelivery, DeliverItem, Delivering
  <1>3. x \in Items /\ verdict[x] = "todo"
    BY <1>1, <1>2, UndeliveredFact
  <1>4. /\ verdict \in [Items -> {"none", "todo", "run", "terminal", "pending"}]
        /\ item \in [Items -> Row] /\ item[x] \in Row
    BY <1>3 DEF InboxInv, InboxTypeOK
  <1>5. CASE SkipDelivery
    <2>1. /\ verdict' = [verdict EXCEPT ![x] = IF x \in Attached THEN "terminal" ELSE "run"]
          /\ item' = item
      BY <1>1, <1>5 DEF SkipDelivery
    <2>2. (\A i \in Items : Alike(i)) /\ Queued'
      BY <1>2, <2>1, SameFact, TouchedKept
    <2>3. /\ verdict'[x] = IF x \in Attached THEN "terminal" ELSE "run"
          /\ \A i \in Items : i # x => verdict'[i] = verdict[i]
          /\ verdict' \in [Items -> {"none", "todo", "run", "terminal", "pending"}]
      BY <1>3, <1>4, <2>1
    <2>4. InboxTypeOK'
      BY <1>2, <2>1, <2>3 DEF InboxInv, InboxTypeOK, driver, execution
    <2> QED BY <1>2, <1>3, <2>2, <2>3, <2>4, VerdictKept
  <1>6. CASE \E r \in Results : DeliverItem(r)
    <2>1. PICK r \in Results : DeliverItem(r)
      BY <1>6
    <2>2. PICK a : a = item[x].attempts + 1
      OBVIOUS
    <2>3. /\ ~Spent(x)
          /\ item' = [item EXCEPT ![x] = IF r = "ok"
                        THEN [item[x] EXCEPT !.delivered = TRUE, !.error = "none"]
                        ELSE [item[x] EXCEPT !.attempts = a, !.error = r]]
          /\ verdict' = [verdict EXCEPT ![x] =
                           IF r = "ok" THEN "run"
                           ELSE IF r = "fatal" \/ a >= MaxAttempts THEN "terminal"
                           ELSE "pending"]
      BY <1>1, <2>1, <2>2 DEF DeliverItem
    <2>4. a \in 0..MaxAttempts
      <3>1. item[x].attempts \in 0..MaxAttempts
        BY <1>4 DEF Row
      <3> QED BY <2>2, <2>3, <3>1, KindAssumption DEF Spent
    <2>5. /\ r = "ok" => item'[x] = [item[x] EXCEPT !.delivered = TRUE, !.error = "none"]
          /\ r # "ok" => item'[x] = [item[x] EXCEPT !.attempts = a, !.error = r]
          /\ \A i \in Items : i # x => item'[i] = item[i]
          /\ item' = [i \in Items |-> item'[i]]
      BY <1>3, <1>4, <2>3
    <2>6. item'[x] \in Row /\ Alike(x) /\ item'[x].state = item[x].state
          /\ (r = "ok" => item'[x].delivered)
      <3>1. CASE r = "ok"
        <4>1. item'[x] = [item[x] EXCEPT !.delivered = TRUE, !.error = "none"]
          BY <2>5, <3>1
        <4>2. item'[x] \in Row
          BY <4>1, <1>4 DEF Row
        <4> QED BY <4>1, <4>2, <1>4 DEF Row, Alike
      <3>2. CASE r # "ok"
        <4>1. item'[x] = [item[x] EXCEPT !.attempts = a, !.error = r] /\ r \in {"retryable", "fatal"}
          BY <2>1, <2>5, <3>2 DEF Results
        <4>2. item'[x] \in Row
          BY <4>1, <2>4, <1>4 DEF Row
        <4> QED BY <3>2, <4>1, <4>2, <1>4 DEF Row, Alike
      <3> QED BY <3>1, <3>2
    <2>7. \A i \in Items : Alike(i) /\ item'[i].state = item[i].state /\ item'[i] \in Row
      BY <1>4, <2>5, <2>6 DEF Alike
    <2>8. /\ verdict'[x] \in {"run", "terminal", "pending"} /\ (verdict'[x] = "run" => r = "ok")
          /\ \A i \in Items : i # x => verdict'[i] = verdict[i]
          /\ verdict' \in [Items -> {"none", "todo", "run", "terminal", "pending"}]
      BY <1>3, <1>4, <2>3
    <2>9. Queued'
      BY <1>2, <2>7, QueueKept
    <2>10. InboxTypeOK'
      <3>1. item' \in [Items -> Row]
        BY <2>5, <2>7
      <3> QED BY <1>2, <3>1, <2>8 DEF InboxInv, InboxTypeOK, driver, execution
    <2> QED BY <1>2, <1>3, <2>6, <2>7, <2>8, <2>9, <2>10, VerdictKept
  <1> QED BY <1>5, <1>6

\* The claims of S are settled; nothing else changes in the rows.
Settles(S) ==
  /\ S \subseteq State("claimed")
  /\ item' = [i \in Items |-> item'[i]]
  /\ \A i \in Items : i \notin S => item'[i] = item[i]
  /\ \A i \in S :
       /\ item'[i] \in Row /\ item'[i].state = "settled"
       /\ item'[i].gen = item[i].gen /\ item'[i].turn = item[i].turn
       /\ item'[i].ranBy = item[i].ranBy /\ item'[i].seen = item[i].seen
       /\ item'[i].outcome = "delivery_error" => ~item[i].seen

\* What settling keeps of a row.
KeptRow(i) ==
  /\ item'[i].gen = item[i].gen /\ item'[i].turn = item[i].turn
  /\ item'[i].ranBy = item[i].ranBy /\ item'[i].seen = item[i].seen

LEMMA SettlesKept ==
  ASSUME InboxInv, NEW S, Settles(S), UNCHANGED <<generation, trigger, queue, messages>>
  PROVE  /\ item' \in [Items -> Row] /\ Rows' /\ Shapes' /\ Unseen'
         /\ \A g : Claimed(g)' = Claimed(g) \ S
         /\ \A i \in Items : KeptRow(i)
  <1>0. S \subseteq Items /\ \A i \in S : item[i].state = "claimed"
    BY DEF Settles, State
  <1>1. item' \in [Items -> Row]
    <2>1. \A i \in Items : item'[i] \in Row
      BY RowFact DEF Settles, InboxInv
    <2> QED BY <2>1 DEF Settles
  <1>2. \A i \in Items : KeptRow(i)
    BY DEF Settles, KeptRow
  <1>3. \A g : Claimed(g)' = Claimed(g) \ S
    BY <1>0 DEF Settles, Claimed, State
  <1>4. Rows'
    <2>1. Queued'
      BY <1>0, QueueKept DEF Settles
    <2>2. (State("claimed") \cup State("settled"))' = State("claimed") \cup State("settled")
      BY <1>0 DEF Settles, State
    <2>3. ASSUME NEW i \in Items
          PROVE  /\ item'[i].gen <= generation'
                 /\ IF item'[i].state \in {"claimed", "settled"} THEN item'[i].turn # None
                    ELSE item'[i].turn = None /\ ~item'[i].seen /\ item'[i].ranBy = 0
      <3>1. CASE i \in S
        <4>1. item'[i].state = "settled" /\ item[i].state = "claimed"
          BY <3>1, <1>0 DEF Settles
        <4> QED BY <4>1, <1>2 DEF InboxInv, Rows, KeptRow
      <3>2. CASE i \notin S
        BY <3>2 DEF Settles, InboxInv, Rows
      <3> QED BY <3>1, <3>2
    <2> QED BY <2>1, <2>2, <2>3 DEF InboxInv, Rows
  <1>5. Shapes'
    <2>0. trigger \in Items \cup {None} /\ \A i \in Items : item[i].turn \in Items \cup {None}
      BY RowFact DEF InboxInv, InboxTypeOK
    <2>1. \A i \in Items : item'[i].turn # None => item'[item'[i].turn].turn = item'[i].turn
      BY <1>2, <2>0 DEF InboxInv, Shapes, KeptRow
    <2>2. \A i, j \in Items :
            SameTurn(i, j)' => /\ NextTurn(i) /\ NextTurn(j) => i = j
                               /\ Kind[i] = "report" => i = j
      BY <1>2 DEF InboxInv, Shapes, SameTurn, KeptRow
    <2>3. trigger' # None => item'[trigger'].turn = trigger'
      BY <1>2, <2>0 DEF InboxInv, Shapes, KeptRow
    <2> QED BY <2>1, <2>2, <2>3 DEF Shapes, NextTurn
  <1>6. Unseen'
    BY <1>0 DEF Settles, InboxInv, Unseen
  <1> QED BY <1>1, <1>2, <1>3, <1>4, <1>5, <1>6

LEMMA SettledFact ==
  ASSUME NEW r \in Row, NEW o \in Outcomes
  PROVE  /\ Settled(r, o) \in Row /\ Settled(r, o).state = "settled" /\ Settled(r, o).outcome = o
         /\ Settled(r, o).gen = r.gen /\ Settled(r, o).turn = r.turn
         /\ Settled(r, o).ranBy = r.ranBy /\ Settled(r, o).seen = r.seen
         /\ Settled(r, o).reply = r.reply
  <1>1. Settled(r, o) \in Row
    BY DEF Settled, Row
  <1> QED BY <1>1 DEF Settled, Row

LEMMA ClaimsSettled ==
  ASSUME InboxInv, NEW o \in {"ran", "recovered"}, SettleClaims(o)
  PROVE  Settles(Claimed(generation))
  <1>1. Claimed(generation) \subseteq State("claimed") /\ State("claimed") \subseteq Items
    BY DEF Claimed, State
  <1>2. ASSUME NEW i \in Claimed(generation)
        PROVE  /\ item'[i] \in Row /\ item'[i].state = "settled"
               /\ item'[i].gen = item[i].gen /\ item'[i].turn = item[i].turn
               /\ item'[i].ranBy = item[i].ranBy /\ item'[i].seen = item[i].seen
               /\ item'[i].outcome = o
    <2>1. item'[i] = Settled(item[i], o) /\ item[i] \in Row
      BY <1>1, RowFact DEF SettleClaims, InboxInv
    <2>2. o \in Outcomes
      BY DEF Outcomes
    <2> QED BY <2>1, <2>2, SettledFact
  <1>3. /\ item' = [i \in Items |-> item'[i]]
        /\ \A i \in Items : i \notin Claimed(generation) => item'[i] = item[i]
    BY DEF SettleClaims
  <1> QED BY <1>1, <1>2, <1>3 DEF Settles

LEMMA CloseFact ==
  ASSUME InboxInv, NEW S, NEW o \in {"not_run", "delivery_error"}, NEW close \in BOOLEAN,
         CloseNeverRan(S, o, close), S \subseteq State("claimed"),
         o = "delivery_error" => \A i \in S : ~item[i].seen
  PROVE  /\ Settles(S)
         /\ close => \A i \in S : i = LastOf(queue, S) => item'[i].reply = "done"
  <1>1. State("claimed") \subseteq Items
    BY DEF State
  <1>2. ASSUME NEW i \in S
        PROVE  /\ item'[i] \in Row /\ item'[i].state = "settled"
               /\ item'[i].gen = item[i].gen /\ item'[i].turn = item[i].turn
               /\ item'[i].ranBy = item[i].ranBy /\ item'[i].seen = item[i].seen
               /\ item'[i].outcome = o
               /\ close /\ i = LastOf(queue, S) => item'[i].reply = "done"
    <2> DEFINE r == Settled(item[i], o)
               v == IF close /\ i = LastOf(queue, S) THEN "done" ELSE r.reply
    <2>1. i \in Items /\ item[i] \in Row /\ o \in Outcomes
      BY <1>1, RowFact DEF InboxInv, Outcomes
    <2>2. item'[i] = [r EXCEPT !.reply = v]
      BY <2>1 DEF CloseNeverRan
    <2>3. /\ r \in Row /\ r.state = "settled" /\ r.outcome = o
          /\ r.gen = item[i].gen /\ r.turn = item[i].turn
          /\ r.ranBy = item[i].ranBy /\ r.seen = item[i].seen /\ r.reply = item[i].reply
      BY <2>1, SettledFact
    <2>4. v \in {"none", "open", "tools", "done"} /\ (close /\ i = LastOf(queue, S) => v = "done")
      BY <2>1, <2>3 DEF Row
    <2> HIDE DEF r, v
    <2>5. item'[i] \in Row
      BY <2>2, <2>3, <2>4, EditFact
    <2>6. /\ item'[i].state = r.state /\ item'[i].gen = r.gen /\ item'[i].turn = r.turn
          /\ item'[i].ranBy = r.ranBy /\ item'[i].seen = r.seen /\ item'[i].outcome = r.outcome
          /\ item'[i].reply = v
      BY <2>2, <2>3 DEF Row
    <2> QED BY <2>3, <2>4, <2>5, <2>6
  <1>3. /\ item' = [i \in Items |-> item'[i]]
        /\ \A i \in Items : i \notin S => item'[i] = item[i]
    BY DEF CloseNeverRan
  <1>4. Settles(S)
    BY <1>2, <1>3 DEF Settles
  <1> QED BY <1>2, <1>4

\* A report is alone in its turn: the claims of its run are its own.
LEMMA ReportAlone ==
  ASSUME InboxInv, phase = "reserved", trigger # None, Kind[trigger] = "report",
         NEW i \in Claimed(generation)
  PROVE  i = trigger
  <1>1. i \in Items /\ item[i].turn = trigger /\ trigger \in Items
    BY ClaimedFact DEF InboxInv, InboxTypeOK, Claims, Unrun
  <1>2. SameTurn(trigger, i)
    BY <1>1 DEF InboxInv, Shapes, SameTurn
  <1> QED BY <1>1, <1>2 DEF InboxInv, Shapes

LEMMA SettleDeliveryStep ==
  ASSUME InboxInv, SettleDelivery PROVE InboxInv'
  <1> DEFINE T == With("terminal")
             close == With("run") = {} /\ ~Unfinished
  <1>1. /\ task \in {"deliver", "stepDeliver"} /\ Undelivered = <<>>
        /\ CloseNeverRan(T, "delivery_error", close)
        /\ task' = IF task = "deliver" THEN "delivered" ELSE "stepDelivered"
        /\ UNCHANGED <<driver, execution, queue, messages, plan, from, verdict, faults>>
    BY DEF SettleDelivery
  <1>2. \A i \in Items : verdict[i] # "none" => ~item[i].seen /\ i \in Claimed(generation)
    BY <1>1 DEF InboxInv, Files
  <1>3. T \subseteq State("claimed") /\ \A i \in T : ~item[i].seen /\ i \in Items
    BY <1>2 DEF With, Claimed
  <1>4. close \in BOOLEAN
    OBVIOUS
  <1>5. UNCHANGED <<generation, live, phase, trigger>>
    BY <1>1 DEF driver
  <1> HIDE DEF close
  <1>6. close => \A i \in T : i = LastOf(queue, T) => item'[i].reply = "done"
    BY <1>1, <1>3, <1>4, CloseFact
  <1>7. Settles(T)
    BY <1>1, <1>3, <1>4, CloseFact
  <1>8. /\ item' \in [Items -> Row] /\ Rows' /\ Shapes' /\ Unseen'
        /\ \A g : Claimed(g)' = Claimed(g) \ T
        /\ \A i \in Items : KeptRow(i)
    BY <1>1, <1>5, <1>7, SettlesKept
  <1>9. Claimed(generation)' = Claimed(generation) \ T /\ Claimed(generation) \subseteq Items
    <2>1. Claimed(generation)' = {i \in Items : item'[i].state = "claimed" /\ item'[i].gen = generation}
      BY <1>5 DEF Claimed, State
    <2>2. \A i \in Items : item'[i].gen = item[i].gen
      BY <1>8 DEF KeptRow
    <2>3. \A i \in Items : IF i \in T THEN item'[i].state = "settled" ELSE item'[i] = item[i]
      BY <1>7 DEF Settles
    <2> QED BY <2>1, <2>2, <2>3 DEF Claimed, State
  <1>10. InboxTypeOK'
    <2>1. task' \in Pcs
      BY <1>1 DEF Pcs
    <2> QED BY <1>1, <1>5, <1>8, <2>1 DEF InboxInv, InboxTypeOK, execution
  <1>11. Driver'
    BY <1>1, <1>5 DEF InboxInv, Driver, Replaying
  <1>12. trigger \in Items \cup {None} /\ task' # "rebind"
    BY <1>1 DEF InboxInv, InboxTypeOK
  <1>13. Claims'
    BY <1>5, <1>8, <1>9, <1>12 DEF InboxInv, Claims, Unrun, Replaying, KeptRow
  <1>14. Files'
    <2>1. \A i \in Items : verdict[i] # "todo"
      BY <1>1, UndeliveredFact
    <2>2. \A i \in Items : verdict'[i] = verdict[i] /\ (verdict[i] = "terminal" <=> i \in T)
      BY <1>1 DEF With
    <2>3. ASSUME NEW i \in Items, verdict'[i] # "none"
          PROVE  /\ ~item'[i].seen
                 /\ \/ i \in Claimed(generation)'
                    \/ verdict'[i] = "terminal" /\ item'[i].state = "settled"
      <3>1. ~item'[i].seen
        BY <2>2, <2>3, <1>2, <1>8 DEF KeptRow
      <3>2. CASE i \in T
        BY <3>1, <3>2, <2>2, <1>7 DEF Settles
      <3>3. CASE i \notin T
        BY <3>1, <3>3, <2>2, <2>3, <1>2, <1>9
      <3> QED BY <3>2, <3>3
    <2>4. ASSUME NEW i \in Claimed(generation)' \cap Attached, verdict'[i] \in {"none", "run"}
          PROVE  item'[i].delivered
      <3>1. i \in Claimed(generation) \cap Attached /\ i \notin T /\ i \in Items
        BY <2>4, <1>9
      <3>2. item'[i] = item[i] /\ verdict[i] \in {"none", "run"}
        BY <3>1, <2>2, <2>4, <1>7 DEF Settles
      <3> QED BY <3>1, <3>2, <1>1 DEF InboxInv, Files
    <2>5. task' \in {"delivered", "stepDelivered"}
      BY <1>1
    <2>6. \A i \in Items : verdict'[i] = "terminal" => i \notin Claimed(generation)'
      BY <2>2, <1>9
    <2> HIDE DEF T
    <2> QED BY <2>1, <2>2, <2>3, <2>4, <2>5, <2>6 DEF Files
  <1>15. Reports'
    <2> SUFFICES ASSUME trigger # None, Kind[trigger] = "report"
                 PROVE  /\ task' = "delivered"
                        /\ item'[trigger].state = "claimed" \/ item'[trigger].reply # "none"
      BY <1>1, <1>5 DEF Reports, Replaying
    <2>1. task = "deliver" /\ phase = "reserved" /\ item[trigger].state = "claimed" /\ trigger \in Items
      BY <1>1, <1>12 DEF InboxInv, Reports, Driver
    <2>2. CASE trigger \notin T
      <3>1. item'[trigger] = item[trigger]
        BY <2>1, <2>2, <1>7 DEF Settles
      <3> QED BY <2>1, <3>1, <1>1
    <2>3. CASE trigger \in T
      <3>1. \A i \in Items : verdict[i] # "none" => i = trigger
        BY <1>2, <2>1, ReportAlone
      <3>2. verdict[trigger] = "terminal"
        BY <2>3 DEF With
      <3>3. close
        BY <3>1, <3>2 DEF close, With, Unfinished
      <3>4. T = {trigger}
        BY <3>1, <2>3 DEF With
      <3>5. trigger \in Range(queue)
        BY <2>1 DEF InboxInv, Rows, Queued
      <3>6. LastOf(queue, T) \in T
        <4>1. queue \in Seq(Items) /\ Range(queue) \cap T # {}
          BY <2>3, <3>5 DEF InboxInv, InboxTypeOK
        <4> QED BY <4>1, LastOfFact
      <3>7. item'[trigger].reply = "done"
        BY <3>3, <3>4, <3>6, <1>6
      <3> QED BY <3>7, <2>1, <1>1
    <2> QED BY <2>2, <2>3
  <1> QED BY <1>8, <1>10, <1>11, <1>13, <1>14, <1>15 DEF InboxInv

\* Settling by the run itself, by a refusal or by recovery: a report of a wake that is
\* settled has its reply.
LEMMA ClaimsGone ==
  ASSUME InboxInv, Settles(Claimed(generation)),
         UNCHANGED <<driver, execution, queue, messages, plan, from, verdict, faults>>,
         \/ task = "refused" /\ task' = "leave"
         \/ task = "settle" /\ task' = "finish"
         \/ task \in {"resettle", "answered"} /\ task' = "leave",
         task = "refused" =>
           \A i \in Claimed(generation) : i = LastOf(queue, Claimed(generation))
                                            => item'[i].reply = "done"
  PROVE  InboxInv'
  <1>1. UNCHANGED <<generation, live, phase, trigger>> /\ trigger \in Items \cup {None}
    BY DEF driver, InboxInv, InboxTypeOK
  <1>2. /\ item' \in [Items -> Row] /\ Rows' /\ Shapes' /\ Unseen'
        /\ \A i \in Items : KeptRow(i)
    BY <1>1, SettlesKept
  <1>3. Claimed(generation)' = {}
    <2>1. ASSUME NEW i \in Items, item'[i].state = "claimed", item'[i].gen = generation PROVE FALSE
      <3>1. item[i].gen = generation
        BY <2>1, <1>2 DEF KeptRow
      <3>2. i \notin Claimed(generation)
        BY <2>1 DEF Settles
      <3>3. item'[i] = item[i]
        BY <3>2 DEF Settles
      <3> QED BY <2>1, <3>1, <3>2, <3>3 DEF Claimed, State
    <2> QED BY <2>1, <1>1 DEF Claimed, State
  <1>4. InboxTypeOK'
    <2>1. task' \in Pcs
      BY DEF Pcs
    <2> QED BY <1>1, <1>2, <2>1 DEF InboxInv, InboxTypeOK, execution
  <1>5. Driver'
    BY <1>1, <1>3 DEF InboxInv, Driver, Replaying
  <1>6. phase # "running"
    BY DEF InboxInv, Driver
  <1>7. Claims'
    BY <1>1, <1>2, <1>3, <1>6 DEF InboxInv, Claims, Unrun, Replaying, KeptRow
  <1>8. Files'
    <2>1. \A i \in Items : verdict'[i] = "none"
      BY DEF InboxInv, Files
    <2> QED BY <2>1, <1>3 DEF Files
  <1>9. Reports'
    <2> SUFFICES ASSUME trigger # None, Kind[trigger] = "report", phase = "reserved"
                 PROVE  item'[trigger].state = "claimed" \/ item'[trigger].reply # "none"
      BY <1>1 DEF Reports, Replaying
    <2>1. task = "refused" /\ item[trigger].state = "claimed" /\ trigger \in Items
      BY <1>1 DEF InboxInv, Driver, Reports
    <2>2. CASE trigger \notin Claimed(generation)
      BY <2>1, <2>2 DEF Settles
    <2>3. CASE trigger \in Claimed(generation)
      <3>1. Claimed(generation) = {trigger}
        BY <2>3, ReportAlone
      <3>2. trigger \in Range(queue)
        BY <2>1 DEF InboxInv, Rows, Queued
      <3>3. LastOf(queue, Claimed(generation)) \in Claimed(generation)
        <4>1. queue \in Seq(Items) /\ Range(queue) \cap Claimed(generation) # {}
          BY <2>3, <3>2 DEF InboxInv, InboxTypeOK
        <4> QED BY <4>1, LastOfFact
      <3> QED BY <2>1, <3>1, <3>3
    <2> QED BY <2>2, <2>3
  <1> QED BY <1>2, <1>4, <1>5, <1>7, <1>8, <1>9 DEF InboxInv

LEMMA SettleClaimsStep ==
  ASSUME InboxInv, SettleRefused \/ SettleRun \/ Resettle \/ SettleAnswered PROVE InboxInv'
  <1>0. Claimed(generation) \subseteq State("claimed")
    BY DEF Claimed
  <1>1. UNCHANGED <<driver, execution, queue, messages, plan, from, verdict, faults>>
    BY DEF SettleRefused, SettleRun, Resettle, SettleAnswered, Worker, driver
  <1>2. CASE SettleRefused
    <2>1. /\ task = "refused" /\ task' = "leave"
          /\ CloseNeverRan(Claimed(generation), "not_run", TRUE)
      BY <1>2 DEF SettleRefused, Worker, At
    <2>2. /\ Settles(Claimed(generation))
          /\ \A i \in Claimed(generation) : i = LastOf(queue, Claimed(generation))
                                              => item'[i].reply = "done"
      BY <1>0, <2>1, CloseFact
    <2> QED BY <1>1, <2>1, <2>2, ClaimsGone
  <1>3. CASE SettleRun \/ Resettle \/ SettleAnswered
    <2>1. Settles(Claimed(generation))
      BY <1>3, ClaimsSettled DEF SettleRun, Resettle, SettleAnswered
    <2>2. \/ task = "settle" /\ task' = "finish"
          \/ task \in {"resettle", "answered"} /\ task' = "leave"
      BY <1>3 DEF SettleRun, Resettle, SettleAnswered, Worker, At
    <2> QED BY <1>1, <2>1, <2>2, ClaimsGone
  <1> QED BY <1>2, <1>3

\* Claims beside an idle driver are settled without a generation.
LEMMA UnstartedStep ==
  ASSUME InboxInv, NEW g, SettleUnstarted(g) PROVE InboxInv'
  <1>1. /\ phase = "idle" /\ CloseNeverRan(Claimed(g), "not_run", TRUE)
        /\ UNCHANGED <<driver, execution, queue, messages, worker, faults>>
    BY DEF SettleUnstarted
  <1>2. Claimed(g) \subseteq State("claimed")
    BY DEF Claimed
  <1>3. Settles(Claimed(g))
    BY <1>1, <1>2, CloseFact
  <1>4. /\ UNCHANGED <<generation, live, phase, trigger, task, plan, from, verdict>>
        /\ trigger = None /\ task = "none"
    BY <1>1 DEF driver, worker, InboxInv, Driver
  <1>5. item' \in [Items -> Row] /\ Rows' /\ Shapes' /\ Unseen'
    BY <1>1, <1>3, <1>4, SettlesKept
  <1>6. InboxTypeOK'
    BY <1>1, <1>4, <1>5 DEF InboxInv, InboxTypeOK, execution
  <1>7. Driver' /\ Claims' /\ Reports'
    BY <1>1, <1>4 DEF InboxInv, Driver, Claims, Reports, Replaying
  <1>8. Files'
    BY <1>4 DEF InboxInv, Files
  <1> QED BY <1>5, <1>6, <1>7, <1>8 DEF InboxInv

-----------------------------------------------------------------------------
(* Recovery takes the claims over, and the model runs.                     *)

LEMMA RebindStep ==
  ASSUME InboxInv, Rebind PROVE InboxInv'
  <1> DEFINE rows == Claimed(from)
  <1>1. /\ task = "rebind" /\ plan' = "none" /\ from' = 0
        /\ item' = [i \in Items |-> IF i \in rows
                                      THEN [item[i] EXCEPT !.gen = generation, !.expired = FALSE]
                                      ELSE item[i]]
        /\ verdict' = [i \in Items |-> IF plan = "redeliver" /\ i \in rows THEN "todo" ELSE "none"]
        /\ UNCHANGED <<driver, execution, queue, messages, faults>>
    BY DEF Rebind, At
  <1>2. /\ plan = "replay" => task' = "start"
        /\ plan = "redeliver" => task' = IF rows = {} THEN "unclaimed" ELSE "deliver"
        /\ plan \notin {"replay", "redeliver"} => task' \in {"repair", "answered"}
    BY DEF Rebind
  <1>3. UNCHANGED <<generation, live, phase, trigger>> /\ trigger \in Items \cup {None}
        /\ generation \in 0..MaxGeneration /\ generation \in Nat
    <2>1. UNCHANGED driver
      BY <1>1
    <2> QED BY <2>1, KindAssumption DEF driver, InboxInv, InboxTypeOK
  <1>4. rows \subseteq Items /\ Claimed(generation) = {}
    BY <1>1 DEF Claimed, State, InboxInv, Driver
  <1> HIDE DEF rows
  <1>5. ASSUME NEW i \in Items
        PROVE  /\ item'[i] \in Row
               /\ item'[i].state = item[i].state /\ item'[i].turn = item[i].turn
               /\ item'[i].ranBy = item[i].ranBy /\ item'[i].seen = item[i].seen
               /\ item'[i].outcome = item[i].outcome /\ item'[i].reply = item[i].reply
               /\ item'[i].gen = IF i \in rows THEN generation ELSE item[i].gen
    <2>1. item[i] \in Row
      BY RowFact DEF InboxInv
    <2>2. CASE i \in rows
      <3>1. item'[i] = [item[i] EXCEPT !.gen = generation, !.expired = FALSE]
        BY <2>2, <1>1
      <3>2. item'[i] \in Row
        BY <2>1, <3>1, <1>3 DEF Row
      <3> QED BY <2>1, <2>2, <3>1, <3>2 DEF Row
    <2>3. CASE i \notin rows
      BY <2>1, <2>3, <1>1
    <2> QED BY <2>2, <2>3
  <1>6. Claimed(generation)' = rows
    <2>1. \A i \in rows : item'[i].state = "claimed"
      BY <1>4, <1>5 DEF rows, Claimed, State
    <2>2. \A i \in Items : i \notin rows => ~(item'[i].state = "claimed" /\ item'[i].gen = generation)
      BY <1>4, <1>5 DEF Claimed, State
    <2> QED BY <2>1, <2>2, <1>3, <1>4, <1>5 DEF Claimed, State
  <1>7. InboxTypeOK'
    <2>1. item' \in [Items -> Row]
      BY <1>1, <1>5
    <2>2. task' \in Pcs
      BY <1>2 DEF Pcs
    <2>3. verdict' \in [Items -> {"none", "todo", "run", "terminal", "pending"}]
      BY <1>1
    <2>4. from' \in 0..MaxGeneration
      <3>1. from' = 0
        BY <1>1
      <3> QED BY <3>1, KindAssumption
    <2> QED BY <1>1, <1>3, <2>1, <2>2, <2>3, <2>4 DEF InboxInv, InboxTypeOK, execution
  <1>8. Rows'
    <2>1. Queued'
      BY <1>1, <1>5, QueueKept
    <2>2. State("claimed")' = State("claimed") /\ State("settled")' = State("settled")
      BY <1>5 DEF State
    <2>3. ASSUME NEW i \in Items
          PROVE  /\ item'[i].gen <= generation'
                 /\ IF item'[i].state \in {"claimed", "settled"} THEN item'[i].turn # None
                    ELSE item'[i].turn = None /\ ~item'[i].seen /\ item'[i].ranBy = 0
      <3>1. item'[i].gen <= generation'
        BY <1>3, <1>5 DEF InboxInv, Rows
      <3> QED BY <3>1, <1>5 DEF InboxInv, Rows
    <2> QED BY <1>1, <2>1, <2>2, <2>3 DEF InboxInv, Rows
  <1>9. Shapes'
    <2>0. \A i \in Items : item[i].turn \in Items \cup {None}
      BY RowFact DEF InboxInv
    <2>1. \A i \in Items : item'[i].turn # None => item'[item'[i].turn].turn = item'[i].turn
      BY <1>5, <2>0 DEF InboxInv, Shapes
    <2>2. \A i, j \in Items :
            SameTurn(i, j)' => /\ NextTurn(i) /\ NextTurn(j) => i = j
                               /\ Kind[i] = "report" => i = j
      BY <1>5 DEF InboxInv, Shapes, SameTurn
    <2>3. trigger' # None => item'[trigger'].turn = trigger'
      BY <1>3, <1>5 DEF InboxInv, Shapes
    <2> QED BY <2>1, <2>2, <2>3 DEF Shapes, NextTurn
  <1>10. Unseen'
    BY <1>5 DEF InboxInv, Unseen
  <1>11. plan \in {"replay", "redeliver"} => phase = "reserved" /\ trigger # None /\ Unrun(from)
    BY <1>1 DEF InboxInv, Driver, Claims, Replaying
  <1>12. plan \notin {"replay", "redeliver"} => phase = "finalizing"
    BY <1>1 DEF InboxInv, Driver, Replaying
  <1>13. Driver'
    <2>1. live
      BY <1>1 DEF InboxInv, Driver
    <2>2. CASE plan \in {"replay", "redeliver"}
      BY <2>1, <2>2, <1>2, <1>3, <1>6, <1>11 DEF Driver, Replaying
    <2>3. CASE plan \notin {"replay", "redeliver"}
      BY <2>1, <2>3, <1>2, <1>3, <1>12 DEF Driver, Replaying
    <2> QED BY <2>2, <2>3
  <1>14. task' # "rebind"
    BY <1>2
  <1>15. Claims'
    <2>1. CASE plan \in {"replay", "redeliver"}
      <3>1. Unrun(generation)'
        BY <2>1, <1>3, <1>4, <1>5, <1>6, <1>11 DEF Unrun, rows
      <3> QED BY <2>1, <3>1, <1>3, <1>11, <1>14 DEF Claims, Replaying
    <2>2. CASE plan \notin {"replay", "redeliver"}
      BY <2>2, <1>3, <1>12, <1>14 DEF Claims, Replaying
    <2> QED BY <2>1, <2>2
  <1>16. Files'
    <2>1. \A i \in Items : IF plan = "redeliver" /\ i \in rows THEN verdict'[i] = "todo"
                                                               ELSE verdict'[i] = "none"
      BY <1>1
    <2>2. ASSUME NEW i \in Items, verdict'[i] # "none"
          PROVE  task' = "deliver" /\ ~item'[i].seen /\ i \in Claimed(generation)'
      <3>1. plan = "redeliver" /\ i \in rows
        BY <2>1, <2>2
      <3>2. task' = "deliver"
        BY <3>1, <1>2
      <3>3. ~item[i].seen
        BY <3>1, <1>11 DEF Unrun, rows
      <3> QED BY <3>1, <3>2, <3>3, <1>5, <1>6
    <2>3. ASSUME task' \in {"deliver", "start"}, NEW i \in rows \cap Attached,
                 verdict'[i] \in {"none", "run"}
          PROVE  FALSE
      <3>1. plan = "replay"
        BY <2>1, <2>3, <1>2, <1>4
      <3> QED BY <2>3, <3>1, <1>1 DEF InboxInv, Files, rows
    <2>4. task' \in {"start", "unclaimed", "deliver", "repair", "answered"}
      BY <1>2
    <2> QED BY <2>2, <2>3, <2>4, <1>6 DEF Files
  <1>17. Reports'
    <2>1. CASE plan \in {"replay", "redeliver"}
      <3>1. Kind[trigger] = "report" => item[trigger].state = "claimed"
        BY <2>1, <1>1, <1>11 DEF InboxInv, Reports, Replaying
      <3>2. trigger \in Items
        BY <2>1, <1>3, <1>11
      <3> QED BY <2>1, <3>1, <3>2, <1>2, <1>3, <1>5 DEF Reports, Replaying
    <2>2. CASE plan \notin {"replay", "redeliver"}
      BY <2>2, <1>2, <1>3, <1>12 DEF Reports, Replaying
    <2> QED BY <2>1, <2>2
  <1> QED BY <1>7, <1>8, <1>9, <1>10, <1>13, <1>15, <1>16, <1>17 DEF InboxInv

\* The model is given the messages of inputs that were not closed as never run.
LEMMA StepKept ==
  ASSUME InboxInv, Step PROVE InboxInv'
  <1>1. /\ task = "step" /\ task' \in {"final", "stream"}
        /\ UNCHANGED <<generation, live, trigger, queue, messages, plan, from, verdict, faults>>
        /\ UNCHANGED <<phase, execution>>
    BY DEF Step, Worker, At
  <1>2. CASE task' = "final"
    <2>1. item' = TailClosed
      BY <1>2 DEF Step, Worker
    <2>2. item' \in [Items -> Row] /\ (\A i \in Items : Alike(i)) /\ Queued'
      BY <1>1, <2>1, TailFact, TouchedKept
    <2>3. Walks
      BY <1>1, <1>2 DEF Walks
    <2>4. InboxTypeOK'
      BY <1>1, <1>2, <2>2 DEF InboxInv, InboxTypeOK, execution, Pcs
    <2> QED BY <1>1, <2>2, <2>3, <2>4, WalkKept
  <1>3. CASE task' = "stream"
    <2> DEFINE closed == TailClosed
               latest == Last(Surface)
               R == Range(Surface)
    <2>1. item' = [i \in Items |->
                     [closed[i] EXCEPT
                        !.seen = @ \/ i \in R,
                        !.ranBy = IF i = trigger THEN generation ELSE @,
                        !.reply = IF i = latest /\ @ = "none" THEN "open" ELSE @]]
      BY <1>3 DEF Step, Worker
    <2>2. ASSUME NEW i \in Items
          PROVE  /\ closed[i] \in Row
                 /\ closed[i].state = item[i].state /\ closed[i].turn = item[i].turn
                 /\ closed[i].gen = item[i].gen /\ closed[i].delivered = item[i].delivered
                 /\ closed[i].seen = item[i].seen /\ closed[i].ranBy = item[i].ranBy
                 /\ closed[i].outcome = item[i].outcome
      <3>1. item[i] \in Row
        BY RowFact DEF InboxInv
      <3>2. CASE item[i].reply = "open"
        <4>1. closed[i] = [item[i] EXCEPT !.reply = "done"]
          BY <3>2 DEF TailClosed
        <4>2. closed[i] \in Row
          BY <3>1, <4>1, EditFact
        <4> QED BY <3>1, <4>1, <4>2 DEF Row
      <3>3. CASE item[i].reply # "open"
        BY <3>1, <3>3 DEF TailClosed
      <3> QED BY <3>2, <3>3
    <2>3. R = Range(messages) \cap {i \in Items : item[i].outcome \notin NeverRan}
      BY AmongFact DEF Surface, InboxInv, InboxTypeOK
    <2>4. /\ generation \in 0..MaxGeneration /\ trigger \in Items /\ trigger # None
          /\ phase = "running" /\ live /\ None \notin Items
      BY <1>1, KindAssumption DEF InboxInv, InboxTypeOK, Driver
    <2> HIDE DEF closed, latest, R
    <2>5. ASSUME NEW i \in Items
          PROVE  /\ item'[i] \in Row
                 /\ item'[i].state = item[i].state /\ item'[i].turn = item[i].turn
                 /\ item'[i].gen = item[i].gen /\ item'[i].delivered = item[i].delivered
                 /\ item'[i].outcome = item[i].outcome
                 /\ i \notin R => item'[i].seen = item[i].seen
                 /\ item'[i].ranBy = IF i = trigger THEN generation ELSE item[i].ranBy
      <3> DEFINE r == closed[i]
                 a == r.seen \/ i \in R
                 n == IF i = trigger THEN generation ELSE r.ranBy
                 v == IF i = latest /\ r.reply = "none" THEN "open" ELSE r.reply
      <3>1. item'[i] = [r EXCEPT !.seen = a, !.ranBy = n, !.reply = v]
        BY <2>1
      <3>2. r \in Row /\ a \in BOOLEAN /\ (i \notin R => a = r.seen)
        <4>1. r \in Row /\ r.seen \in BOOLEAN
          BY <2>2 DEF Row
        <4> QED BY <4>1
      <3>3. n \in 0..MaxGeneration /\ v \in {"none", "open", "tools", "done"}
        BY <3>2, <2>4 DEF Row
      <3>4. n = IF i = trigger THEN generation ELSE item[i].ranBy
        BY <2>2
      <3>5. /\ r.state = item[i].state /\ r.turn = item[i].turn
            /\ r.gen = item[i].gen /\ r.delivered = item[i].delivered
            /\ r.seen = item[i].seen /\ r.outcome = item[i].outcome
        BY <2>2
      <3> HIDE DEF r, a, n, v
      <3>6. item'[i] \in Row
        BY <3>1, <3>2, <3>3 DEF Row
      <3>7. /\ item'[i].state = r.state /\ item'[i].turn = r.turn
            /\ item'[i].gen = r.gen /\ item'[i].delivered = r.delivered
            /\ item'[i].outcome = r.outcome /\ item'[i].seen = a /\ item'[i].ranBy = n
        BY <3>1, <3>2 DEF Row
      <3> QED BY <3>2, <3>4, <3>5, <3>6, <3>7
    <2>6. InboxTypeOK'
      <3>1. item' \in [Items -> Row]
        BY <2>1, <2>5
      <3> QED BY <1>1, <1>3, <3>1 DEF InboxInv, InboxTypeOK, execution, Pcs
    <2>7. Rows'
      <3>1. Queued'
        BY <1>1, <2>5, QueueKept
      <3>2. State("claimed")' = State("claimed") /\ State("settled")' = State("settled")
        BY <2>5 DEF State
      <3>3. R \subseteq State("claimed") \cup State("settled")
        BY <2>3 DEF InboxInv, Rows
      <3>4. item[trigger].state \in {"claimed", "settled"}
        BY <2>4 DEF InboxInv, Shapes, Rows
      <3>5. ASSUME NEW i \in Items
            PROVE  /\ item'[i].gen <= generation'
                   /\ IF item'[i].state \in {"claimed", "settled"} THEN item'[i].turn # None
                      ELSE item'[i].turn = None /\ ~item'[i].seen /\ item'[i].ranBy = 0
        <4>1. CASE item[i].state \in {"claimed", "settled"}
          BY <4>1, <1>1, <2>5 DEF InboxInv, Rows
        <4>2. CASE item[i].state \notin {"claimed", "settled"}
          <5>1. i \notin R /\ i # trigger
            BY <4>2, <3>3, <3>4 DEF State
          <5>2. item'[i].seen = item[i].seen /\ item'[i].ranBy = item[i].ranBy
            BY <5>1, <2>5
          <5> QED BY <4>2, <5>2, <1>1, <2>5 DEF InboxInv, Rows
        <4> QED BY <4>1, <4>2
      <3> QED BY <1>1, <3>1, <3>2, <3>5 DEF InboxInv, Rows
    <2>8. Shapes'
      <3>0. \A i \in Items : item[i].turn \in Items \cup {None}
        BY RowFact DEF InboxInv
      <3>1. \A i \in Items : item'[i].turn # None => item'[item'[i].turn].turn = item'[i].turn
        BY <2>5, <3>0 DEF InboxInv, Shapes
      <3>2. \A i, j \in Items :
              SameTurn(i, j)' => /\ NextTurn(i) /\ NextTurn(j) => i = j
                                 /\ Kind[i] = "report" => i = j
        BY <2>5 DEF InboxInv, Shapes, SameTurn
      <3>3. trigger' # None => item'[trigger'].turn = trigger'
        BY <1>1, <2>4, <2>5 DEF InboxInv, Shapes
      <3> QED BY <3>1, <3>2, <3>3 DEF Shapes, NextTurn
    <2>9. Unseen'
      <3>1. \A i \in Items : item[i].outcome = "delivery_error" => i \notin R
        BY <2>3 DEF NeverRan
      <3> QED BY <3>1, <2>5 DEF InboxInv, Unseen
    <2>10. Claimed(generation)' = Claimed(generation) /\ Claimed(generation) \subseteq Items
      BY <1>1, <2>5 DEF Claimed, State
    <2>11. Driver'
      BY <1>1, <1>3, <2>4 DEF InboxInv, Driver, Replaying
    <2>12. Claims'
      <3>1. \A i \in Claimed(generation)' : item'[i].turn = trigger'
        BY <1>1, <2>4, <2>5, <2>10 DEF InboxInv, Claims
      <3>2. item'[trigger'].ranBy = generation'
        BY <1>1, <2>4, <2>5
      <3> QED BY <1>1, <1>3, <2>4, <3>1, <3>2 DEF Claims, Replaying
    <2>13. Files'
      <3>1. \A i \in Items : verdict'[i] = "none" /\ verdict[i] = "none"
        BY <1>1 DEF InboxInv, Files
      <3>2. \A i \in Claimed(generation) \cap Attached : item[i].delivered
        BY <1>1, <2>10, <3>1 DEF InboxInv, Files
      <3>3. \A i \in Claimed(generation) \cap Attached : item'[i].delivered
        BY <3>2, <2>5, <2>10
      <3> QED BY <1>3, <2>10, <3>1, <3>3 DEF Files
    <2>14. Reports'
      BY <1>1, <1>3, <2>4, <2>5 DEF InboxInv, Reports, Replaying
    <2> QED BY <2>6, <2>7, <2>8, <2>9, <2>11, <2>12, <2>13, <2>14 DEF InboxInv
  <1> QED BY <1>1, <1>2, <1>3

-----------------------------------------------------------------------------

LEMMA InboxStart ==
  ASSUME InboxInit PROVE InboxInv
  <1>1. /\ generation = 0 /\ live = FALSE /\ phase = "idle" /\ trigger = None
        /\ ticket = 0 /\ ticketLive = FALSE /\ card = FALSE
        /\ item = [i \in Items |-> Blank] /\ queue = <<>> /\ messages = <<>>
        /\ task = "none" /\ plan = "none" /\ from = 0 /\ verdict = NoVerdict /\ faults = 0
    BY DEF InboxInit, F!Init
  <1>2. Blank \in Row
    <2>1. 0 \in 0..MaxGeneration /\ 0 \in 0..MaxAttempts
      BY KindAssumption
    <2> QED BY <2>1 DEF Blank, Row, Outcomes
  <1>3. \A i \in Items : /\ item[i].state = "new" /\ item[i].gen = 0 /\ item[i].turn = None
                         /\ item[i].seen = FALSE /\ item[i].ranBy = 0 /\ item[i].outcome = "none"
    BY <1>1 DEF Blank
  <1>4. Range(<<>>) = {} /\ IsInjective(<<>>)
    BY DEF Range, IsInjective
  <1>5. InboxTypeOK
    <2>1. /\ 0 \in 0..MaxGeneration /\ 0 \in 0..MaxFaults /\ <<>> \in Seq(Items)
          /\ item \in [Items -> Row]
      BY <1>1, <1>2, KindAssumption
    <2> QED BY <1>1, <2>1 DEF InboxTypeOK, Pcs, NoVerdict
  <1>6. Rows
    <2>1. Queued
      BY <1>1, <1>3, <1>4 DEF Queued
    <2>2. State("claimed") \cup State("settled") = {}
      BY <1>3 DEF State
    <2> QED BY <1>1, <1>3, <1>4, <2>1, <2>2 DEF Rows
  <1>7. Shapes /\ Unseen
    BY <1>1, <1>3 DEF Shapes, SameTurn, Unseen
  <1>8. Driver /\ Claims /\ Reports
    BY <1>1 DEF Driver, Claims, Reports, Replaying
  <1>9. Files
    BY <1>1 DEF Files, NoVerdict
  <1> QED BY <1>5, <1>6, <1>7, <1>8, <1>9 DEF InboxInv

LEMMA InboxStep ==
  ASSUME InboxInv, [InboxNext]_inboxVars PROVE InboxInv'
  <1>1. CASE UNCHANGED inboxVars
    <2>1. UNCHANGED <<driver, execution, item, queue, messages, worker, faults>>
      BY <1>1 DEF inboxVars
    <2>2. InboxTypeOK'
      BY <2>1 DEF InboxInv, InboxTypeOK, driver, execution, worker
    <2>3. (\A i \in Items : Alike(i)) /\ Queued'
      BY <2>1, SameFact, TouchedKept
    <2> QED BY <2>1, <2>2, <2>3, Untouched
  <1>2. CASE Environment
    <2>1. CASE \E i \in Items : Accept(i)
      BY <2>1, AcceptStep
    <2>2. CASE \E i \in Items : DeleteAsset(i)
      BY <2>2, OutsideStep
    <2>3. CASE \E S \in SUBSET Items : CancelItems(S)
      BY <2>3, CancelStep DEF CancelItems
    <2>4. CASE Ask \/ CardGone \/ CancelSession
      BY <2>4, OutsideStep
    <2>5. CASE Dies \/ RebindFails
      BY <2>5, StopStep
    <2> QED BY <1>2, <2>1, <2>2, <2>3, <2>4, <2>5 DEF Environment
  <1>3. CASE Clocks
    BY <1>3, OutsideStep DEF Clocks
  <1>4. CASE Deliver
    <2>1. CASE SkipDelivery \/ \E r \in Results : DeliverItem(r)
      BY <2>1, DeliverStep
    <2>2. CASE SettleDelivery
      BY <2>2, SettleDeliveryStep
    <2>3. CASE ConcludeDelivery \/ ConcludeStepDelivery
      BY <2>3, ConcludeStep
    <2>4. CASE \E r \in Results : DeliverUnclaimed(r)
      BY <2>4, DeliverUnclaimedStep
    <2>5. CASE UnclaimedClosed
      BY <2>5, RunStep
    <2> QED BY <1>4, <2>1, <2>2, <2>3, <2>4, <2>5 DEF Deliver
  <1>5. CASE Run
    <2>1. CASE ClaimWoken \/ ClaimStep
      BY <2>1, ClaimStepKept
    <2>2. CASE \/ StartRun \/ EnterRunning \/ AbortTurn \/ EnterFinalizing \/ FinishRun \/ Repair
               \/ \E f \in {"tools", "done"} : StepDone(f)
      BY <2>2, RunStep
    <2>3. CASE SettleRefused \/ SettleRun \/ Resettle \/ SettleAnswered
      BY <2>3, SettleClaimsStep
    <2>4. CASE Step
      BY <2>4, StepKept
    <2>5. CASE Leave \/ Revoked \/ ResettleRaises
      BY <2>5, StopStep
    <2>6. CASE Rebind
      BY <2>6, RebindStep
    <2> QED BY <1>5, <2>1, <2>2, <2>3, <2>4, <2>5, <2>6 DEF Run
  <1>6. CASE Recover
    <2>1. CASE Wake
      BY <2>1, WakeStep
    <2>2. CASE RecoverPrompt \/ RecoverRun \/ \E g \in 1..MaxGeneration : RecoverOrphans(g)
      BY <2>2, RecoverStep
    <2>3. CASE \E g \in 1..MaxGeneration : SettleUnstarted(g)
      BY <2>3, UnstartedStep
    <2> QED BY <1>6, <2>1, <2>2, <2>3 DEF Recover
  <1> QED BY <1>1, <1>2, <1>3, <1>4, <1>5, <1>6 DEF InboxNext

LEMMA InboxInvariant == InboxSpec => []InboxInv
  <1>1. InboxInit => InboxInv
    BY InboxStart
  <1>2. InboxInv /\ [InboxNext]_inboxVars => InboxInv'
    BY InboxStep
  <1> QED BY <1>1, <1>2, PTL DEF InboxSpec

LEMMA InputFact ==
  ASSUME InboxInv PROVE InputKept
  <1>1. InboxTypeOK /\ MessagesMatchRows
    BY DEF InboxInv, Rows, MessagesMatchRows
  <1>2. ASSUME NEW t \in Items
        PROVE  LET members == {i \in Items : item[i].turn = t} IN
               /\ Cardinality({i \in members : NextTurn(i)}) <= 1
               /\ (\E i \in members : Kind[i] = "report") => Cardinality(members) = 1
    <2> DEFINE members == {i \in Items : item[i].turn = t}
               turns == {i \in members : NextTurn(i)}
    <2>0. t # None
      BY KindAssumption
    <2>1. \A i, j \in members : SameTurn(i, j)
      BY <2>0 DEF SameTurn
    <2>2. Cardinality(turns) <= 1
      <3>1. \A i, j \in turns : i = j
        BY <2>1 DEF InboxInv, Shapes
      <3>2. CASE turns = {}
        BY <3>2, FS_EmptySet
      <3>3. CASE turns # {}
        <4>1. PICK i \in turns : turns = {i}
          BY <3>1, <3>3
        <4>2. Cardinality({i}) = 1
          BY FS_Singleton
        <4> HIDE DEF turns
        <4> QED BY <4>1, <4>2
      <3> QED BY <3>2, <3>3
    <2>3. ASSUME NEW i \in members, Kind[i] = "report" PROVE Cardinality(members) = 1
      <3>1. members = {i}
        BY <2>1, <2>3 DEF InboxInv, Shapes
      <3>2. Cardinality({i}) = 1
        BY FS_Singleton
      <3> QED BY <3>1, <3>2
    <2> QED BY <2>2, <2>3
  <1> QED BY <1>1, <1>2 DEF InputKept, TurnShape

\* However input is accepted, cancelled, claimed, delivered, run, settled and taken over
\* by recovery, each claimed or settled row has exactly one message and no cancelled row
\* has one, and a turn holds at most one next-turn item and a report alone.
THEOREM InputSafe == InboxSpec => []InputKept
  <1>1. InboxInv => InputKept
    BY InputFact
  <1> QED BY <1>1, InboxInvariant, PTL

\* The model runs only with the files of every input its generation claimed, and input
\* closed for a failed delivery was never shown to the model, before or after.
THEOREM FilesSafe == InboxSpec => []FilesRespected
  <1>1. InboxInv => FilesRespected
    <2> SUFFICES ASSUME InboxInv PROVE FilesRespected
      OBVIOUS
    <2>1. ASSUME task = "stream", NEW i \in Claimed(generation) \cap Attached
          PROVE  item[i].delivered
      <3>1. i \in Items
        BY ClaimedFact
      <3>2. verdict[i] = "none"
        BY <2>1, <3>1 DEF InboxInv, Files
      <3> QED BY <2>1, <3>2 DEF InboxInv, Files
    <2>2. FailedDeliveryUnseen
      BY DEF InboxInv, Unseen, FailedDeliveryUnseen
    <2> QED BY <2>1, <2>2 DEF FilesRespected, FilesBeforeModel
  <1> QED BY <1>1, InboxInvariant, PTL

\* At most one generation calls the model for a turn, whatever dies and is replayed.
THEOREM OneGenerationSafe == InboxSpec => OneGenerationRunsTurn
  <1> DEFINE Fenced == At("step") /\ task' = "stream" => item[trigger].ranBy \in {0, generation}
  <1>1. InboxInv /\ [InboxNext]_inboxVars => [Fenced]_inboxVars
    <2> SUFFICES ASSUME InboxInv, At("step") PROVE item[trigger].ranBy \in {0, generation}
      OBVIOUS
    <2>1. live /\ task = "step"
      BY DEF At, F!Holds
    <2> QED BY <2>1 DEF InboxInv, Driver, Claims
  <1>2. InboxSpec => [][Fenced]_inboxVars
    BY <1>1, InboxInvariant, PTL DEF InboxSpec
  <1> QED BY <1>2 DEF OneGenerationRunsTurn
=============================================================================
