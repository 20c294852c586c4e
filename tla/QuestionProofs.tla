---------------------------- MODULE QuestionProofs ----------------------------
(***************************************************************************)
(* Proofs about durable questions (QuestionRuntime), for any number of     *)
(* cards, inputs and faults.                                               *)
(***************************************************************************)
EXTENDS QuestionRuntime, FiniteSetTheorems, TLAPS

-----------------------------------------------------------------------------
(* The inductive invariant. *)

JobRow == [do : {"idle", "resume", "run", "report"}, gen : Generations \cup {0},
           run : Runs \cup {0}]
Quiet  == {"started", "over", "dead"}

\* Turns are begun by inputs.
Counted == generation <= inputs + 1

\* A run that has not started did nothing and is of no turn.
FreshLoops == \A r \in Runs : loop[r].at \in {"none", "reserved"} => ~loop[r].acted /\ loop[r].gen = 0

\* The owner of the row has started, and has done nothing unless it said so.
Owner == /\ run # 0 => loop[run].at \notin {"none", "reserved"}
         /\ run # 0 /\ ~progress => loop[run].at \in Quiet /\ ~loop[run].acted

\* A run that was given up has done nothing and is the owner no more.
GivenUp == \A r \in redelivered : loop[r].at \in Quiet /\ ~loop[r].acted /\ run # r

\* Cards are of turns that have begun, and a pending one is of a run.
CardsBehind == \A c \in Cards : /\ card[c].gen <= generation
                                /\ card[c].status = "pending" => card[c].by \in Runs

QuestionInv == /\ TypeOK /\ Counted /\ FreshLoops /\ Owner /\ GivenUp
               /\ CardsBehind /\ PendingIsCurrent

-----------------------------------------------------------------------------
(* What a step does to the loops, *)

Reserving(r) == /\ loop[r].at = "none" /\ loop'[r].at = "reserved"
                /\ loop'[r].gen = loop[r].gen /\ loop'[r].acted = loop[r].acted
Refusing(r)  == loop[r].at = "reserved" /\ loop'[r] = NoLoop
Starting(r)  == /\ loop[r].at = "reserved" /\ loop'[r].at = "started"
                /\ loop'[r].gen = generation /\ loop'[r].acted = loop[r].acted /\ run' = r
Moving(r)    == /\ loop[r].at \notin {"none", "reserved"} /\ loop'[r].at \notin {"none", "reserved"}
                /\ loop'[r].gen = loop[r].gen
                /\ loop'[r].acted = loop[r].acted \/ loop[r].at = "checked"
                /\ \/ loop'[r].at \in Quiet \/ loop[r].at \notin Quiet
                   \/ Owns(r) /\ progress'

LoopsGoOn ==
  /\ loop' \in [Runs -> Loop]
  /\ \A r \in Runs : \/ loop'[r] = loop[r]
                     \/ Reserving(r) \/ Refusing(r) \/ Starting(r) \/ Moving(r)

(* ... to the row, *)
RowGoesOn ==
  /\ run' \in Runs \cup {0} /\ live' \in BOOLEAN /\ (live' => run' # 0)
  /\ origin' \in {"prompt", "question"} /\ progress' \in BOOLEAN /\ resume' \in BOOLEAN
  /\ \/ run' = run /\ (progress => progress')
     \/ run' = 0
     \/ run' \in Runs /\ Starting(run')
  /\ \/ redelivered' = redelivered
     \/ /\ redelivered' = redelivered \cup {run}
        /\ run # 0 /\ run' = 0 /\ ~progress /\ ~progress'

(* ... to the cards and the turn, *)
Staying(c) == /\ card'[c].status = card[c].status /\ card'[c].gen = card[c].gen
              /\ card'[c].by = card[c].by
Leaving(c) == card'[c].status # "pending" /\ card'[c].gen = card[c].gen
Asking(c)  == /\ card'[c].gen = generation /\ card'[c].by \in Runs
              /\ Owns(card'[c].by)

CardsGoOn ==
  /\ card' \in [Cards -> Card]
  /\ \A c \in Cards : Staying(c) \/ Leaving(c) \/ Asking(c)
  /\ inputs' \in 0 .. MaxInputs /\ faults' \in 0 .. MaxFaults
  /\ \/ generation' = generation /\ inputs' >= inputs
     \/ /\ generation' = generation + 1 /\ inputs' = inputs + 1
        /\ \A c \in Cards : Leaving(c)

(* ... and to the driver and the workers. *)
RestGoesOn == driver' \in Runs \cup {0} /\ job' \in [Workers -> JobRow]

GoesOn == LoopsGoOn /\ RowGoesOn /\ CardsGoOn /\ RestGoesOn

\* Hand-overs are noted, and what went astray is not forgotten.
NotesGoOn == fresh' \subseteq Workers /\ astray' \subseteq Cards /\ astray \subseteq astray'

LEMMA Numbers ==
  /\ Cardinality(Cards) \in Nat /\ MaxInputs \in Nat /\ MaxFaults \in Nat
  /\ Runs \subseteq Nat /\ 0 \notin Runs /\ Generations \subseteq Nat /\ 0 \notin Generations
  /\ \A n \in Generations \cup {0} : n \in Nat
  BY QuestionAssumption, FS_CardinalityType DEF Runs, Generations

LEMMA Types ==
  ASSUME TypeOK
  PROVE  /\ generation \in Generations /\ generation \in Nat
         /\ run \in Runs \cup {0} /\ live \in BOOLEAN /\ (live => run # 0)
         /\ origin \in {"prompt", "question"} /\ progress \in BOOLEAN /\ resume \in BOOLEAN
         /\ card \in [Cards -> Card] /\ driver \in Runs \cup {0} /\ loop \in [Runs -> Loop]
         /\ job \in [Workers -> JobRow]
         /\ inputs \in 0 .. MaxInputs /\ faults \in 0 .. MaxFaults
         /\ inputs \in Nat /\ faults \in Nat /\ redelivered \subseteq Runs
         /\ fresh \subseteq Workers /\ astray \subseteq Cards
  <1>1. generation \in Nat /\ inputs \in Nat /\ faults \in Nat
    BY Numbers DEF TypeOK
  <1> QED
    BY <1>1 DEF TypeOK, JobRow

LEMMA LoopType ==
  ASSUME TypeOK, NEW r \in Runs
  PROVE  /\ loop[r] \in Loop /\ loop[r].acted \in BOOLEAN
         /\ loop[r].gen \in Nat /\ loop[r].expected \in Generations \cup {0}
  <1>1. loop[r] \in Loop
    BY Types
  <1>2. loop[r].acted \in BOOLEAN /\ loop[r].gen \in Generations \cup {0}
        /\ loop[r].expected \in Generations \cup {0}
    BY <1>1 DEF Loop
  <1>3. \A n \in Generations \cup {0} : n \in Nat
    BY Numbers
  <1> QED
    BY <1>1, <1>2, <1>3, Zenon

LEMMA CardType ==
  ASSUME TypeOK, NEW c \in Cards
  PROVE  card[c] \in Card /\ card[c].gen \in Nat /\ card[c].applied \in BOOLEAN
         /\ card[c].told \in BOOLEAN /\ card[c].ran \in BOOLEAN
  <1>1. card[c] \in Card
    BY Types
  <1>2. card[c].gen \in Generations \cup {0} /\ card[c].applied \in BOOLEAN
        /\ card[c].told \in BOOLEAN /\ card[c].ran \in BOOLEAN
    BY <1>1 DEF Card
  <1>3. \A n \in Generations \cup {0} : n \in Nat
    BY Numbers
  <1> QED
    BY <1>1, <1>2, <1>3, Zenon

\* Together these keep the invariant.
LEMMA Kept ==
  ASSUME QuestionInv, GoesOn, NotesGoOn
  PROVE  QuestionInv'
  <1>t. TypeOK
    BY DEF QuestionInv
  <1>1. Counted' /\ generation' \in Generations
    BY <1>t, Types, Numbers DEF QuestionInv, GoesOn, CardsGoOn, Counted, Generations
  <1>2. TypeOK'
    <2>1. redelivered' \subseteq Runs
      BY <1>t, Types DEF GoesOn, RowGoesOn
    <2> QED
      BY <1>1, <2>1 DEF GoesOn, LoopsGoOn, RowGoesOn, CardsGoOn, RestGoesOn, NotesGoOn, TypeOK, JobRow
  <1>3. FreshLoops'
    <2> SUFFICES ASSUME NEW r \in Runs, loop'[r].at \in {"none", "reserved"}
                 PROVE  ~loop'[r].acted /\ loop'[r].gen = 0
      BY DEF FreshLoops
    <2>1. \/ loop'[r] = loop[r]
          \/ Reserving(r) \/ Refusing(r) \/ Starting(r) \/ Moving(r)
      BY DEF GoesOn, LoopsGoOn
    <2> QED
      BY <2>1 DEF QuestionInv, FreshLoops, Reserving, Refusing, Starting, Moving, NoLoop
  <1>4. ASSUME NEW r \in Runs, loop[r].at \notin {"none", "reserved"}
        PROVE  loop'[r] = loop[r] \/ Moving(r)
    BY <1>4 DEF GoesOn, LoopsGoOn, Reserving, Refusing, Starting
  <1>5. Owner'
    <2> SUFFICES ASSUME run' # 0
                 PROVE  /\ loop'[run'].at \notin {"none", "reserved"}
                        /\ ~progress' => loop'[run'].at \in Quiet /\ ~loop'[run'].acted
      BY DEF Owner
    <2>1. CASE run' = run /\ (progress => progress')
      <3>1. run \in Runs /\ loop[run].at \notin {"none", "reserved"}
        BY <2>1, <1>t, Types DEF QuestionInv, Owner
      <3>2. loop'[run] = loop[run] \/ Moving(run)
        BY <3>1, <1>4
      <3>3. ~progress' => loop[run].at \in Quiet /\ ~loop[run].acted
        BY <2>1 DEF QuestionInv, Owner
      <3> QED
        BY <2>1, <3>1, <3>2, <3>3 DEF Moving, Quiet
    <2>2. CASE run' \in Runs /\ Starting(run')
      BY <2>2 DEF Starting, Quiet, QuestionInv, FreshLoops
    <2> QED
      BY <2>1, <2>2 DEF GoesOn, RowGoesOn
  <1>6. GivenUp'
    <2> SUFFICES ASSUME NEW r \in redelivered'
                 PROVE  loop'[r].at \in Quiet /\ ~loop'[r].acted /\ run' # r
      BY DEF GivenUp
    <2>1. CASE r \in redelivered
      <3>1. r \in Runs /\ loop[r].at \in Quiet /\ ~loop[r].acted /\ run # r
        BY <2>1, <1>t, Types DEF QuestionInv, GivenUp
      <3>2. loop'[r] = loop[r] \/ Moving(r)
        BY <3>1, <1>4 DEF Quiet
      <3>3. run' # r
        BY <3>1, Numbers DEF GoesOn, RowGoesOn, Starting, Quiet
      <3> QED
        BY <3>1, <3>2, <3>3 DEF Moving, Quiet, Owns
    <2>2. CASE r = run /\ run # 0 /\ run' = 0 /\ ~progress /\ ~progress'
      <3>1. r \in Runs /\ loop[r].at \in Quiet /\ ~loop[r].acted
        BY <2>2, <1>t, Types DEF QuestionInv, Owner
      <3>2. loop'[r] = loop[r] \/ Moving(r)
        BY <3>1, <1>4 DEF Quiet
      <3> QED
        BY <2>2, <3>1, <3>2 DEF Moving, Quiet
    <2> QED
      BY <2>1, <2>2 DEF GoesOn, RowGoesOn
  <1>7. CardsBehind'
    <2> SUFFICES ASSUME NEW c \in Cards
                 PROVE  /\ card'[c].gen <= generation'
                        /\ card'[c].status = "pending" => card'[c].by \in Runs
      BY DEF CardsBehind
    <2>1. card[c].gen <= generation /\ (card[c].status = "pending" => card[c].by \in Runs)
      BY DEF QuestionInv, CardsBehind
    <2>2. generation \in Nat /\ card[c].gen \in Nat
          /\ (generation' = generation \/ generation' = generation + 1)
      BY <1>t, Types, CardType DEF GoesOn, CardsGoOn
    <2>3. Staying(c) \/ Leaving(c) \/ Asking(c)
      BY DEF GoesOn, CardsGoOn
    <2> QED
      BY <2>1, <2>2, <2>3 DEF Staying, Leaving, Asking
  <1>8. PendingIsCurrent'
    <2> SUFFICES ASSUME NEW c \in Cards, card'[c].status = "pending"
                 PROVE  card'[c].gen = generation' /\ loop'[card'[c].by].gen = generation'
      BY DEF PendingIsCurrent
    <2>1. generation' = generation /\ (Staying(c) \/ Asking(c))
      BY DEF GoesOn, CardsGoOn, Leaving
    <2>2. /\ card'[c].gen = generation /\ card'[c].by \in Runs
          /\ loop[card'[c].by].gen = generation
      BY <2>1 DEF Staying, Asking, Owns, QuestionInv, CardsBehind, PendingIsCurrent
    <2>3. generation # 0
      BY <1>t, Types, Numbers
    <2>4. loop[card'[c].by].at \notin {"none", "reserved"}
      BY <2>2, <2>3 DEF QuestionInv, FreshLoops
    <2> QED
      BY <2>1, <2>2, <2>4, <1>4 DEF Moving
  <1> QED
    BY <1>1, <1>2, <1>3, <1>5, <1>6, <1>7, <1>8 DEF QuestionInv

-----------------------------------------------------------------------------
(* Parts of steps. *)

LEMMA SameLoops ==
  ASSUME TypeOK, loop' = loop
  PROVE  LoopsGoOn
  BY Types DEF LoopsGoOn

LEMMA SameRow ==
  ASSUME TypeOK, UNCHANGED <<row, redelivered>>
  PROVE  RowGoesOn
  BY Types DEF RowGoesOn, row

LEMMA SameCards ==
  ASSUME TypeOK, UNCHANGED <<generation, card>>, inputs' \in 0 .. MaxInputs, inputs' >= inputs,
         faults' \in 0 .. MaxFaults
  PROVE  CardsGoOn
  BY Types DEF CardsGoOn, Staying

\* Flags of cards are set, nothing else.
LEMMA MarkCards ==
  ASSUME TypeOK, UNCHANGED <<generation, inputs>>, faults' \in 0 .. MaxFaults,
         card' \in [Cards -> Card],
         \A c \in Cards : /\ card'[c].status = card[c].status /\ card'[c].gen = card[c].gen
                          /\ card'[c].by = card[c].by
  PROVE  CardsGoOn
  BY Types DEF CardsGoOn, Staying

LEMMA CountInput ==
  ASSUME TypeOK, Input
  PROVE  inputs' \in 0 .. MaxInputs /\ inputs' = inputs + 1 /\ inputs' >= inputs
  BY Types, Numbers DEF Input

LEMMA CountFault ==
  ASSUME TypeOK, Fault
  PROVE  faults' \in 0 .. MaxFaults
  BY Types, Numbers DEF Fault

\* One loop goes from one point to another.
SetAt(r, at) ==
  /\ loop' \in [Runs -> Loop] /\ loop'[r].at = at
  /\ loop'[r].gen = loop[r].gen /\ loop'[r].acted = loop[r].acted
  /\ loop'[r].expected = loop[r].expected
  /\ \A q \in Runs \ {r} : loop'[q] = loop[q]

LEMMA AtFact ==
  ASSUME TypeOK, NEW r \in Runs,
         NEW at \in {"none", "reserved", "started", "checked", "acted", "asked", "dead", "over"},
         loop' = [loop EXCEPT ![r].at = at]
  PROVE  SetAt(r, at)
  <1> DEFINE new == [loop[r] EXCEPT !.at = at]
  <1>1. loop[r] \in Loop /\ loop \in [Runs -> Loop]
    BY Types
  <1>2. new \in Loop /\ new.at = at /\ new.gen = loop[r].gen /\ new.acted = loop[r].acted
        /\ new.expected = loop[r].expected
    BY <1>1 DEF Loop
  <1>3. loop' = [loop EXCEPT ![r] = new]
    OBVIOUS
  <1> HIDE DEF new
  <1>4. loop' \in [Runs -> Loop] /\ loop'[r] = new /\ \A q \in Runs \ {r} : loop'[q] = loop[q]
    BY <1>1, <1>2, <1>3
  <1> QED
    BY <1>2, <1>4 DEF SetAt

\* A loop that has started goes on to a point where it does nothing.
LEMMA QuietMove ==
  ASSUME TypeOK, NEW r \in Runs, NEW at \in {"started", "checked", "acted", "asked", "dead", "over"},
         loop[r].at \notin {"none", "reserved"}, at \in Quiet \/ loop[r].at \notin Quiet, SetAt(r, at)
  PROVE  LoopsGoOn
  <1>1. Moving(r)
    BY DEF Moving, SetAt, Quiet
  <1> QED
    BY <1>1 DEF LoopsGoOn, SetAt

LEMMA ReserveFact ==
  ASSUME TypeOK, NEW r \in Runs, NEW expected \in Generations \cup {0}, Reserve(r, expected)
  PROVE  /\ LoopsGoOn /\ driver' \in Runs \cup {0}
         /\ loop[r].at = "none" /\ loop'[r].at = "reserved" /\ loop'[r].expected = expected
         /\ \A q \in Runs \ {r} : loop'[q] = loop[q]
  <1> DEFINE new == [loop[r] EXCEPT !.at = "reserved", !.expected = expected]
  <1>1. loop[r] \in Loop /\ loop \in [Runs -> Loop]
    BY Types
  <1>2. new \in Loop /\ new.at = "reserved" /\ new.gen = loop[r].gen /\ new.acted = loop[r].acted
        /\ new.expected = expected
    BY <1>1 DEF Loop
  <1>3. loop' = [loop EXCEPT ![r] = new] /\ loop[r].at = "none" /\ driver' = r
    BY <1>1 DEF Reserve
  <1> HIDE DEF new
  <1>4. loop' \in [Runs -> Loop] /\ loop'[r] = new /\ \A q \in Runs \ {r} : loop'[q] = loop[q]
    BY <1>1, <1>2, <1>3
  <1>5. Reserving(r)
    BY <1>2, <1>3, <1>4 DEF Reserving
  <1> QED
    BY <1>2, <1>3, <1>4, <1>5 DEF LoopsGoOn

LEMMA RetireFact ==
  ASSUME TypeOK, NEW r \in Runs
  PROVE  Retire(r) \in [Workers -> JobRow] /\ Freed(r) \in Runs \cup {0}
  <1>1. NoJob \in JobRow
    BY DEF NoJob, JobRow
  <1> QED
    BY <1>1, Types DEF Retire, Freed

LEMMA SetJob ==
  ASSUME TypeOK, NEW w \in Workers, NEW new \in JobRow, job' = [job EXCEPT ![w] = new],
         driver' \in Runs \cup {0}
  PROVE  RestGoesOn /\ job'[w] = new /\ \A v \in Workers \ {w} : job'[v] = job[v]
  BY Types DEF RestGoesOn

\* A card gets another status.
LEMMA SetCard ==
  ASSUME TypeOK, NEW c \in Cards, NEW new \in Card, card' = [card EXCEPT ![c] = new],
         new.status # "pending", new.gen = card[c].gen, UNCHANGED <<generation, inputs, faults>>
  PROVE  CardsGoOn
  <1>1. card' \in [Cards -> Card] /\ card'[c] = new /\ \A d \in Cards \ {c} : card'[d] = card[d]
    BY Types
  <1>2. \A d \in Cards : Staying(d) \/ Leaving(d)
    BY <1>1 DEF Staying, Leaving
  <1> QED
    BY <1>1, <1>2, Types DEF CardsGoOn

LEMMA InvalidateFact ==
  ASSUME QuestionInv, Invalidate, Input, UNCHANGED <<faults, redelivered>>
  PROVE  RowGoesOn /\ CardsGoOn
  <1>t. TypeOK
    BY DEF QuestionInv
  <1> DEFINE shut(c) == [card[c] EXCEPT !.status = "superseded"]
  <1>1. ASSUME NEW c \in Cards
        PROVE  shut(c) \in Card /\ shut(c).status = "superseded" /\ shut(c).gen = card[c].gen
    BY <1>t, CardType DEF Card
  <1>2. card' = [c \in Cards |-> IF c \in Here("pending") \cup Saved THEN shut(c) ELSE card[c]]
    BY DEF Invalidate
  <1> HIDE DEF shut
  <1>3. card' \in [Cards -> Card]
    BY <1>t, <1>1, <1>2, Types
  <1>4. ASSUME NEW c \in Cards
        PROVE  Leaving(c)
    <2>1. card[c].status = "pending" => c \in Here("pending")
      BY DEF QuestionInv, PendingIsCurrent, Here
    <2> QED
      BY <1>1, <1>2, <2>1 DEF Leaving
  <1>5. CardsGoOn
    BY <1>t, <1>3, <1>4, Types, CountInput DEF CardsGoOn, Invalidate
  <1>6. RowGoesOn
    BY <1>t, Types DEF RowGoesOn, Invalidate
  <1> QED
    BY <1>5, <1>6

-----------------------------------------------------------------------------
(* Every action. *)

LEMMA InputSteps ==
  ASSUME QuestionInv, CancelSession \/ \E r \in Runs : UserMessage(r) \/ PlatformInput(r)
  PROVE  GoesOn
  <1>t. TypeOK
    BY DEF QuestionInv
  <1>1. CASE CancelSession
    <2>1. Input /\ Invalidate /\ UNCHANGED <<driver, loop, job, faults, redelivered>>
      BY <1>1 DEF CancelSession
    <2> QED
      BY <1>t, <2>1, InvalidateFact, SameLoops, Types DEF GoesOn, RestGoesOn
  <1>2. ASSUME NEW r \in Runs, UserMessage(r)
        PROVE  GoesOn
    <2>1. Input /\ Reserve(r, 0) /\ Invalidate /\ UNCHANGED <<job, faults, redelivered>>
      BY <1>2 DEF UserMessage
    <2>2. LoopsGoOn /\ driver' \in Runs \cup {0}
      BY <1>t, <2>1, ReserveFact
    <2> QED
      BY <1>t, <2>1, <2>2, InvalidateFact, Types DEF GoesOn, RestGoesOn
  <1>3. ASSUME NEW r \in Runs, PlatformInput(r)
        PROVE  GoesOn
    <2>1. Input /\ Reserve(r, 0) /\ UNCHANGED <<row, card, job, faults, redelivered>>
      BY <1>3 DEF PlatformInput
    <2>2. LoopsGoOn /\ driver' \in Runs \cup {0}
      BY <1>t, <2>1, ReserveFact
    <2>3. CardsGoOn
      BY <1>t, <2>1, SameCards, CountInput, Types DEF row
    <2> QED
      BY <1>t, <2>1, <2>2, <2>3, SameRow, Types DEF GoesOn, RestGoesOn
  <1> QED
    BY <1>1, <1>2, <1>3

LEMMA CardSteps ==
  ASSUME QuestionInv, NEW c \in Cards, Answer(c) \/ Expire(c)
  PROVE  GoesOn
  <1>t. TypeOK
    BY DEF QuestionInv
  <1>c. card[c] \in Card /\ card \in [Cards -> Card]
    BY <1>t, Types
  <1>1. CASE Answer(c)
    <2> DEFINE new == [card[c] EXCEPT !.status = "answered"]
    <2>1. new \in Card /\ new.status = "answered" /\ new.gen = card[c].gen
      BY <1>c DEF Card
    <2>2. card' = [card EXCEPT ![c] = new] /\ resume' = TRUE
          /\ UNCHANGED <<generation, run, live, origin, progress, driver, loop, job, inputs, faults, redelivered>>
      BY <1>1 DEF Answer, ResumeSaved
    <2> HIDE DEF new
    <2>3. CardsGoOn
      BY <1>t, <2>1, <2>2, SetCard
    <2>4. RowGoesOn
      BY <1>t, <2>2, Types DEF RowGoesOn
    <2> QED
      BY <1>t, <2>2, <2>3, <2>4, SameLoops, Types DEF GoesOn, RestGoesOn
  <1>2. CASE Expire(c)
    <2> DEFINE new == [card[c] EXCEPT !.status = "expired", !.applied = TRUE]
    <2>1. new \in Card /\ new.status = "expired" /\ new.gen = card[c].gen
      BY <1>c DEF Card
    <2>2. card' = [card EXCEPT ![c] = new]
          /\ UNCHANGED <<row, driver, loop, job, inputs, faults, redelivered>>
      BY <1>2 DEF Expire
    <2> HIDE DEF new
    <2>3. CardsGoOn
      BY <1>t, <2>1, <2>2, SetCard DEF row
    <2> QED
      BY <1>t, <2>2, <2>3, SameRow, SameLoops, Types DEF GoesOn, RestGoesOn
  <1> QED
    BY <1>1, <1>2

LEMMA RefusedStep ==
  ASSUME QuestionInv, NEW r \in Runs, StartRefused(r)
  PROVE  GoesOn
  <1>t. TypeOK
    BY DEF QuestionInv
  <1>1. /\ loop[r].at = "reserved" /\ loop' = [loop EXCEPT ![r] = NoLoop]
        /\ driver' = Freed(r) /\ job' = Retire(r)
        /\ UNCHANGED <<row, card, inputs, faults, redelivered>>
    BY DEF StartRefused
  <1>2. LoopsGoOn
    <2>1. NoLoop \in Loop
      BY DEF NoLoop, Loop
    <2>2. loop' \in [Runs -> Loop] /\ loop'[r] = NoLoop /\ \A q \in Runs \ {r} : loop'[q] = loop[q]
      BY <1>t, <1>1, <2>1, Types
    <2> QED
      BY <1>1, <2>2 DEF LoopsGoOn, Refusing
  <1>3. CardsGoOn
    BY <1>t, <1>1, SameCards, Types DEF row
  <1> QED
    BY <1>t, <1>1, <1>2, <1>3, SameRow, RetireFact DEF GoesOn, RestGoesOn

LEMMA StartStep ==
  ASSUME QuestionInv, NEW r \in Runs, StartRun(r)
  PROVE  GoesOn
  <1>t. TypeOK
    BY DEF QuestionInv
  <1> DEFINE new == [loop[r] EXCEPT !.at = "started", !.gen = generation]
  <1>1. /\ loop[r].at = "reserved" /\ loop' = [loop EXCEPT ![r] = new]
        /\ run' = r /\ live' = TRUE /\ progress' = FALSE /\ resume' = FALSE
        /\ origin' = (IF loop[r].expected # 0 THEN "question" ELSE "prompt")
        /\ UNCHANGED <<generation, card, driver, job, inputs, faults, redelivered>>
    BY <1>t, Types DEF StartRun
  <1>2. new \in Loop /\ new.at = "started" /\ new.gen = generation /\ new.acted = loop[r].acted
    BY <1>t, Types, LoopType DEF Loop
  <1> HIDE DEF new
  <1>3. loop' \in [Runs -> Loop] /\ loop'[r] = new /\ \A q \in Runs \ {r} : loop'[q] = loop[q]
    BY <1>t, <1>1, <1>2, Types
  <1>4. Starting(r)
    BY <1>1, <1>2, <1>3 DEF Starting
  <1>5. LoopsGoOn
    BY <1>3, <1>4 DEF LoopsGoOn
  <1>6. RowGoesOn
    BY <1>1, <1>4, Numbers DEF RowGoesOn
  <1>7. CardsGoOn
    BY <1>t, <1>1, SameCards, Types
  <1> QED
    BY <1>t, <1>1, <1>5, <1>6, <1>7, Types DEF GoesOn, RestGoesOn

LEMMA CheckStep ==
  ASSUME QuestionInv, NEW r \in Runs, CheckRun(r)
  PROVE  GoesOn
  <1>t. TypeOK
    BY DEF QuestionInv
  <1>1. /\ loop[r].at = "started" /\ progress' = (progress \/ Owns(r))
        /\ loop' = [loop EXCEPT ![r].at = IF Owns(r) THEN "checked" ELSE "over"]
        /\ driver' = (IF Owns(r) THEN driver ELSE Freed(r))
        /\ job' = (IF Owns(r) THEN job ELSE Retire(r))
        /\ UNCHANGED <<generation, run, live, origin, resume, card, inputs, faults, redelivered>>
    BY DEF CheckRun
  <1>2. SetAt(r, IF Owns(r) THEN "checked" ELSE "over")
    <2>1. CASE Owns(r)
      BY <1>t, <1>1, <2>1, AtFact
    <2>2. CASE ~Owns(r)
      BY <1>t, <1>1, <2>2, AtFact
    <2> QED
      BY <2>1, <2>2
  <1>3. LoopsGoOn
    <2>1. CASE ~Owns(r)
      BY <1>t, <1>1, <1>2, <2>1, QuietMove DEF Quiet
    <2>2. CASE Owns(r)
      <3>1. SetAt(r, "checked") /\ progress'
        BY <1>1, <1>2, <2>2
      <3>2. Moving(r)
        BY <1>1, <2>2, <3>1 DEF Moving, SetAt
      <3> QED
        BY <3>1, <3>2 DEF LoopsGoOn, SetAt
    <2> QED
      BY <2>1, <2>2
  <1>4. RowGoesOn
    <2>1. progress' \in BOOLEAN /\ (progress => progress')
      BY <1>1
    <2> QED
      BY <1>t, <1>1, <2>1, Types DEF RowGoesOn
  <1>5. CardsGoOn
    BY <1>t, <1>1, SameCards, Types
  <1>6. RestGoesOn
    BY <1>t, <1>1, Types, RetireFact DEF RestGoesOn
  <1> QED
    BY <1>3, <1>4, <1>5, <1>6 DEF GoesOn

LEMMA ActStep ==
  ASSUME QuestionInv, NEW r \in Runs, Act(r)
  PROVE  GoesOn
  <1>t. TypeOK
    BY DEF QuestionInv
  <1> DEFINE new == [loop[r] EXCEPT !.at = "acted", !.acted = TRUE]
             goes(c) == [card[c] EXCEPT !.ran = TRUE]
  <1>1. /\ loop[r].at = "checked" /\ loop' = [loop EXCEPT ![r] = new]
        /\ card' = [c \in Cards |-> IF card[c].gen = loop[r].gen /\ card[c].applied
                                      THEN goes(c) ELSE card[c]]
        /\ UNCHANGED <<row, driver, job, inputs, faults, redelivered>>
    BY <1>t, Types DEF Act
  <1>2. new \in Loop /\ new.at = "acted" /\ new.gen = loop[r].gen
    BY <1>t, LoopType DEF Loop
  <1>3. ASSUME NEW c \in Cards
        PROVE  /\ goes(c) \in Card /\ goes(c).status = card[c].status /\ goes(c).gen = card[c].gen
               /\ goes(c).by = card[c].by
    BY <1>t, CardType DEF Card
  <1> HIDE DEF new, goes
  <1>4. loop' \in [Runs -> Loop] /\ loop'[r] = new /\ \A q \in Runs \ {r} : loop'[q] = loop[q]
    BY <1>t, <1>1, <1>2, Types
  <1>5. Moving(r)
    BY <1>1, <1>2, <1>4 DEF Moving, Quiet
  <1>6. LoopsGoOn
    BY <1>4, <1>5 DEF LoopsGoOn
  <1>7. CardsGoOn
    <2>1. card' \in [Cards -> Card]
      BY <1>t, <1>1, <1>3, Types
    <2>2. \A c \in Cards : /\ card'[c].status = card[c].status /\ card'[c].gen = card[c].gen
                           /\ card'[c].by = card[c].by
      BY <1>1, <1>3
    <2> QED
      BY <1>t, <1>1, <2>1, <2>2, MarkCards, Types DEF row
  <1> QED
    BY <1>t, <1>1, <1>6, <1>7, SameRow, Types DEF GoesOn, RestGoesOn

LEMMA AskStep ==
  ASSUME QuestionInv, NEW r \in Runs, NEW c \in Cards, Ask(r, c)
  PROVE  GoesOn
  <1>t. TypeOK
    BY DEF QuestionInv
  <1> DEFINE new == [card[c] EXCEPT !.status = "pending", !.gen = generation, !.by = r]
  <1>1. /\ loop[r].at \in {"acted", "asked"} /\ Owns(r) /\ card' = [card EXCEPT ![c] = new]
        /\ loop' = [loop EXCEPT ![r].at = "asked"]
        /\ UNCHANGED <<row, driver, job, inputs, faults, redelivered>>
    BY <1>t, Types DEF Ask
  <1>2. new \in Card /\ new.gen = generation /\ new.by = r
    BY <1>t, Types, CardType DEF Card
  <1> HIDE DEF new
  <1>3. card' \in [Cards -> Card] /\ card'[c] = new /\ \A d \in Cards \ {c} : card'[d] = card[d]
    BY <1>t, <1>1, <1>2, Types
  <1>4. \A d \in Cards : Staying(d) \/ Asking(d)
    BY <1>1, <1>2, <1>3 DEF Staying, Asking
  <1>5. CardsGoOn
    BY <1>t, <1>1, <1>3, <1>4, Types DEF CardsGoOn, row
  <1>6. LoopsGoOn
    BY <1>t, <1>1, AtFact, QuietMove DEF Quiet
  <1> QED
    BY <1>t, <1>1, <1>5, <1>6, SameRow, Types DEF GoesOn, RestGoesOn

LEMMA MoveSteps ==
  ASSUME QuestionInv, NEW r \in Runs, NextStep(r) \/ Dies(r)
  PROVE  GoesOn
  <1>t. TypeOK
    BY DEF QuestionInv
  <1>1. CASE NextStep(r)
    <2>1. /\ loop[r].at = "acted" /\ loop' = [loop EXCEPT ![r].at = "started"]
          /\ UNCHANGED <<row, card, driver, job, inputs, faults, redelivered>>
      BY <1>1 DEF NextStep
    <2>2. LoopsGoOn
      BY <1>t, <2>1, AtFact, QuietMove DEF Quiet
    <2>3. CardsGoOn
      BY <1>t, <2>1, SameCards, Types DEF row
    <2> QED
      BY <1>t, <2>1, <2>2, <2>3, SameRow, Types DEF GoesOn, RestGoesOn
  <1>2. CASE Dies(r)
    <2>1. /\ Fault /\ loop[r].at \in {"started", "checked", "acted", "asked"}
          /\ loop' = [loop EXCEPT ![r].at = "dead"] /\ job' = Retire(r)
          /\ UNCHANGED <<row, card, driver, inputs, redelivered>>
      BY <1>2 DEF Dies, Busy
    <2>2. LoopsGoOn
      BY <1>t, <2>1, AtFact, QuietMove DEF Quiet
    <2>3. CardsGoOn
      BY <1>t, <2>1, SameCards, CountFault, Types DEF row
    <2> QED
      BY <1>t, <2>1, <2>2, <2>3, SameRow, RetireFact, Types DEF GoesOn, RestGoesOn
  <1> QED
    BY <1>1, <1>2

\* The error that the session shows marks cards, nothing else.
LEMMA TellFact ==
  ASSUME TypeOK, NEW resumes
  PROVE  /\ Tell(resumes) \in [Cards -> Card]
         /\ \A c \in Cards : /\ Tell(resumes)[c].status = card[c].status
                             /\ Tell(resumes)[c].gen = card[c].gen
                             /\ Tell(resumes)[c].by = card[c].by
                             /\ Tell(resumes)[c].applied = card[c].applied
                             /\ card[c].told => Tell(resumes)[c].told
  <1> DEFINE told(c) == [card[c] EXCEPT !.told = TRUE]
  <1>1. ASSUME NEW c \in Cards
        PROVE  /\ told(c) \in Card /\ told(c).status = card[c].status /\ told(c).gen = card[c].gen
               /\ told(c).by = card[c].by /\ told(c).applied = card[c].applied /\ told(c).told
    BY CardType DEF Card
  <1>2. Tell(resumes) = [c \in Cards |-> IF c \in Here("answered") /\ ~card[c].ran
                                              /\ ~resumes /\ Here("pending") = {}
                                           THEN told(c) ELSE card[c]]
    BY DEF Tell
  <1> HIDE DEF told
  <1> QED
    BY <1>1, <1>2, Types

LEMMA FinishStep ==
  ASSUME QuestionInv, NEW r \in Runs, NEW how \in {"done", "interrupted", "failed"},
         FinishRun(r, how), faults' \in 0 .. MaxFaults
  PROVE  GoesOn
  <1>t. TypeOK
    BY DEF QuestionInv
  <1>1. /\ loop[r].at \in {"started", "checked", "acted", "asked"}
        /\ loop' = [loop EXCEPT ![r].at = "over"]
        /\ driver' = Freed(r) /\ job' = Retire(r)
        /\ UNCHANGED <<generation, origin, progress, inputs>>
    BY DEF FinishRun
  <1>2. LoopsGoOn
    BY <1>t, <1>1, AtFact, QuietMove DEF Quiet
  <1>3. CASE ~Owns(r)
    <2>1. UNCHANGED <<run, live, resume, card, redelivered>>
      BY <1>3 DEF FinishRun
    <2>2. CardsGoOn
      BY <1>t, <1>1, <2>1, SameCards, Types
    <2>3. RowGoesOn
      BY <1>t, <1>1, <2>1, SameRow DEF row
    <2> QED
      BY <1>t, <1>1, <1>2, <2>2, <2>3, RetireFact DEF GoesOn, RestGoesOn
  <1>4. CASE Owns(r)
    <2> DEFINE again == how = "interrupted" /\ Redelivers(r)
    <2>1. /\ run' = 0 /\ live' = FALSE /\ resume' = (resume \/ again)
          /\ card' = card \/ card' = Tell(resume')
          /\ redelivered' = redelivered \cup {q \in {r} : again}
      BY <1>4 DEF FinishRun
    <2>2. again => ~progress
      BY DEF Redelivers
    <2> HIDE DEF again
    <2>3. CardsGoOn
      BY <1>t, <1>1, <2>1, SameCards, TellFact, MarkCards, Types
    <2>4. redelivered' = redelivered \/ (redelivered' = redelivered \cup {run} /\ again)
      BY <1>4, <2>1 DEF Owns
    <2>5. run # 0 /\ resume' \in BOOLEAN
      BY <1>4, <2>1, Numbers DEF Owns
    <2>6. RowGoesOn
      BY <1>t, <1>1, <2>1, <2>2, <2>4, <2>5, Types DEF RowGoesOn
    <2> QED
      BY <1>t, <1>1, <1>2, <2>3, <2>6, RetireFact DEF GoesOn, RestGoesOn
  <1> QED
    BY <1>3, <1>4

LEMMA LeaseSteps ==
  ASSUME QuestionInv, Recover \/ \E r \in Runs : Stalls(r)
  PROVE  GoesOn
  <1>t. TypeOK
    BY DEF QuestionInv
  <1>1. ASSUME NEW r \in Runs, Stalls(r)
        PROVE  GoesOn
    <2>1. /\ Fault /\ live' = (live /\ run # r) /\ driver' = Freed(r)
          /\ UNCHANGED <<generation, run, origin, progress, resume, card, loop, job, inputs, redelivered>>
      BY <1>1 DEF Stalls
    <2>2. RowGoesOn
      BY <1>t, <2>1, Types DEF RowGoesOn
    <2>3. CardsGoOn
      BY <1>t, <2>1, SameCards, CountFault, Types
    <2> QED
      BY <1>t, <2>1, <2>2, <2>3, SameLoops, RetireFact, Types DEF GoesOn, RestGoesOn
  <1>2. CASE LeaseExpires
    <2>1. /\ live' = FALSE
          /\ UNCHANGED <<generation, run, origin, progress, resume, card, driver, loop, job,
                         inputs, faults, redelivered>>
      BY <1>2 DEF LeaseExpires
    <2>2. RowGoesOn
      BY <1>t, <2>1, Types DEF RowGoesOn
    <2>3. CardsGoOn
      BY <1>t, <2>1, SameCards, Types
    <2> QED
      BY <1>t, <2>1, <2>2, <2>3, SameLoops, Types DEF GoesOn, RestGoesOn
  <1>3. CASE DriverExpires
    <2>1. driver' = 0 /\ UNCHANGED <<row, card, loop, job, inputs, faults, redelivered>>
      BY <1>3 DEF DriverExpires
    <2>2. CardsGoOn
      BY <1>t, <2>1, SameCards, Types DEF row
    <2> QED
      BY <1>t, <2>1, <2>2, SameLoops, SameRow, Types DEF GoesOn, RestGoesOn
  <1>4. CASE RecoverExpiredRun
    <2>1. /\ run # 0 /\ ~live /\ resume' = (resume \/ Redelivers(run)) /\ card' = Tell(resume')
          /\ redelivered' = redelivered \cup {r \in {run} : Redelivers(r)} /\ run' = 0
          /\ UNCHANGED <<generation, live, origin, progress, driver, loop, job, inputs, faults>>
      BY <1>4 DEF RecoverExpiredRun
    <2>2. redelivered' = redelivered \/ (redelivered' = redelivered \cup {run} /\ Redelivers(run))
      BY <2>1
    <2>3. resume' \in BOOLEAN /\ (Redelivers(run) => ~progress)
      BY <2>1 DEF Redelivers
    <2>4. RowGoesOn
      BY <1>t, <2>1, <2>2, <2>3, Types DEF RowGoesOn
    <2>5. CardsGoOn
      BY <1>t, <2>1, TellFact, MarkCards, Types
    <2> QED
      BY <1>t, <2>1, <2>4, <2>5, SameLoops, Types DEF GoesOn, RestGoesOn
  <1> QED
    BY <1>1, <1>2, <1>3, <1>4 DEF Recover

\* A card after the guard has refused the answer of card c.
GuardedCard(c, d) ==
  IF d = c THEN [card[d] EXCEPT !.status = "superseded", !.applied = TRUE]
  ELSE IF d \in Here("answered") THEN [card[d] EXCEPT !.told = TRUE] ELSE card[d]

LEMMA GuardedFact ==
  ASSUME TypeOK, NEW c \in Cards, NEW d \in Cards
  PROVE  /\ GuardedCard(c, d) \in Card
         /\ GuardedCard(c, d).gen = card[d].gen /\ GuardedCard(c, d).by = card[d].by
         /\ d = c => GuardedCard(c, d).status = "superseded"
         /\ d # c => /\ GuardedCard(c, d).status = card[d].status
                     /\ GuardedCard(c, d).applied = card[d].applied
                     /\ d \in Here("answered") => GuardedCard(c, d).told
  <1>1. card[d] \in Card
    BY Types
  <1>2. CASE d = c
    BY <1>1, <1>2 DEF GuardedCard, Card
  <1>3. CASE d # c /\ d \in Here("answered")
    BY <1>1, <1>3 DEF GuardedCard, Card
  <1>4. CASE d # c /\ d \notin Here("answered")
    BY <1>1, <1>4 DEF GuardedCard
  <1> QED
    BY <1>2, <1>3, <1>4

LEMMA WorkerSteps ==
  ASSUME QuestionInv, NEW w \in Workers,
         WorkerStep(w) \/ ApplyFails(w) \/ \E c \in Cards : GuardFails(w, c)
  PROVE  GoesOn
  <1>t. TypeOK
    BY DEF QuestionInv
  <1>j. /\ NoJob \in JobRow
        /\ [do |-> "resume", gen |-> generation, run |-> 0] \in JobRow
        /\ [do |-> "report", gen |-> generation, run |-> 0] \in JobRow
        /\ job[w] \in JobRow
    BY <1>t, Types DEF NoJob, JobRow
  <1>1. CASE ApplyAnswers(w)
    <2> DEFINE done(c) == [card[c] EXCEPT !.applied = TRUE]
               new == IF Here("pending") = {}
                        THEN [do |-> "resume", gen |-> generation, run |-> 0] ELSE job[w]
    <2>1. /\ card' = [c \in Cards |-> IF c \in Saved THEN done(c) ELSE card[c]]
          /\ resume' = (Here("pending") = {}) /\ job' = [job EXCEPT ![w] = new]
          /\ UNCHANGED <<generation, run, live, origin, progress, driver, loop,
                         inputs, faults, redelivered>>
      BY <1>t, <1>1, Types DEF ApplyAnswers
    <2>2. ASSUME NEW c \in Cards
          PROVE  /\ done(c) \in Card /\ done(c).status = card[c].status /\ done(c).gen = card[c].gen
                 /\ done(c).by = card[c].by
      BY <1>t, CardType DEF Card
    <2>3. new \in JobRow
      BY <1>j
    <2> HIDE DEF done, new
    <2>4. CardsGoOn
      <3>1. card' \in [Cards -> Card]
        BY <1>t, <2>1, <2>2, Types
      <3>2. \A c \in Cards : /\ card'[c].status = card[c].status /\ card'[c].gen = card[c].gen
                             /\ card'[c].by = card[c].by
        BY <2>1, <2>2
      <3> QED
        BY <1>t, <2>1, <3>1, <3>2, MarkCards, Types
    <2>5. RowGoesOn
      BY <1>t, <2>1, Types DEF RowGoesOn
    <2> QED
      BY <1>t, <2>1, <2>3, <2>4, <2>5, SameLoops, SetJob, Types DEF GoesOn
  <1>2. CASE ApplyFails(w)
    <2>1. /\ job' = [job EXCEPT ![w] = [do |-> "report", gen |-> generation, run |-> 0]]
          /\ UNCHANGED <<row, card, driver, loop, inputs, faults, redelivered>>
      BY <1>2 DEF ApplyFails
    <2>2. CardsGoOn
      BY <1>t, <2>1, SameCards, Types DEF row
    <2> QED
      BY <1>t, <1>j, <2>1, <2>2, SameLoops, SameRow, SetJob, Types DEF GoesOn
  <1>3. CASE ReportFailure(w)
    <2> DEFINE told(c) == [card[c] EXCEPT !.told = TRUE]
    <2>1. /\ job' = [job EXCEPT ![w] = NoJob]
          /\ \/ /\ resume' = FALSE
                /\ card' = [c \in Cards |-> IF c \in Here("answered") THEN told(c) ELSE card[c]]
             \/ UNCHANGED <<resume, card>>
          /\ UNCHANGED <<generation, run, live, origin, progress, driver, loop,
                         inputs, faults, redelivered>>
      BY <1>3 DEF ReportFailure
    <2>2. ASSUME NEW c \in Cards
          PROVE  /\ told(c) \in Card /\ told(c).status = card[c].status /\ told(c).gen = card[c].gen
                 /\ told(c).by = card[c].by
      BY <1>t, CardType DEF Card
    <2> HIDE DEF told
    <2>4. CardsGoOn
      <3>1. CASE card' = card
        BY <1>t, <2>1, <3>1, SameCards, Types
      <3>2. CASE card' = [c \in Cards |-> IF c \in Here("answered") THEN told(c) ELSE card[c]]
        <4>1. card' \in [Cards -> Card]
          BY <1>t, <3>2, <2>2, Types
        <4>2. \A c \in Cards : /\ card'[c].status = card[c].status /\ card'[c].gen = card[c].gen
                               /\ card'[c].by = card[c].by
          BY <3>2, <2>2
        <4> QED
          BY <1>t, <2>1, <4>1, <4>2, MarkCards, Types
      <3> QED
        BY <2>1, <3>1, <3>2
    <2>5. RowGoesOn
      BY <1>t, <2>1, Types DEF RowGoesOn
    <2> QED
      BY <1>t, <1>j, <2>1, <2>4, <2>5, SameLoops, SetJob, Types DEF GoesOn
  <1>4. CASE Resume(w)
    <2>1. UNCHANGED <<row, card, inputs, faults, redelivered>>
      BY <1>4 DEF Resume
    <2>2. CardsGoOn
      BY <1>t, <2>1, SameCards, Types DEF row
    <2>3. ASSUME NEW r \in Runs, Reserve(r, job[w].gen), job' = [job EXCEPT ![w].do = "run", ![w].run = r]
          PROVE  GoesOn
      <3> DEFINE new == [job[w] EXCEPT !.do = "run", !.run = r]
      <3>1. new \in JobRow /\ job[w].gen \in Generations \cup {0}
        BY <1>j DEF JobRow
      <3>2. job' = [job EXCEPT ![w] = new]
        BY <1>t, <2>3, Types
      <3> HIDE DEF new
      <3>3. LoopsGoOn /\ driver' \in Runs \cup {0}
        BY <1>t, <2>3, <3>1, ReserveFact
      <3> QED
        BY <1>t, <2>1, <2>2, <3>1, <3>2, <3>3, SameRow, SetJob DEF GoesOn
    <2>4. CASE job' = [job EXCEPT ![w] = NoJob] /\ UNCHANGED <<driver, loop>>
      BY <1>t, <1>j, <2>1, <2>2, <2>4, SameLoops, SameRow, SetJob, Types DEF GoesOn
    <2> QED
      BY <1>4, <2>3, <2>4 DEF Resume
  <1>5. ASSUME NEW c \in Cards, GuardFails(w, c)
        PROVE  GoesOn
    <2>1. /\ resume' = FALSE /\ \A d \in Cards : card'[d] = GuardedCard(c, d)
          /\ card' = [d \in Cards |-> card'[d]]
          /\ UNCHANGED <<generation, run, live, origin, progress, driver, loop, job,
                         inputs, faults, redelivered>>
      BY <1>5 DEF GuardFails, GuardedCard
    <2>2. CardsGoOn
      <3>1. \A d \in Cards : card'[d] \in Card /\ (Staying(d) \/ Leaving(d))
        BY <1>t, <2>1, GuardedFact DEF Staying, Leaving
      <3> QED
        BY <1>t, <2>1, <3>1, Types DEF CardsGoOn
    <2>3. RowGoesOn
      BY <1>t, <2>1, Types DEF RowGoesOn
    <2> QED
      BY <1>t, <2>1, <2>2, <2>3, SameLoops, Types DEF GoesOn, RestGoesOn
  <1> QED
    BY <1>1, <1>2, <1>3, <1>4, <1>5 DEF WorkerStep

\* Every step notes its hand-overs; only apply_answers makes one.
LEMMA NotesStep ==
  ASSUME TypeOK, [Next]_vars
  PROVE  /\ NotesGoOn
         /\ fresh' \subseteq fresh \/ \E w \in Workers : ApplyAnswers(w)
  <1>1. CASE UNCHANGED <<fresh, astray>>
    BY <1>1, Types DEF NotesGoOn
  <1>2. ASSUME NEW r \in Runs, StartRun(r)
        PROVE  NotesGoOn /\ fresh' \subseteq fresh
    BY <1>2, Types DEF NotesGoOn, StartRun, Saved, Here
  <1>3. ASSUME NEW w \in Workers, ApplyAnswers(w)
        PROVE  NotesGoOn
    BY <1>3, Types DEF NotesGoOn, ApplyAnswers
  <1>4. CASE UNCHANGED vars
    BY <1>1, <1>4 DEF vars
  <1>5. ASSUME NEW r \in Runs,
               \/ UserMessage(r) \/ PlatformInput(r) \/ StartRefused(r) \/ Dies(r) \/ Stalls(r)
               \/ CheckRun(r) \/ Act(r) \/ NextStep(r) \/ \E c \in Cards : Ask(r, c)
        PROVE  UNCHANGED <<fresh, astray>>
    BY <1>5 DEF UserMessage, PlatformInput, StartRefused, Dies, Stalls, CheckRun, Act, NextStep,
       Ask, handed
  <1>6. ASSUME NEW r \in Runs, Finish(r) \/ BreaksOff(r)
        PROVE  UNCHANGED <<fresh, astray>>
    BY <1>6 DEF Finish, BreaksOff, FinishRun, handed
  <1>7. ASSUME CancelSession \/ (\E c \in Cards : Answer(c) \/ Expire(c)) \/ Recover
        PROVE  UNCHANGED <<fresh, astray>>
    BY <1>7 DEF CancelSession, Answer, Expire, Recover, LeaseExpires, DriverExpires,
       RecoverExpiredRun, handed
  <1>8. ASSUME NEW w \in Workers,
               ReportFailure(w) \/ Resume(w) \/ ApplyFails(w) \/ \E c \in Cards : GuardFails(w, c)
        PROVE  UNCHANGED <<fresh, astray>>
    BY <1>8 DEF ReportFailure, Resume, ApplyFails, GuardFails, handed
  <1> QED
    BY <1>1, <1>2, <1>3, <1>4, <1>5, <1>6, <1>7, <1>8 DEF Next, RunStep, WorkerStep

LEMMA EveryStep ==
  ASSUME QuestionInv, Next
  PROVE  GoesOn
  <1>t. TypeOK
    BY DEF QuestionInv
  <1>1. ASSUME NEW r \in Runs, Finish(r)
        PROVE  GoesOn
    BY <1>t, <1>1, FinishStep, Types DEF Finish
  <1>2. ASSUME NEW r \in Runs, BreaksOff(r)
        PROVE  GoesOn
    BY <1>t, <1>2, FinishStep, CountFault DEF BreaksOff
  <1> QED
    BY <1>1, <1>2, InputSteps, CardSteps, RefusedStep, StartStep, CheckStep, ActStep, AskStep,
       MoveSteps, LeaseSteps, WorkerSteps DEF Next, RunStep

LEMMA Initially == Init => QuestionInv
  <1> SUFFICES ASSUME Init PROVE QuestionInv
    OBVIOUS
  <1> DEFINE blank == [status |-> "new", gen |-> 0, by |-> 0, applied |-> FALSE,
                       told |-> FALSE, ran |-> FALSE]
  <1>1. /\ generation = 1 /\ run = 0 /\ live = FALSE /\ origin = "prompt" /\ progress = FALSE
        /\ resume = FALSE /\ card = [c \in Cards |-> blank] /\ driver = 0
        /\ loop = [r \in Runs |-> NoLoop] /\ job = [w \in Workers |-> NoJob]
        /\ inputs = 0 /\ faults = 0 /\ redelivered = {} /\ fresh = {} /\ astray = {}
    BY DEF Init
  <1>2. blank \in Card /\ blank.gen = 0 /\ blank.status = "new"
    BY DEF Card
  <1>3. NoLoop \in Loop /\ NoLoop.at = "none" /\ NoLoop.gen = 0 /\ ~NoLoop.acted /\ NoJob \in JobRow
    BY DEF NoLoop, Loop, NoJob, JobRow
  <1> HIDE DEF blank
  <1>4. TypeOK
    <2>1. generation \in Generations /\ inputs \in 0 .. MaxInputs /\ faults \in 0 .. MaxFaults
      BY <1>1, Numbers DEF Generations
    <2>2. card \in [Cards -> Card] /\ loop \in [Runs -> Loop] /\ job \in [Workers -> JobRow]
      BY <1>1, <1>2, <1>3
    <2> QED
      BY <1>1, <2>1, <2>2 DEF TypeOK, JobRow
  <1>5. Counted /\ FreshLoops /\ Owner /\ GivenUp
    BY <1>1, <1>3 DEF Counted, FreshLoops, Owner, GivenUp
  <1>6. CardsBehind /\ PendingIsCurrent
    BY <1>1, <1>2 DEF CardsBehind, PendingIsCurrent
  <1> QED
    BY <1>4, <1>5, <1>6 DEF QuestionInv

LEMMA Inductive == QuestionInv /\ [Next]_vars => QuestionInv'
  <1> SUFFICES ASSUME QuestionInv, [Next]_vars PROVE QuestionInv'
    OBVIOUS
  <1>0. NotesGoOn
    BY NotesStep DEF QuestionInv
  <1>1. CASE Next
    BY <1>0, <1>1, EveryStep, Kept
  <1>2. CASE UNCHANGED vars
    <2>t. TypeOK
      BY DEF QuestionInv
    <2>1. UNCHANGED <<row, card, driver, loop, job, inputs, faults, redelivered>>
      BY <1>2 DEF vars
    <2>2. CardsGoOn
      BY <2>t, <2>1, SameCards, Types DEF row
    <2>3. GoesOn
      BY <2>t, <2>1, <2>2, SameLoops, SameRow, Types DEF GoesOn, RestGoesOn
    <2> QED
      BY <1>0, <2>3, Kept
  <1> QED
    BY <1>1, <1>2

-----------------------------------------------------------------------------
(* The intent to resume, with any number of continuation workers. *)

\* A worker that has applied the answers and has not started its run yet, nor
\* has any other.
Pursues(w) == /\ w \in fresh /\ job[w].gen = generation
              /\ \/ job[w].do = "resume"
                 \/ job[w].do = "run" /\ loop[job[w].run].at = "reserved"

\* What it found holds until its run starts.
Cleared == ~live /\ Here("pending") = {} /\ \A c \in Saved : card[c].told \/ c \in astray
Waiting == \A w \in Workers : Pursues(w) => Cleared

\* A resumed run that is reserved is that of a worker.
Resumers == \A r \in Runs : loop[r].at = "reserved" /\ loop[r].expected # 0 =>
              \E w \in Workers : job[w].do = "run" /\ job[w].run = r /\ job[w].gen = loop[r].expected
JobRuns  == \A w \in Workers : /\ job[w].do = "run" => job[w].run \in Runs /\ loop[job[w].run].at # "none"
                               /\ job[w].gen <= generation

IntentInv == IntentKept /\ Waiting /\ Resumers /\ JobRuns

\* What most steps do in a turn.
PursuitsGoOn == \A w \in Workers : Pursues(w)' => Pursues(w)
SavedGoOn    == \A c \in Saved' : c \in Saved /\ (card[c].told => card'[c].told)
PendingGoOn  == Here("pending")' \subseteq Here("pending")
Calm         == /\ SavedGoOn /\ PendingGoOn /\ PursuitsGoOn
                /\ (resume => resume') /\ (live' => live) /\ astray \subseteq astray'
Employed     == Resumers' /\ JobRuns'

\* What a worker found still holds.
LEMMA WaitStays ==
  ASSUME IntentInv, SavedGoOn, PendingGoOn, PursuitsGoOn, live' => live, astray \subseteq astray'
  PROVE  Waiting'
  <1> SUFFICES ASSUME NEW w \in Workers, Pursues(w)'
               PROVE  Cleared'
    BY DEF Waiting
  <1>1. Cleared
    BY DEF IntentInv, Waiting, PursuitsGoOn
  <1> QED
    BY <1>1 DEF Cleared, SavedGoOn, PendingGoOn

LEMMA CalmStep ==
  ASSUME IntentInv, Calm, Employed
  PROVE  IntentInv'
  <1>1. IntentKept'
    BY DEF IntentInv, IntentKept, Calm, SavedGoOn
  <1>2. Waiting'
    BY WaitStays DEF Calm
  <1> QED
    BY <1>1, <1>2 DEF IntentInv, Employed

LEMMA TurnGoesOn ==
  ASSUME QuestionInv, GoesOn
  PROVE  /\ generation \in Nat /\ generation' \in Nat /\ generation' >= generation
         /\ \A w \in Workers : job[w] \in JobRow /\ job[w].gen \in Nat
  <1>t. TypeOK
    BY DEF QuestionInv
  <1>1. generation \in Nat /\ (generation' = generation \/ generation' = generation + 1)
    BY <1>t, Types DEF GoesOn, CardsGoOn
  <1>2. ASSUME NEW w \in Workers PROVE job[w] \in JobRow /\ job[w].gen \in Generations \cup {0}
    <2>1. job[w] \in JobRow
      BY <1>t, Types
    <2> QED
      BY <2>1 DEF JobRow
  <1>3. \A n \in Generations \cup {0} : n \in Nat
    BY Numbers
  <1>4. \A w \in Workers : job[w] \in JobRow /\ job[w].gen \in Nat
    BY <1>2, <1>3, Zenon
  <1> QED
    BY <1>1, <1>4

\* Jobs stay: loops are reserved without an expected turn, or go on.
LEMMA JobsStay ==
  ASSUME QuestionInv, GoesOn, IntentInv, job' = job,
         \A r \in Runs : \/ loop'[r] = loop[r] \/ loop'[r].at \notin {"none", "reserved"}
                         \/ loop[r].at = "none" /\ loop'[r].at = "reserved" /\ loop'[r].expected = 0
  PROVE  Employed /\ (generation' = generation /\ fresh' \subseteq fresh => PursuitsGoOn)
  <1>1. JobRuns'
    BY TurnGoesOn DEF JobRuns, IntentInv
  <1>2. Resumers'
    BY DEF Resumers, IntentInv
  <1>3. ASSUME generation' = generation, fresh' \subseteq fresh, NEW w \in Workers, Pursues(w)'
        PROVE  Pursues(w)
    BY <1>3 DEF Pursues, IntentInv, JobRuns
  <1> QED
    BY <1>1, <1>2, <1>3 DEF Employed, PursuitsGoOn

\* A loop ends, and with it the job of its worker.
LEMMA JobsRetire ==
  ASSUME QuestionInv, GoesOn, IntentInv, NEW r \in Runs, job' = Retire(r), generation' = generation,
         fresh' \subseteq fresh, loop'[r].at # "reserved", \A q \in Runs \ {r} : loop'[q] = loop[q]
  PROVE  Employed /\ PursuitsGoOn
  <1>1. ASSUME NEW w \in Workers
        PROVE  job'[w] = IF job[w].run = r THEN NoJob ELSE job[w]
    BY <1>1 DEF Retire
  <1>n. NoJob.do = "idle" /\ NoJob.gen = 0
    BY DEF NoJob
  <1>2. JobRuns'
    <2> SUFFICES ASSUME NEW w \in Workers
                 PROVE  /\ job'[w].do = "run" => job'[w].run \in Runs /\ loop'[job'[w].run].at # "none"
                        /\ job'[w].gen <= generation'
      BY DEF JobRuns
    <2>1. CASE job[w].run = r
      BY <2>1, <1>1, <1>n, TurnGoesOn
    <2>2. CASE job[w].run # r
      BY <2>2, <1>1 DEF IntentInv, JobRuns
    <2> QED
      BY <2>1, <2>2
  <1>3. Resumers'
    <2> SUFFICES ASSUME NEW q \in Runs, loop'[q].at = "reserved", loop'[q].expected # 0
                 PROVE  \E w \in Workers : /\ job'[w].do = "run" /\ job'[w].run = q
                                           /\ job'[w].gen = loop'[q].expected
      BY DEF Resumers
    <2>1. q # r /\ loop'[q] = loop[q]
      OBVIOUS
    <2>2. PICK w \in Workers : job[w].do = "run" /\ job[w].run = q /\ job[w].gen = loop[q].expected
      BY <2>1 DEF IntentInv, Resumers
    <2> QED
      BY <2>1, <2>2, <1>1
  <1>4. ASSUME NEW w \in Workers, Pursues(w)'
        PROVE  Pursues(w)
    <2>1. job'[w] = job[w] /\ job[w].run # r
      BY <1>1, <1>4, <1>n DEF Pursues
    <2> QED
      BY <1>4, <2>1 DEF Pursues, IntentInv, JobRuns
  <1> QED
    BY <1>2, <1>3, <1>4 DEF Employed, PursuitsGoOn

\* A worker that runs nothing turns to something else.
LEMMA JobsTurn ==
  ASSUME QuestionInv, GoesOn, IntentInv, NEW w \in Workers, loop' = loop, generation' = generation,
         job[w].do # "run", job'[w].do # "run", job'[w].gen \in {0, generation},
         \A v \in Workers \ {w} : job'[v] = job[v]
  PROVE  Employed /\ (job'[w].do # "resume" /\ fresh' \subseteq fresh => PursuitsGoOn)
  <1>1. JobRuns'
    BY TurnGoesOn DEF IntentInv, JobRuns
  <1>2. Resumers'
    <2> SUFFICES ASSUME NEW q \in Runs, loop[q].at = "reserved", loop[q].expected # 0
                 PROVE  \E v \in Workers : /\ job'[v].do = "run" /\ job'[v].run = q
                                           /\ job'[v].gen = loop[q].expected
      BY DEF Resumers
    <2>1. PICK v \in Workers : job[v].do = "run" /\ job[v].run = q /\ job[v].gen = loop[q].expected
      BY DEF IntentInv, Resumers
    <2>2. v # w
      BY <2>1
    <2> QED
      BY <2>1, <2>2
  <1>3. ASSUME job'[w].do # "resume", fresh' \subseteq fresh, NEW v \in Workers, Pursues(v)'
        PROVE  Pursues(v)
    BY <1>3 DEF Pursues
  <1> QED
    BY <1>1, <1>2, <1>3 DEF Employed, PursuitsGoOn

\* Cards as they were, up to flags other than applied.
LEMMA SameSaved ==
  ASSUME generation' = generation,
         \A c \in Cards : /\ card'[c].status = card[c].status /\ card'[c].gen = card[c].gen
                          /\ card[c].applied => card'[c].applied
                          /\ card[c].told => card'[c].told
  PROVE  SavedGoOn /\ PendingGoOn
  BY DEF SavedGoOn, PendingGoOn, Saved, Here

\* Both invariants hold before a step of the program that hands nothing over.
Stepping == QuestionInv /\ IntentInv /\ GoesOn /\ astray \subseteq astray' /\ fresh' \subseteq fresh

LEMMA SteppingTypes ==
  ASSUME Stepping
  PROVE  /\ TypeOK /\ QuestionInv /\ IntentInv /\ GoesOn
         /\ astray \subseteq astray' /\ fresh' \subseteq fresh
  BY DEF Stepping, QuestionInv

\* A new turn has no saved answers.
LEMMA NewTurn ==
  ASSUME Stepping, Employed, generation' = generation + 1, job' = job
  PROVE  IntentInv'
  <1>1. generation \in Nat /\ \A c \in Cards : card[c].gen \in Nat /\ card[c].gen <= generation
    BY SteppingTypes, Types, CardType DEF QuestionInv, CardsBehind
  <1>2. \A c \in Cards : card'[c].gen = card[c].gen
    BY <1>1, SteppingTypes DEF GoesOn, CardsGoOn, Leaving
  <1>3. Saved' = {}
    BY <1>1, <1>2 DEF Saved, Here
  <1>4. \A w \in Workers : ~Pursues(w)'
    <2>1. \A w \in Workers : job[w].gen \in Nat /\ job[w].gen <= generation
      BY SteppingTypes, TurnGoesOn DEF IntentInv, JobRuns
    <2> QED
      BY <1>1, <2>1 DEF Pursues
  <1> QED
    BY <1>3, <1>4 DEF IntentInv, IntentKept, Waiting, Employed

LEMMA IntentInput ==
  ASSUME Stepping, CancelSession \/ \E r \in Runs : UserMessage(r) \/ PlatformInput(r)
  PROVE  IntentInv'
  <1>1. job' = job
    BY DEF CancelSession, UserMessage, PlatformInput
  <1>2. Employed /\ (generation' = generation => PursuitsGoOn)
    <2>1. CASE CancelSession
      <3>1. loop' = loop
        BY <2>1 DEF CancelSession
      <3> QED
        BY <1>1, <3>1, SteppingTypes, JobsStay
    <2>2. ASSUME NEW r \in Runs, Reserve(r, 0)
          PROVE  Employed /\ (generation' = generation => PursuitsGoOn)
      <3>1. /\ loop[r].at = "none" /\ loop'[r].at = "reserved" /\ loop'[r].expected = 0
            /\ \A q \in Runs \ {r} : loop'[q] = loop[q]
        BY <2>2, SteppingTypes, ReserveFact
      <3> QED
        BY <1>1, <3>1, SteppingTypes, JobsStay
    <2> QED
      BY <2>1, <2>2 DEF UserMessage, PlatformInput
  <1>3. CASE CancelSession \/ \E r \in Runs : UserMessage(r)
    <2>1. generation' = generation + 1
      BY <1>3 DEF CancelSession, UserMessage, Invalidate
    <2> QED
      BY <1>1, <1>2, <2>1, NewTurn
  <1>4. CASE \E r \in Runs : PlatformInput(r)
    <2>1. UNCHANGED <<generation, resume, live, card>>
      BY <1>4 DEF PlatformInput, row
    <2>2. Calm
      BY <1>2, <2>1, SameSaved, SteppingTypes DEF Calm
    <2> QED
      BY <1>2, <2>2, CalmStep, SteppingTypes
  <1> QED
    BY <1>3, <1>4

LEMMA IntentCards ==
  ASSUME Stepping, NEW c \in Cards, Answer(c) \/ Expire(c)
  PROVE  IntentInv'
  <1>c. card[c] \in Card /\ card \in [Cards -> Card]
    BY SteppingTypes, Types
  <1>1. job' = job /\ loop' = loop /\ generation' = generation /\ live' = live
    BY DEF Answer, Expire, row
  <1>2. Employed /\ PursuitsGoOn
    BY <1>1, SteppingTypes, JobsStay
  <1>3. CASE Answer(c)
    <2>1. resume' = TRUE /\ Here("pending") # {}
      BY <1>3 DEF Answer, ResumeSaved
    <2>2. IntentKept'
      BY <2>1 DEF IntentKept
    <2>3. \A w \in Workers : ~Pursues(w)
      BY <2>1, SteppingTypes DEF IntentInv, Waiting, Cleared
    <2> QED
      BY <1>2, <2>2, <2>3 DEF IntentInv, Waiting, PursuitsGoOn, Employed
  <1>4. CASE Expire(c)
    <2> DEFINE new == [card[c] EXCEPT !.status = "expired", !.applied = TRUE]
    <2>1. new.status = "expired"
      BY <1>c DEF Card
    <2>2. card' = [card EXCEPT ![c] = new] /\ resume' = resume
      BY <1>4 DEF Expire, row
    <2> HIDE DEF new
    <2>3. card'[c] = new /\ \A d \in Cards \ {c} : card'[d] = card[d]
      BY <1>c, <2>2
    <2>4. SavedGoOn /\ PendingGoOn
      BY <1>1, <2>1, <2>3 DEF SavedGoOn, PendingGoOn, Saved, Here
    <2> QED
      BY <1>1, <1>2, <2>2, <2>4, CalmStep, SteppingTypes DEF Calm
  <1> QED
    BY <1>3, <1>4

LEMMA IntentStart ==
  ASSUME Stepping, NEW r \in Runs, StartRun(r)
  PROVE  IntentInv'
  <1>t. TypeOK /\ QuestionInv /\ IntentInv
    BY SteppingTypes
  <1>1. /\ loop[r].at = "reserved" /\ ~Refused(r) /\ resume' = FALSE
        /\ UNCHANGED <<generation, card, job>>
        /\ loop' = [loop EXCEPT ![r].at = "started", ![r].gen = generation]
        /\ fresh' = {} /\ astray' = astray \cup {c \in Saved : ~HandsOver(r)}
    BY DEF StartRun
  <1>2. loop'[r].at = "started" /\ \A q \in Runs \ {r} : loop'[q] = loop[q]
    BY <1>t, <1>1, Types, LoopType DEF Loop
  <1>3. Employed
    <2>1. \A q \in Runs : loop'[q] = loop[q] \/ loop'[q].at \notin {"none", "reserved"}
      BY <1>2
    <2> QED
      BY <1>1, <2>1, JobsStay, SteppingTypes
  <1>4. \A c \in Saved : card[c].told \/ c \in astray'
    <2>1. CASE ~HandsOver(r)
      BY <1>1, <2>1
    <2>2. CASE HandsOver(r)
      <3>1. PICK w \in fresh : job[w] = [do |-> "run", gen |-> generation, run |-> r]
        BY <2>2 DEF HandsOver
      <3>2. w \in Workers /\ Pursues(w)
        BY <1>t, <1>1, <3>1, Types DEF Pursues
      <3> QED
        BY <1>t, <1>1, <3>2 DEF IntentInv, Waiting, Cleared
    <2> QED
      BY <2>1, <2>2
  <1>5. IntentKept'
    BY <1>1, <1>4 DEF IntentKept, Saved, Here
  <1>6. \A v \in Workers : ~Pursues(v)'
    BY <1>1 DEF Pursues
  <1> QED
    BY <1>3, <1>5, <1>6 DEF IntentInv, Waiting, Employed

LEMMA IntentRun ==
  ASSUME Stepping, NEW r \in Runs,
         \/ CheckRun(r) \/ Act(r) \/ NextStep(r) \/ Dies(r) \/ StartRefused(r) \/ Stalls(r)
         \/ \E how \in {"done", "interrupted", "failed"} : FinishRun(r, how)
  PROVE  IntentInv'
  <1>t. TypeOK /\ QuestionInv /\ IntentInv /\ GoesOn /\ astray \subseteq astray' /\ fresh' \subseteq fresh
    BY SteppingTypes
  <1>1. generation' = generation /\ (live' => live) /\ (resume => resume')
    BY DEF CheckRun, Act, NextStep, Dies, StartRefused, Stalls, FinishRun, row
  <1>2. SavedGoOn /\ PendingGoOn
    <2>1. CASE card' = card
      BY <1>1, <2>1, SameSaved
    <2>2. CASE Act(r)
      <3> DEFINE goes(c) == [card[c] EXCEPT !.ran = TRUE]
      <3>1. card' = [c \in Cards |-> IF card[c].gen = loop[r].gen /\ card[c].applied
                                       THEN goes(c) ELSE card[c]]
        BY <2>2 DEF Act
      <3>2. ASSUME NEW c \in Cards
            PROVE  /\ goes(c).status = card[c].status /\ goes(c).gen = card[c].gen
                   /\ goes(c).applied = card[c].applied /\ goes(c).told = card[c].told
        BY <1>t, CardType DEF Card
      <3> HIDE DEF goes
      <3>3. \A c \in Cards : /\ card'[c].status = card[c].status /\ card'[c].gen = card[c].gen
                             /\ card'[c].applied = card[c].applied /\ card'[c].told = card[c].told
        BY <3>1, <3>2
      <3> QED
        BY <1>1, <3>3, SameSaved
    <2>3. CASE card' = Tell(resume')
      <3>1. \A c \in Cards : /\ card'[c].status = card[c].status /\ card'[c].gen = card[c].gen
                             /\ card'[c].applied = card[c].applied
                             /\ card[c].told => card'[c].told
        BY <1>t, <2>3, TellFact
      <3> QED
        BY <1>1, <3>1, SameSaved
    <2> QED
      BY <2>1, <2>2, <2>3 DEF CheckRun, Act, NextStep, Dies, StartRefused, Stalls, FinishRun, row
  <1>3. Employed /\ PursuitsGoOn
    <2>1. ASSUME NEW at \in {"started", "checked", "over", "dead"}, loop' = [loop EXCEPT ![r].at = at]
          PROVE  loop'[r].at = at /\ \A q \in Runs \ {r} : loop'[q] = loop[q]
      BY <1>t, <2>1, AtFact DEF SetAt
    <2>2. CASE CheckRun(r)
      <3>1. CASE Owns(r)
        <4>1. job' = job /\ loop' = [loop EXCEPT ![r].at = "checked"]
          BY <2>2, <3>1 DEF CheckRun
        <4> QED
          BY <1>t, <1>1, <2>1, <4>1, JobsStay
      <3>2. CASE ~Owns(r)
        <4>1. job' = Retire(r) /\ loop' = [loop EXCEPT ![r].at = "over"]
          BY <2>2, <3>2 DEF CheckRun
        <4> QED
          BY <1>t, <1>1, <2>1, <4>1, JobsRetire
      <3> QED
        BY <3>1, <3>2
    <2>3. CASE Act(r)
      <3>1. job' = job /\ loop' = [loop EXCEPT ![r].at = "acted", ![r].acted = TRUE]
        BY <2>3 DEF Act
      <3>2. loop'[r].at = "acted" /\ \A q \in Runs \ {r} : loop'[q] = loop[q]
        BY <1>t, <3>1, Types, LoopType DEF Loop
      <3> QED
        BY <1>t, <1>1, <3>1, <3>2, JobsStay
    <2>4. CASE NextStep(r)
      <3>1. job' = job /\ loop' = [loop EXCEPT ![r].at = "started"]
        BY <2>4 DEF NextStep
      <3> QED
        BY <1>t, <1>1, <2>1, <3>1, JobsStay
    <2>5. CASE Stalls(r)
      <3>1. job' = job /\ loop' = loop
        BY <2>5 DEF Stalls
      <3> QED
        BY <1>t, <1>1, <3>1, JobsStay
    <2>6. CASE StartRefused(r)
      <3>1. job' = Retire(r) /\ loop' = [loop EXCEPT ![r] = NoLoop]
        BY <2>6 DEF StartRefused
      <3>2. loop'[r] = NoLoop /\ NoLoop.at = "none" /\ \A q \in Runs \ {r} : loop'[q] = loop[q]
        BY <1>t, <3>1, Types DEF NoLoop
      <3> QED
        BY <1>t, <1>1, <3>1, <3>2, JobsRetire
    <2>7. CASE Dies(r) \/ \E how \in {"done", "interrupted", "failed"} : FinishRun(r, how)
      <3>1. /\ job' = Retire(r)
            /\ \E at \in {"dead", "over"} : loop' = [loop EXCEPT ![r].at = at]
        BY <2>7 DEF Dies, FinishRun
      <3>2. PICK at \in {"dead", "over"} : loop' = [loop EXCEPT ![r].at = at]
        BY <3>1
      <3> QED
        BY <1>t, <1>1, <2>1, <3>1, <3>2, JobsRetire
    <2> QED
      BY <2>2, <2>3, <2>4, <2>5, <2>6, <2>7
  <1> QED
    BY <1>t, <1>1, <1>2, <1>3, CalmStep DEF Calm

LEMMA IntentAsk ==
  ASSUME Stepping, NEW r \in Runs, NEW c \in Cards, Ask(r, c)
  PROVE  IntentInv'
  <1>t. TypeOK /\ QuestionInv /\ IntentInv /\ GoesOn /\ astray \subseteq astray' /\ fresh' \subseteq fresh
    BY SteppingTypes
  <1> DEFINE new == [card[c] EXCEPT !.status = "pending", !.gen = generation, !.by = r]
  <1>1. /\ live /\ job' = job /\ generation' = generation /\ resume' = resume
        /\ loop' = [loop EXCEPT ![r].at = "asked"] /\ card' = [card EXCEPT ![c] = new]
    BY <1>t, Types DEF Ask, Owns, row
  <1>2. loop'[r].at = "asked" /\ \A q \in Runs \ {r} : loop'[q] = loop[q]
    BY <1>t, <1>1, AtFact DEF SetAt
  <1>3. Employed /\ PursuitsGoOn
    BY <1>t, <1>1, <1>2, JobsStay
  <1>4. new.status = "pending"
    BY <1>t, CardType DEF Card
  <1> HIDE DEF new
  <1>5. card'[c].status = "pending" /\ \A d \in Cards \ {c} : card'[d] = card[d]
    BY <1>t, <1>1, <1>4, Types
  <1>6. IntentKept'
    BY <1>t, <1>1, <1>5 DEF IntentInv, IntentKept, Saved, Here
  <1>7. \A w \in Workers : ~Pursues(w)
    BY <1>t, <1>1 DEF IntentInv, Waiting, Cleared
  <1> QED
    BY <1>3, <1>6, <1>7 DEF IntentInv, Waiting, PursuitsGoOn, Employed

LEMMA IntentRecover ==
  ASSUME Stepping, Recover
  PROVE  IntentInv'
  <1>t. TypeOK /\ QuestionInv /\ IntentInv /\ GoesOn /\ astray \subseteq astray' /\ fresh' \subseteq fresh
    BY SteppingTypes
  <1>1. job' = job /\ loop' = loop /\ generation' = generation /\ (live' => live) /\ (resume => resume')
    <2>1. CASE LeaseExpires \/ DriverExpires
      BY <2>1 DEF LeaseExpires, DriverExpires, row
    <2>2. CASE RecoverExpiredRun
      <3>1. job' = job /\ loop' = loop /\ generation' = generation /\ live' = live
        BY <2>2 DEF RecoverExpiredRun
      <3>2. resume => resume'
        BY <2>2 DEF RecoverExpiredRun
      <3> QED
        BY <3>1, <3>2
    <2> QED
      BY <2>1, <2>2 DEF Recover
  <1>2. Employed /\ PursuitsGoOn
    BY <1>t, <1>1, JobsStay
  <1>3. SavedGoOn /\ PendingGoOn
    <2>1. CASE card' = card
      BY <1>1, <2>1, SameSaved
    <2>2. CASE card' = Tell(resume')
      <3>1. \A c \in Cards : /\ card'[c].status = card[c].status /\ card'[c].gen = card[c].gen
                             /\ card'[c].applied = card[c].applied
                             /\ card[c].told => card'[c].told
        BY <1>t, <2>2, TellFact
      <3> QED
        BY <1>1, <3>1, SameSaved
    <2> QED
      BY <2>1, <2>2 DEF Recover, LeaseExpires, DriverExpires, RecoverExpiredRun, row
  <1> QED
    BY <1>t, <1>1, <1>2, <1>3, CalmStep DEF Calm

LEMMA IntentApply ==
  ASSUME QuestionInv, IntentInv, GoesOn, NEW w \in Workers, ApplyAnswers(w)
  PROVE  IntentInv'
  <1>t. TypeOK /\ QuestionInv /\ IntentInv /\ GoesOn
    BY DEF QuestionInv
  <1>j. job[w] \in JobRow /\ job \in [Workers -> JobRow]
    BY <1>t, Types
  <1> DEFINE done(c) == [card[c] EXCEPT !.applied = TRUE]
             new == IF Here("pending") = {}
                      THEN [do |-> "resume", gen |-> generation, run |-> 0] ELSE job[w]
  <1>1. /\ card' = [c \in Cards |-> IF c \in Saved THEN done(c) ELSE card[c]]
        /\ job' = [job EXCEPT ![w] = new] /\ generation' = generation
        /\ loop' = loop /\ live' = live /\ ~live /\ job[w].do = "idle"
        /\ fresh' = (IF Here("pending") = {} THEN fresh \cup {w} ELSE fresh)
    BY DEF ApplyAnswers, Candidate
  <1>2. ASSUME NEW c \in Cards
        PROVE  /\ done(c).status = card[c].status /\ done(c).gen = card[c].gen
               /\ done(c).applied = TRUE
    BY <1>t, CardType DEF Card
  <1> HIDE DEF done
  <1>3. \A c \in Cards : /\ card'[c].status = card[c].status /\ card'[c].gen = card[c].gen
                         /\ c \in Saved => card'[c].applied
                         /\ c \notin Saved => card'[c] = card[c]
    BY <1>1, <1>2
  <1>4. Saved' = {} /\ Here("pending")' = Here("pending")
    BY <1>1, <1>3 DEF Saved, Here
  <1>5. job'[w] = new
    BY <1>j, <1>1
  <1>6. CASE Here("pending") = {}
    <2>1. Cleared'
      BY <1>1, <1>4, <1>6 DEF Cleared
    <2>2. job'[w].do = "resume" /\ job'[w].gen = generation
      BY <1>5, <1>6
    <2>3. Employed
      BY <1>t, <1>1, <2>2, JobsTurn
    <2> QED
      BY <1>4, <2>1, <2>3 DEF IntentInv, IntentKept, Waiting, Employed
  <1>7. CASE Here("pending") # {}
    <2>1. job' = job /\ fresh' = fresh
      BY <1>j, <1>1, <1>5, <1>7
    <2>2. Employed /\ PursuitsGoOn
      BY <1>t, <1>1, <2>1, JobsStay
    <2>3. \A v \in Workers : ~Pursues(v)
      BY <1>t, <1>7 DEF IntentInv, Waiting, Cleared
    <2> QED
      BY <1>4, <2>2, <2>3 DEF IntentInv, IntentKept, Waiting, Employed, PursuitsGoOn
  <1> QED
    BY <1>6, <1>7

LEMMA IntentWorker ==
  ASSUME Stepping, NEW w \in Workers,
         \/ ReportFailure(w) \/ Resume(w) \/ ApplyFails(w)
         \/ \E c \in Cards : GuardFails(w, c)
  PROVE  IntentInv'
  <1>t. TypeOK /\ QuestionInv /\ IntentInv /\ GoesOn /\ astray \subseteq astray' /\ fresh' \subseteq fresh
    BY SteppingTypes
  <1>j. job[w] \in JobRow /\ job \in [Workers -> JobRow]
    BY <1>t, Types
  <1>g. generation' = generation
    BY DEF ApplyFails, ReportFailure, Resume, GuardFails, row
  <1>1. ASSUME NEW c \in Cards, GuardFails(w, c)
        PROVE  IntentInv'
    <2>1. /\ \A d \in Cards : card'[d] = GuardedCard(c, d)
          /\ loop' = loop /\ job' = job /\ live' = live
      BY <1>1 DEF GuardFails, GuardedCard
    <2>2. \A d \in Cards : /\ card'[d].gen = card[d].gen
                           /\ d = c => card'[d].status = "superseded"
                           /\ d # c => /\ card'[d].status = card[d].status
                                       /\ card'[d].applied = card[d].applied
                                       /\ d \in Here("answered") => card'[d].told
      BY <1>t, <2>1, GuardedFact
    <2>3. /\ \A d \in Saved' : d \in Saved /\ card'[d].told
          /\ Here("pending")' \subseteq Here("pending")
      BY <1>g, <2>2 DEF Saved, Here
    <2>4. Employed /\ PursuitsGoOn
      BY <1>t, <1>g, <2>1, JobsStay
    <2>5. SavedGoOn /\ PendingGoOn
      BY <2>3 DEF SavedGoOn, PendingGoOn
    <2>6. Waiting'
      BY <1>t, <2>1, <2>4, <2>5, WaitStays
    <2> QED
      BY <2>3, <2>4, <2>6 DEF IntentInv, IntentKept, Employed
  <1>2. CASE ApplyFails(w)
    <2>1. /\ job' = [job EXCEPT ![w] = [do |-> "report", gen |-> generation, run |-> 0]]
          /\ job[w].do = "idle" /\ UNCHANGED <<resume, live, card, loop>>
      BY <1>2 DEF ApplyFails, Candidate, row
    <2>2. job'[w].do = "report" /\ job'[w].gen = generation
      BY <1>j, <2>1
    <2>3. Employed /\ PursuitsGoOn
      BY <1>t, <1>g, <2>1, <2>2, JobsTurn
    <2> QED
      BY <1>t, <1>g, <2>1, <2>3, SameSaved, CalmStep DEF Calm
  <1>3. CASE ReportFailure(w)
    <2> DEFINE told(c) == [card[c] EXCEPT !.told = TRUE]
    <2>1. /\ job[w].do = "report" /\ job' = [job EXCEPT ![w] = NoJob] /\ loop' = loop /\ live' = live
          /\ \/ card' = [c \in Cards |-> IF c \in Here("answered") THEN told(c) ELSE card[c]]
             \/ UNCHANGED <<resume, card>>
      BY <1>3 DEF ReportFailure
    <2>2. job'[w].do = "idle" /\ job'[w].gen = 0
      BY <1>j, <2>1 DEF NoJob
    <2>3. Employed /\ PursuitsGoOn
      BY <1>t, <1>g, <2>1, <2>2, JobsTurn
    <2>4. ASSUME NEW c \in Cards
          PROVE  /\ told(c).status = card[c].status /\ told(c).gen = card[c].gen
                 /\ told(c).applied = card[c].applied /\ told(c).told = TRUE
      BY <1>t, CardType DEF Card
    <2>6. Waiting'
      <3> HIDE DEF told
      <3>1. \A c \in Cards : /\ card'[c].status = card[c].status /\ card'[c].gen = card[c].gen
                             /\ card'[c].applied = card[c].applied
                             /\ card[c].told => card'[c].told
        BY <2>1, <2>4
      <3> QED
        BY <1>t, <1>g, <2>1, <2>3, <3>1, SameSaved, WaitStays
    <2>5. IntentKept'
      <3>1. CASE UNCHANGED <<resume, card>>
        BY <1>t, <1>g, <3>1 DEF IntentInv, IntentKept, Saved, Here
      <3>2. CASE card' = [c \in Cards |-> IF c \in Here("answered") THEN told(c) ELSE card[c]]
        <4> HIDE DEF told
        <4>2. \A c \in Cards : /\ card'[c].status = card[c].status /\ card'[c].gen = card[c].gen
                               /\ c \in Here("answered") => card'[c].told
          BY <2>4, <3>2
        <4> QED
          BY <1>g, <4>2 DEF IntentKept, Saved, Here
      <3> QED
        BY <2>1, <3>1, <3>2
    <2> QED
      BY <2>3, <2>5, <2>6 DEF IntentInv, Employed
  <1>4. CASE Resume(w)
    <2>1. job[w].do = "resume" /\ UNCHANGED <<resume, live, card>>
      BY <1>4 DEF Resume, row
    <2>2. ASSUME NEW r \in Runs, Reserve(r, job[w].gen), job' = [job EXCEPT ![w].do = "run", ![w].run = r]
          PROVE  Employed /\ PursuitsGoOn
      <3> DEFINE new == [job[w] EXCEPT !.do = "run", !.run = r]
      <3>1. /\ new.do = "run" /\ new.run = r /\ new.gen = job[w].gen
            /\ job[w].gen \in Generations \cup {0}
        BY <1>j DEF JobRow
      <3>2. job' = [job EXCEPT ![w] = new]
        BY <1>j, <2>2
      <3> HIDE DEF new
      <3>3. job'[w] = new /\ \A v \in Workers \ {w} : job'[v] = job[v]
        BY <1>j, <3>2
      <3>4. /\ loop'[r].at = "reserved" /\ loop'[r].expected = job[w].gen
            /\ \A q \in Runs \ {r} : loop'[q] = loop[q]
        BY <1>t, <2>2, <3>1, ReserveFact
      <3>5. JobRuns'
        BY <1>t, <1>g, <3>1, <3>3, <3>4 DEF IntentInv, JobRuns
      <3>6. Resumers'
        <4> SUFFICES ASSUME NEW q \in Runs, loop'[q].at = "reserved", loop'[q].expected # 0
                     PROVE  \E v \in Workers : /\ job'[v].do = "run" /\ job'[v].run = q
                                               /\ job'[v].gen = loop'[q].expected
          BY DEF Resumers
        <4>1. CASE q = r
          BY <3>1, <3>3, <3>4, <4>1
        <4>2. CASE q # r
          <5>1. PICK v \in Workers : /\ job[v].do = "run" /\ job[v].run = q
                                     /\ job[v].gen = loop[q].expected
            BY <1>t, <3>4, <4>2 DEF IntentInv, Resumers
          <5>2. v # w
            BY <2>1, <5>1
          <5> QED
            BY <3>3, <3>4, <4>2, <5>1, <5>2
        <4> QED
          BY <4>1, <4>2
      <3>7. ASSUME NEW v \in Workers, Pursues(v)'
            PROVE  Pursues(v)
        <4>1. CASE v = w
          BY <1>t, <1>g, <2>1, <3>1, <3>3, <3>7, <4>1 DEF Pursues
        <4>2. CASE v # w
          BY <1>t, <1>g, <2>2, <3>3, <3>4, <3>7, <4>2 DEF Pursues, IntentInv, JobRuns, Reserve
        <4> QED
          BY <4>1, <4>2
      <3> QED
        BY <3>5, <3>6, <3>7 DEF Employed, PursuitsGoOn
    <2>3. ASSUME job' = [job EXCEPT ![w] = NoJob], UNCHANGED <<driver, loop>>
          PROVE  Employed /\ PursuitsGoOn
      <3>1. job'[w].do = "idle" /\ job'[w].gen = 0 /\ loop' = loop
        BY <1>j, <2>3 DEF NoJob
      <3> QED
        BY <1>t, <1>g, <2>1, <2>3, <3>1, JobsTurn
    <2>4. Employed /\ PursuitsGoOn
      BY <1>4, <2>2, <2>3 DEF Resume
    <2> QED
      BY <1>t, <1>g, <2>1, <2>4, SameSaved, CalmStep DEF Calm
  <1> QED
    BY <1>1, <1>2, <1>3, <1>4

LEMMA IntentInductive ==
  ASSUME QuestionInv, IntentInv, [Next]_vars
  PROVE  IntentInv'
  <1>0. NotesGoOn /\ (fresh' \subseteq fresh \/ \E w \in Workers : ApplyAnswers(w))
    BY NotesStep DEF QuestionInv
  <1>3. ASSUME Next, NEW w \in Workers, ApplyAnswers(w)
        PROVE  IntentInv'
    BY <1>3, EveryStep, IntentApply
  <1>1. CASE Next /\ ~\E w \in Workers : ApplyAnswers(w)
    <2>1. Stepping
      BY <1>0, <1>1, EveryStep DEF Stepping, NotesGoOn
    <2>2. ASSUME NEW r \in Runs, Finish(r) \/ BreaksOff(r)
          PROVE  \E how \in {"done", "interrupted", "failed"} : FinishRun(r, how)
      BY <2>2 DEF Finish, BreaksOff
    <2> QED
      BY <1>1, <2>1, <2>2, IntentInput, IntentCards, IntentStart, IntentRun, IntentAsk,
         IntentRecover, IntentWorker DEF Next, RunStep, WorkerStep
  <1>2. CASE UNCHANGED vars
    BY <1>2 DEF vars, row, IntentInv, IntentKept, Waiting, Resumers, JobRuns, Pursues, Cleared,
       Saved, Here
  <1> QED
    BY <1>1, <1>2, <1>3

LEMMA IntentInitially == Init => IntentInv
  <1> SUFFICES ASSUME Init PROVE IntentInv
    OBVIOUS
  <1>1. /\ generation = 1 /\ loop = [r \in Runs |-> NoLoop] /\ job = [w \in Workers |-> NoJob]
        /\ \A c \in Cards : card[c].gen = 0
    BY DEF Init
  <1>2. NoLoop.at = "none" /\ NoJob.do = "idle" /\ NoJob.gen = 0
    BY DEF NoLoop, NoJob
  <1>3. IntentKept
    BY <1>1 DEF IntentKept, Saved, Here
  <1>4. Waiting /\ Resumers /\ JobRuns
    BY <1>1, <1>2 DEF Waiting, Pursues, Resumers, JobRuns
  <1> QED
    BY <1>3, <1>4 DEF IntentInv

-----------------------------------------------------------------------------
\* A card and what is done with it stay with the turn that asked, for any
\* number of cards, inputs, faults and replicas: no run that acted is delivered
\* an answer again (_recover_expired_run, finish_run), and no card waits outside
\* its turn or is filed into a turn by a late run (invalidate_locked, ask).
THEOREM TurnsSafe == Spec => [](TypeOK /\ RedeliveredIdle /\ PendingIsCurrent)
  <1>1. QuestionInv => TypeOK /\ RedeliveredIdle /\ PendingIsCurrent
    BY DEF QuestionInv, GivenUp, RedeliveredIdle
  <1> QED
    BY <1>1, Initially, Inductive, PTL DEF Spec

\* A saved answer keeps its intent to resume as well, or an error was shown for
\* it, with any number of replicas: only the run of a worker that another one
\* overtook between apply_answers and start_run can take the intent of an answer
\* that it does not carry (README section 5).
THEOREM AnswerSafe == Spec => []AnswerKept
  <1>1. Init => QuestionInv /\ IntentInv
    BY Initially, IntentInitially
  <1>2. (QuestionInv /\ IntentInv) /\ [Next]_vars => (QuestionInv /\ IntentInv)'
    BY Inductive, IntentInductive
  <1>3. QuestionInv /\ IntentInv => AnswerKept
    BY DEF QuestionInv, GivenUp, RedeliveredIdle, IntentInv, AnswerKept
  <1> QED
    BY <1>1, <1>2, <1>3, PTL DEF Spec

=============================================================================
