---------------------------- MODULE SubagentProofs ----------------------------
(***************************************************************************)
(* Proofs about child agents (Subagents), for any number of activations,   *)
(* workers, interrupts and faults.                                         *)
(***************************************************************************)
EXTENDS Subagents, FiniteSetTheorems, TLAPS

-----------------------------------------------------------------------------
(* Types. *)

Phases == {"idle", "reserved", "running", "finalizing"}
Points == {"idle", "claim", "check", "reserve", "bind", "undo", "fail", "start", "answer",
           "release", "complete", "wait", "unknown", "blocks", "pending", "take", "rebind",
           "repair", "fix"}
Windows == {"dispatch", "takeover", "passes"}
ActRow  == [state : {"none", "accepted", "claimed", "bound", "completed"},
            owner : Workers \cup {None}, live : BOOLEAN, gen : Nat]
OutRow  == [state : {"none", "waiting", "ready", "delivered"}, outcome : {"waiting"} \cup Outcomes]
DescRow == [gen : 0 .. Activations, active : 0 .. Activations,
            requested : 0 .. Activations, applied : 0 .. Activations]
DrvRow  == [phase : Phases, gen : Nat, trigger : 0 .. Activations, live : BOOLEAN, abort : BOOLEAN]
Record  == [phase : Phases, gen : Nat, trigger : 0 .. Activations]
Post    == [at : Points, a : 0 .. Activations, gen : Nat, tool : BOOLEAN, record : Record]
Replies == {"none", "stop", "bad"}

Typed ==
  /\ act \in [Acts -> ActRow] /\ outbox \in [Acts -> OutRow] /\ desc \in DescRow
  /\ drv \in DrvRow /\ status \in {"idle", "busy", "error"}
  /\ reply \in [Acts -> Replies] /\ worker \in [Workers -> Post]
  /\ aborts \subseteq [a : Acts, gen : Nat]
  /\ ran \in [Acts -> SUBSET Nat] /\ torn \subseteq Windows

-----------------------------------------------------------------------------
(* The inductive invariant: of every activation, *)

Ended(a)   == outbox[a].state \in {"ready", "delivered"}
Unbound(a) == act[a].state \in {"none", "accepted", "claimed"}
RowOK(a) ==
  /\ Open(a) <=> desc.active = a
  /\ act[a].state = "completed" <=> Ended(a)
  /\ a > desc.gen => act[a].state = "none"
  /\ Unbound(a) => act[a].gen = 0
  /\ act[a].gen <= drv.gen
  /\ outbox[a].outcome # "waiting" => act[a].state = "completed"
\* ... what ran for it is the generation it is bound to,
RanOK(a) ==
  /\ \A g \in ran[a] : g = act[a].gen /\ g # 0 /\ (g = drv.gen => drv.phase # "reserved")
  /\ reply[a] = "stop" => ran[a] # {}
  /\ outbox[a].outcome = "succeeded" => reply[a] = "stop"
  /\ torn = {} /\ outbox[a].outcome = "interrupted" => ran[a] = {}
  /\ torn = {} /\ drv.phase = "reserved" /\ drv.trigger = a => ran[a] = {}

(* ... of every worker, *)
Carrying == {"bind", "start", "answer", "release", "complete", "rebind"}
Looking  == {"unknown", "blocks", "pending", "take", "repair"}

Known(w) ==
  /\ worker[w].at # "idle" => worker[w].a \in Acts
  /\ worker[w].gen <= drv.gen
  /\ worker[w].at \in Carrying => worker[w].gen # 0
BoundTo(w) ==
  worker[w].at \in {"start", "answer", "release"} =>
    act[worker[w].a].state \in {"bound", "completed"} /\ worker[w].gen <= act[worker[w].a].gen
Replays(w) ==
  /\ worker[w].at \in Looking => worker[w].record.phase # "idle"
  /\ worker[w].at \in {"blocks", "pending", "take", "rebind"} => worker[w].record.phase = "reserved"
  /\ worker[w].at = "rebind" =>
       worker[w].record.gen < worker[w].gen /\ worker[w].record.gen \notin ran[worker[w].a]
HasRun(w) == worker[w].at \in {"answer", "release"} => worker[w].gen \in ran[worker[w].a]
\* nobody answers for an activation whose success is out,
NotTwice(w) ==
  worker[w].at \in {"start", "answer"} /\ outbox[worker[w].a].outcome = "succeeded" =>
    worker[w].gen # drv.gen \/ drv.phase = "idle"
\* and outside torn windows: a pass sees the driver as it is, a claim that was
\* checked holds until the reservation, and nobody starts what is completed.
Sees(w)  ==
  /\ worker[w].at \in Looking => Exact(w) /\ worker[w].record.trigger = worker[w].a
  /\ worker[w].at = "rebind" =>
       /\ worker[w].record.trigger = worker[w].a
       /\ worker[w].gen = drv.gen =>
            drv.trigger = worker[w].record.trigger /\ drv.phase \in {"idle", "reserved"}
Holds(w) == worker[w].at = "reserve" =>
              /\ act[worker[w].a].gen = 0
              /\ HoldsClaim(w) \/ act[worker[w].a].state = "completed"
Late(w)  == worker[w].at = "start" /\ act[worker[w].a].state = "completed" => ~Owns(w)
WorkerOK(w) ==
  /\ Known(w) /\ BoundTo(w) /\ Replays(w) /\ HasRun(w) /\ NotTwice(w)
  /\ torn = {} => Sees(w) /\ Holds(w) /\ Late(w)

(* ... of any two, and of the driver. *)
Apart ==
  \A v, w \in Workers : v # w =>
    /\ worker[v].gen # 0 => worker[v].gen # worker[w].gen
    /\ torn = {} => ~(worker[v].at \in Passing /\ worker[w].at \in Passing)
Driven == drv.phase # "idle" => drv.trigger \in Acts

SubInv == /\ Typed /\ Driven /\ Apart
          /\ \A a \in Acts : RowOK(a) /\ RanOK(a)
          /\ \A w \in Workers : WorkerOK(w)

-----------------------------------------------------------------------------
(* What a step does to the driver, *)

DrvSame ==
  /\ drv'.gen = drv.gen /\ drv'.trigger = drv.trigger
  /\ drv'.live => drv.live
  /\ drv'.phase # "idle" => drv.phase # "idle"
  /\ drv'.phase = "reserved" => drv.phase = "reserved"
  /\ ~drv.live /\ drv.phase # "idle" => drv'.phase = drv.phase
  /\ \/ drv'.phase \in {drv.phase, "idle"}
     \/ \E w \in Workers : worker[w].at = "start" /\ Owns(w)
DrvNew ==
  /\ drv'.gen = drv.gen + 1 /\ ran' = ran
  /\ torn = {} /\ drv'.phase = "reserved" => ran[drv'.trigger] = {}
  /\ torn = {} => \A v \in Workers : worker'[v] = worker[v] => worker[v].at \notin Looking

(* ... to an activation, *)
Unheld(a) ==   \* no worker that stays where it is loses a claim it has checked
  torn' = {} => \A v \in Workers : worker'[v] = worker[v] /\ worker[v].at = "reserve" /\ worker[v].a = a
                                     => ~HoldsClaim(v)
ActSame(a) ==
  /\ act'[a] = act[a] /\ outbox'[a].outcome = outbox[a].outcome
  /\ Ended(a)' <=> Ended(a)
  /\ desc'.active = a <=> desc.active = a
ActHeld(a) ==
  /\ Unbound(a) /\ act'[a].state \in {"accepted", "claimed"} /\ act'[a].gen = act[a].gen
  /\ act[a].state = "none" => a <= desc'.gen
  /\ outbox'[a].outcome = outbox[a].outcome /\ ~Ended(a)' /\ desc'.active = a
  /\ Unheld(a)
ActBound(a) ==
  /\ Open(a) /\ act'[a].state = "bound" /\ act'[a].gen = drv.gen /\ ran[a] = {}
  /\ drv' = drv /\ ran' = ran
  /\ outbox'[a] = outbox[a] /\ desc'.active = desc.active
  /\ Unheld(a)
Silent(a, outcome) ==
  /\ outcome = "succeeded" =>
       /\ reply[a] = "stop"
       /\ \A v \in Workers : worker[v].at \in {"start", "answer"} /\ worker[v].a = a
                               => worker[v].gen # drv.gen \/ drv.phase = "idle"
  /\ outcome = "interrupted" /\ torn = {} => ran[a] = {}
  /\ torn = {} => \A v \in Workers : worker[v].at = "start" /\ worker[v].a = a => ~Owns(v)
ActDone(a) ==
  /\ Open(a) /\ act'[a].state = "completed" /\ act'[a].gen = act[a].gen
  /\ Ended(a)' /\ desc'.active # a
  /\ UNCHANGED <<drv, ran, reply>>
  /\ Silent(a, outbox'[a].outcome)
ActsOn ==
  /\ \A a \in Acts : ActSame(a) \/ ActHeld(a) \/ ActBound(a) \/ ActDone(a)
  /\ desc'.gen >= desc.gen

(* ... and to what ran and was answered. *)
RanOn ==
  \/ ran' = ran
  \/ /\ UNCHANGED <<act, outbox, desc, reply>> /\ drv'.phase = "running" /\ DrvSame
     /\ \E w \in Workers : /\ worker[w].at = "start" /\ Owns(w)
                           /\ ran' = [ran EXCEPT ![worker[w].a] = @ \cup {worker[w].gen}]
ReplyOn ==
  \A a \in Acts :
    \/ reply'[a] = reply[a]
    \/ reply[a] = "none" /\ reply'[a] = "bad"
    \/ \E w \in Workers : worker[w].at = "answer" /\ worker[w].a = a /\ Owns(w)

RowsOn == (torn \subseteq torn') /\ (DrvSame \/ DrvNew) /\ ActsOn /\ RanOn /\ ReplyOn
StepOK ==
  /\ Typed' /\ Driven' /\ Apart' /\ RowsOn
  /\ \A w \in Workers : worker'[w] = worker[w] \/ WorkerOK(w)'

LEMMA Types ==
  ASSUME Typed
  PROVE  /\ act \in [Acts -> ActRow] /\ outbox \in [Acts -> OutRow] /\ desc \in DescRow
         /\ drv \in DrvRow /\ reply \in [Acts -> Replies] /\ worker \in [Workers -> Post]
         /\ ran \in [Acts -> SUBSET Nat]
         /\ drv.gen \in Nat /\ drv.phase \in Phases /\ drv.trigger \in 0 .. Activations
         /\ drv.live \in BOOLEAN /\ desc.gen \in Nat /\ desc.gen \in 0 .. Activations
         /\ \A a \in Acts : act[a].gen \in Nat /\ act[a] \in ActRow /\ outbox[a] \in OutRow
         /\ \A w \in Workers : /\ worker[w] \in Post /\ worker[w].gen \in Nat
                               /\ worker[w].record.gen \in Nat
  <1>1. /\ act \in [Acts -> ActRow] /\ outbox \in [Acts -> OutRow] /\ desc \in DescRow
        /\ drv \in DrvRow /\ reply \in [Acts -> Replies] /\ worker \in [Workers -> Post]
        /\ ran \in [Acts -> SUBSET Nat]
    BY DEF Typed
  <1>2. /\ drv.gen \in Nat /\ drv.phase \in Phases /\ drv.trigger \in 0 .. Activations
        /\ drv.live \in BOOLEAN
    BY <1>1 DEF DrvRow
  <1>3. desc.gen \in 0 .. Activations
    BY <1>1 DEF DescRow
  <1>4. desc.gen \in Nat
    BY <1>3, SubagentsAssumption
  <1>5. \A a \in Acts : act[a].gen \in Nat /\ act[a] \in ActRow /\ outbox[a] \in OutRow
    BY <1>1 DEF ActRow
  <1>6. \A w \in Workers : worker[w] \in Post
    BY <1>1
  <1>7. \A w \in Workers : worker[w].gen \in Nat /\ worker[w].record \in Record
    BY <1>6 DEF Post
  <1>8. \A w \in Workers : worker[w].record.gen \in Nat
    BY <1>7 DEF Record
  <1> QED
    BY <1>1, <1>2, <1>3, <1>4, <1>5, <1>6, <1>7, <1>8

LEMMA NumbersFact == Activations \in Nat /\ Acts \subseteq Nat /\ 0 \notin Acts /\ Acts = 1 .. Activations
  BY SubagentsAssumption DEF Acts

\* Activations after a step.
LEMMA RowsKept ==
  ASSUME SubInv, Typed', RowsOn, NEW a \in Acts
  PROVE  RowOK(a)' /\ RanOK(a)'
  <1>t. /\ RowOK(a) /\ RanOK(a) /\ Typed
        /\ drv.gen \in Nat /\ act[a].gen \in Nat /\ desc.gen \in Nat /\ desc'.gen \in Nat /\ a \in Nat
        /\ drv'.gen \in Nat
    <2>1. Typed => drv.gen \in Nat /\ act[a].gen \in Nat /\ desc.gen \in Nat
      BY Types
    <2>2. desc'.gen \in 0 .. Activations /\ drv'.gen \in Nat
      BY DEF Typed, DescRow, DrvRow
    <2> QED
      BY <2>1, <2>2, NumbersFact DEF SubInv
  <1>1. drv'.gen = drv.gen \/ drv'.gen = drv.gen + 1
    BY DEF RowsOn, DrvSame, DrvNew
  <1>2. ActSame(a) \/ ActHeld(a) \/ ActBound(a) \/ ActDone(a)
    BY DEF RowsOn, ActsOn
  <1>3. desc'.gen >= desc.gen
    BY DEF RowsOn, ActsOn
  <1>4. RowOK(a)'
    <2>1. CASE ActSame(a)
      BY <1>t, <1>1, <1>3, <2>1 DEF RowOK, ActSame, Open, Unbound
    <2>2. CASE ActHeld(a)
      BY <1>t, <1>1, <1>3, <2>2 DEF RowOK, ActHeld, Open, Unbound
    <2>3. CASE ActBound(a)
      BY <1>t, <1>1, <1>3, <2>3 DEF RowOK, ActBound, Open, Unbound, Ended
    <2>4. CASE ActDone(a)
      BY <1>t, <1>1, <1>3, <2>4 DEF RowOK, ActDone, Open, Unbound
    <2> QED
      BY <1>2, <2>1, <2>2, <2>3, <2>4
  <1>n. torn' = {} => torn = {}
    BY DEF RowsOn
  <1>5. CASE ran'[a] = ran[a]
    <2>1. \A g \in ran'[a] : g = act'[a].gen /\ g # 0 /\ (g = drv'.gen => drv'.phase # "reserved")
      <3> SUFFICES ASSUME NEW g \in ran[a]
                   PROVE  g = act'[a].gen /\ g # 0 /\ (g = drv'.gen => drv'.phase # "reserved")
        BY <1>5
      <3>1. g = act[a].gen /\ g # 0 /\ (g = drv.gen => drv.phase # "reserved") /\ act[a].gen <= drv.gen
        BY <1>t DEF RanOK, RowOK
      <3>2. act'[a].gen = act[a].gen
        BY <1>2 DEF ActSame, ActHeld, ActBound, ActDone
      <3>3. CASE DrvSame
        BY <3>1, <3>2, <3>3 DEF DrvSame
      <3>4. CASE DrvNew
        BY <1>t, <3>1, <3>2, <3>4 DEF DrvNew
      <3> QED
        BY <3>3, <3>4 DEF RowsOn
    <2>2. reply'[a] = "stop" => ran'[a] # {}
      <3>1. CASE reply'[a] = reply[a] \/ reply'[a] = "bad"
        BY <1>t, <1>5, <3>1 DEF RanOK
      <3>2. CASE \E w \in Workers : worker[w].at = "answer" /\ worker[w].a = a /\ Owns(w)
        BY <1>5, <3>2 DEF SubInv, WorkerOK, HasRun
      <3> QED
        BY <3>1, <3>2 DEF RowsOn, ReplyOn
    <2>3. outbox'[a].outcome = "succeeded" => reply'[a] = "stop"
      <3> SUFFICES ASSUME outbox'[a].outcome = "succeeded"
                   PROVE  reply'[a] = "stop"
        OBVIOUS
      <3>1. CASE ActDone(a)
        BY <3>1 DEF ActDone, Silent
      <3>2. CASE ActSame(a) \/ ActHeld(a) \/ ActBound(a)
        <4>1. outbox[a].outcome = "succeeded" /\ reply[a] = "stop"
          BY <1>t, <3>2 DEF ActSame, ActHeld, ActBound, RanOK
        <4>2. ~\E w \in Workers : worker[w].at = "answer" /\ worker[w].a = a /\ Owns(w)
          BY <4>1 DEF SubInv, WorkerOK, NotTwice, Owns
        <4> QED
          BY <4>1, <4>2 DEF RowsOn, ReplyOn
      <3> QED
        BY <1>2, <3>1, <3>2
    <2>4. torn' = {} /\ outbox'[a].outcome = "interrupted" => ran'[a] = {}
      BY <1>t, <1>2, <1>5, <1>n DEF ActSame, ActHeld, ActBound, ActDone, Silent, RanOK
    <2>5. torn' = {} /\ drv'.phase = "reserved" /\ drv'.trigger = a => ran'[a] = {}
      BY <1>t, <1>5, <1>n DEF RowsOn, DrvSame, DrvNew, RanOK
    <2> QED
      BY <1>4, <2>1, <2>2, <2>3, <2>4, <2>5 DEF RanOK
  <1>6. CASE ran'[a] # ran[a]
    <2>1. /\ UNCHANGED <<act, outbox, desc, reply>> /\ drv'.phase = "running" /\ DrvSame
      BY <1>6 DEF RowsOn, RanOn
    <2>2. PICK w \in Workers : /\ worker[w].at = "start" /\ Owns(w)
                               /\ ran' = [ran EXCEPT ![worker[w].a] = @ \cup {worker[w].gen}]
      BY <1>6 DEF RowsOn, RanOn
    <2>3. /\ worker[w].gen \in Nat /\ WorkerOK(w) /\ ran \in [Acts -> SUBSET Nat]
      BY <1>t, Types DEF SubInv
    <2>4. worker[w].a \in Acts
      BY <2>2, <2>3 DEF WorkerOK, Known
    <2>5. worker[w].a = a /\ ran'[a] = ran[a] \cup {worker[w].gen}
      BY <1>6, <2>2, <2>3, <2>4
    <2>6. /\ worker[w].gen # 0 /\ worker[w].gen = drv.gen /\ drv.phase # "idle"
          /\ act[a].state \in {"bound", "completed"} /\ worker[w].gen <= act[a].gen
          /\ act[a].gen <= drv.gen
      BY <1>t, <2>2, <2>3, <2>5 DEF WorkerOK, Known, Carrying, BoundTo, Owns, RowOK
    <2>7. worker[w].gen = act'[a].gen
      BY <1>t, <2>1, <2>3, <2>6
    <2>8. \A g \in ran'[a] : g = act'[a].gen /\ g # 0 /\ (g = drv'.gen => drv'.phase # "reserved")
      BY <1>t, <2>1, <2>5, <2>6, <2>7 DEF RanOK
    <2>9. outbox[a].outcome # "succeeded"
      BY <2>2, <2>3, <2>5, <2>6 DEF WorkerOK, NotTwice
    <2>10. torn = {} => outbox[a].outcome # "interrupted"
      BY <1>t, <2>2, <2>3, <2>5, <2>6 DEF WorkerOK, Late, RowOK
    <2>11. ran'[a] # {}
      BY <2>5
    <2> QED
      BY <1>4, <1>n, <2>1, <2>8, <2>9, <2>10, <2>11 DEF RanOK
  <1> QED
    BY <1>4, <1>5, <1>6

\* A worker that stays where it is.
LEMMA StayingKept ==
  ASSUME SubInv, Typed', RowsOn, NEW v \in Workers, worker'[v] = worker[v]
  PROVE  WorkerOK(v)'
  <1> DEFINE a == worker[v].a
  <1>t. /\ WorkerOK(v) /\ Typed /\ Apart
        /\ drv.gen \in Nat /\ drv'.gen \in Nat /\ worker[v].gen \in Nat /\ worker[v].record.gen \in Nat
    <2>1. Typed
      BY DEF SubInv
    <2>2. drv'.gen \in Nat
      BY DEF Typed, DrvRow
    <2> QED
      BY <2>1, <2>2, Types DEF SubInv
  <1>g. \/ drv'.gen = drv.gen /\ DrvSame
        \/ drv'.gen = drv.gen + 1 /\ DrvNew
    <2>1. DrvSame => drv'.gen = drv.gen
      BY DEF DrvSame
    <2>2. DrvNew => drv'.gen = drv.gen + 1
      BY DEF DrvNew
    <2> QED
      BY <2>1, <2>2 DEF RowsOn
  <1>n. torn' = {} => torn = {}
    BY DEF RowsOn
  <1>1. Known(v)'
    BY <1>t, <1>g DEF WorkerOK, Known
  <1>a. worker[v].at # "idle" =>
          /\ a \in Acts /\ act[a].gen \in Nat /\ RowOK(a)
          /\ ActSame(a) \/ ActHeld(a) \/ ActBound(a) \/ ActDone(a)
    BY <1>t, Types DEF WorkerOK, Known, RowsOn, ActsOn, SubInv
  <1>2. BoundTo(v)'
    <2> SUFFICES ASSUME worker[v].at \in {"start", "answer", "release"}
                 PROVE  act'[a].state \in {"bound", "completed"} /\ worker[v].gen <= act'[a].gen
      BY DEF BoundTo
    <2>1. act[a].state \in {"bound", "completed"} /\ worker[v].gen <= act[a].gen /\ worker[v].gen <= drv.gen
      BY <1>t DEF WorkerOK, BoundTo, Known
    <2> QED
      BY <1>a, <2>1 DEF ActSame, ActHeld, Unbound, ActBound, ActDone
  <1>r. a \in Acts => \/ ran'[a] = ran[a]
                      \/ \E w \in Workers : /\ worker[w].at = "start" /\ Owns(w) /\ worker[w].a = a
                                            /\ ran'[a] = ran[a] \cup {drv.gen}
    BY <1>t, Types DEF RowsOn, RanOn, Owns
  <1>3. Replays(v)'
    <2>1. worker[v].at = "rebind" => /\ worker[v].record.gen < drv.gen /\ a \in Acts
                                     /\ worker[v].record.gen \notin ran[a]
      BY <1>t, <1>a DEF WorkerOK, Replays, Known
    <2>2. worker[v].at = "rebind" => worker[v].record.gen \notin ran'[a]
      BY <1>t, <1>r, <2>1
    <2> QED
      BY <1>t, <2>2 DEF WorkerOK, Replays
  <1>4. HasRun(v)'
    BY <1>t, <1>a, <1>r DEF WorkerOK, HasRun
  <1>5. NotTwice(v)'
    <2> SUFFICES ASSUME worker[v].at \in {"start", "answer"}, outbox'[a].outcome = "succeeded"
                 PROVE  worker[v].gen # drv'.gen \/ drv'.phase = "idle"
      BY DEF NotTwice
    <2>1. worker[v].gen <= drv.gen
      BY <1>t DEF WorkerOK, Known
    <2>2. CASE drv'.gen = drv.gen + 1
      BY <1>t, <2>1, <2>2
    <2>3. CASE DrvSame
      <3>1. outbox[a].outcome = "succeeded" \/ ActDone(a)
        BY <1>a DEF ActSame, ActHeld, ActBound
      <3>2. worker[v].gen # drv.gen \/ drv.phase = "idle"
        BY <1>t, <3>1 DEF ActDone, Silent, WorkerOK, NotTwice
      <3> QED
        BY <2>3, <3>2 DEF DrvSame
    <2> QED
      BY <1>g, <2>2, <2>3
  <1>6. ASSUME torn' = {} PROVE Sees(v)'
    <2>1. Sees(v) /\ Replays(v) /\ torn = {}
      BY <1>t, <1>n, <1>6 DEF WorkerOK
    <2>2. ASSUME worker[v].at \in Looking
          PROVE  Exact(v)' /\ worker'[v].record.trigger = worker'[v].a
      <3>1. DrvSame
        BY <1>g, <2>1, <2>2 DEF DrvNew
      <3>2. Exact(v) /\ worker[v].record.trigger = worker[v].a /\ worker[v].record.phase # "idle"
        BY <2>1, <2>2 DEF Sees, Replays
      <3> QED
        BY <3>1, <3>2 DEF DrvSame, Exact
    <2>3. ASSUME worker[v].at = "rebind"
          PROVE  /\ worker[v].record.trigger = worker[v].a
                 /\ worker[v].gen = drv'.gen =>
                      drv'.trigger = worker[v].record.trigger /\ drv'.phase \in {"idle", "reserved"}
      <3>1. worker[v].gen <= drv.gen /\ worker[v].gen # 0
        BY <1>t, <2>3 DEF WorkerOK, Known, Carrying
      <3>2. /\ worker[v].record.trigger = worker[v].a
            /\ worker[v].gen = drv.gen =>
                 drv.trigger = worker[v].record.trigger /\ drv.phase \in {"idle", "reserved"}
        BY <2>1, <2>3 DEF Sees
      <3>3. CASE drv'.gen = drv.gen + 1
        BY <1>t, <3>1, <3>2, <3>3
      <3>4. CASE DrvSame
        <4> SUFFICES ASSUME worker[v].gen = drv.gen
                     PROVE  drv'.phase \in {"idle", "reserved"}
          BY <3>2, <3>4 DEF DrvSame
        <4>1. ~ \E w \in Workers : worker[w].at = "start" /\ Owns(w)
          BY <1>t, <2>3, <3>1 DEF Owns, Apart
        <4> QED
          BY <3>2, <3>4, <4>1 DEF DrvSame
      <3> QED
        BY <1>g, <3>3, <3>4
    <2> QED
      BY <2>2, <2>3 DEF Sees
  <1>7. ASSUME torn' = {} PROVE Holds(v)'
    <2> SUFFICES ASSUME worker[v].at = "reserve"
                 PROVE  /\ act'[a].gen = 0
                        /\ HoldsClaim(v)' \/ act'[a].state = "completed"
      BY DEF Holds
    <2>1. act[a].gen = 0 /\ (HoldsClaim(v) \/ act[a].state = "completed")
      BY <1>t, <1>n, <1>7 DEF WorkerOK, Holds
    <2>2. CASE ActSame(a)
      BY <2>1, <2>2 DEF ActSame, HoldsClaim
    <2>3. CASE ActHeld(a) \/ ActBound(a)
      BY <1>7, <2>1, <2>3 DEF ActHeld, ActBound, Unheld, Unbound, Open
    <2>4. CASE ActDone(a)
      BY <2>1, <2>4 DEF ActDone
    <2> QED
      BY <1>a, <2>2, <2>3, <2>4
  <1>8. ASSUME torn' = {} PROVE Late(v)'
    <2> SUFFICES ASSUME worker[v].at = "start", act'[a].state = "completed"
                 PROVE  ~Owns(v)'
      BY DEF Late
    <2>1. CASE drv'.gen = drv.gen + 1
      BY <1>t, <2>1 DEF WorkerOK, Known, Owns
    <2>2. CASE DrvSame
      <3>1. ActSame(a) \/ ActDone(a)
        BY <1>a DEF ActHeld, ActBound
      <3>2. ~Owns(v)
        BY <1>t, <1>n, <1>8, <3>1 DEF WorkerOK, Late, ActSame, ActDone, Silent
      <3> QED
        BY <2>2, <3>2 DEF DrvSame, Owns
    <2> QED
      BY <1>g, <2>1, <2>2
  <1> QED
    BY <1>1, <1>2, <1>3, <1>4, <1>5, <1>6, <1>7, <1>8 DEF WorkerOK

\* Together these keep the invariant.
LEMMA Kept ==
  ASSUME SubInv, StepOK
  PROVE  SubInv'
  BY RowsKept, StayingKept DEF StepOK, SubInv

-----------------------------------------------------------------------------
(* Steps of one worker. *)

Others(w) == \A v \in Workers \ {w} : worker'[v] = worker[v]
Resting == {"idle", "claim", "check", "undo", "fail", "wait", "fix"}

LEMMA OneMoves ==
  ASSUME SubInv, Typed', Driven', RowsOn, NEW w \in Workers, Others(w), WorkerOK(w)',
         worker'[w].gen \in {0, worker[w].gen, drv.gen + 1},
         torn' = {} /\ worker'[w].at \in Passing =>
           worker[w].at \in Passing \/ \A v \in Workers : worker[v].at \notin Passing
  PROVE  StepOK
  <1>1. torn' = {} => torn = {}
    BY DEF RowsOn
  <1>2. \A v \in Workers : worker[v].gen \in Nat /\ worker[v].gen <= drv.gen
    BY Types DEF SubInv, WorkerOK, Known
  <1>g. drv.gen \in Nat /\ Apart
    BY Types DEF SubInv
  <1>3. Apart'
    <2>1. ASSUME NEW v \in Workers, v # w
          PROVE  /\ worker'[v].gen # 0 => worker'[v].gen # worker'[w].gen
                 /\ worker'[w].gen # 0 => worker'[w].gen # worker'[v].gen
                 /\ torn' = {} => ~(worker'[v].at \in Passing /\ worker'[w].at \in Passing)
      <3>1. worker'[v] = worker[v]
        BY <2>1 DEF Others
      <3> QED
        BY <1>1, <1>2, <1>g, <2>1, <3>1 DEF Apart
    <2>2. ASSUME NEW u \in Workers, NEW v \in Workers, u # v, u # w, v # w
          PROVE  /\ worker'[u].gen # 0 => worker'[u].gen # worker'[v].gen
                 /\ torn' = {} => ~(worker'[u].at \in Passing /\ worker'[v].at \in Passing)
      BY <1>1, <1>g, <2>2 DEF Apart, Others
    <2> QED
      BY <2>1, <2>2 DEF Apart
  <1> QED
    BY <1>3 DEF StepOK, Others

LEMMA NobodyMoves ==
  ASSUME SubInv, Typed', Driven', RowsOn, worker' = worker
  PROVE  StepOK
  <1>1. Apart'
    BY DEF Apart, SubInv, RowsOn
  <1> QED
    BY <1>1 DEF StepOK

LEMMA Goes ==
  ASSUME Typed, NEW w \in Workers, NEW at \in Points, Goto(w, at)
  PROVE  /\ Others(w) /\ worker' \in [Workers -> Post]
         /\ worker'[w].at = at /\ worker'[w].a = worker[w].a /\ worker'[w].gen = worker[w].gen
         /\ worker'[w].tool = worker[w].tool /\ worker'[w].record = worker[w].record
  <1>1. worker \in [Workers -> Post] /\ worker[w] \in Post
    BY Types
  <1>2. worker'[w] = [worker[w] EXCEPT !.at = at] /\ Others(w)
    BY <1>1 DEF Goto, Others
  <1>3. worker'[w] \in Post
    BY <1>1, <1>2 DEF Post
  <1>4. worker' \in [Workers -> Post]
    BY <1>1, <1>2, <1>3 DEF Goto
  <1> QED
    BY <1>1, <1>2, <1>4 DEF Post

LEMMA IdleFact == /\ Idle \in Post /\ Idle.at = "idle" /\ Idle.gen = 0 /\ Idle.a = 0 /\ Idle.tool = FALSE
                  /\ Idle.record = NoRecord
  BY NumbersFact DEF Idle, Post, Points, Record, NoRecord, Phases

LEMMA Leaves ==
  ASSUME Typed, NEW w \in Workers, Leave(w)
  PROVE  /\ Others(w) /\ worker' \in [Workers -> Post] /\ worker'[w] = Idle
         /\ worker'[w].at = "idle" /\ worker'[w].gen = 0
  <1>1. worker \in [Workers -> Post] /\ worker[w] \in Post
    BY Types
  <1> QED
    BY <1>1, IdleFact DEF Leave, Others

LEMMA Yields ==
  ASSUME Typed, NEW w \in Workers, Yield(w)
  PROVE  /\ Others(w) /\ worker' \in [Workers -> Post] /\ worker'[w].at \in {"wait", "idle"}
         /\ worker'[w].at = "wait" => worker'[w].a = worker[w].a
         /\ worker'[w].gen \in {0, worker[w].gen}
  <1>1. CASE worker[w].tool
    <2>1. "wait" \in Points /\ Goto(w, "wait")
      BY <1>1 DEF Yield, Points
    <2> QED
      BY <2>1, Goes
  <1>2. CASE ~worker[w].tool
    BY <1>2, Leaves DEF Yield
  <1> QED
    BY <1>1, <1>2

\* Where nothing is relied on.
LEMMA Rests ==
  ASSUME SubInv, Typed', NEW w \in Workers, worker'[w].at \in Resting,
         worker'[w].at # "idle" => worker'[w].a \in Acts,
         worker'[w].gen <= drv'.gen
  PROVE  WorkerOK(w)'
  BY DEF WorkerOK, Known, BoundTo, Replays, HasRun, NotTwice, Sees, Holds, Late, Carrying, Looking, Resting

LEMMA RowsSame ==
  ASSUME SubInv, UNCHANGED <<act, outbox, desc, drv, ran, reply>>, torn \subseteq torn'
  PROVE  RowsOn /\ Driven'
  <1>1. drv.gen \in Nat /\ desc.gen \in Nat /\ Driven
    BY Types DEF SubInv
  <1>2. DrvSame /\ ActsOn
    BY <1>1 DEF DrvSame, ActsOn, ActSame, Ended
  <1> QED
    BY <1>1, <1>2 DEF RowsOn, RanOn, ReplyOn, Driven

LEMMA OneAct ==
  ASSUME SubInv, NEW a \in Acts,
         ActSame(a) \/ ActHeld(a) \/ ActBound(a) \/ ActDone(a),
         \A b \in Acts \ {a} : /\ act'[b] = act[b] /\ outbox'[b] = outbox[b]
                               /\ desc'.active = b <=> desc.active = b,
         desc'.gen >= desc.gen
  PROVE  ActsOn
  BY DEF ActsOn, ActSame, Ended

\* The driver stands still.
LEMMA RowsFollow ==
  ASSUME SubInv, ActsOn, UNCHANGED <<drv, ran, reply>>, torn \subseteq torn'
  PROVE  RowsOn /\ Driven'
  <1>1. drv.gen \in Nat /\ Driven
    BY Types DEF SubInv
  <1>2. DrvSame
    BY <1>1 DEF DrvSame
  <1> QED
    BY <1>1, <1>2 DEF RowsOn, RanOn, ReplyOn, Driven

\* Nothing but the driver moves, and it keeps its generation.
LEMMA DriverFollows ==
  ASSUME SubInv, DrvSame, UNCHANGED <<act, outbox, desc, ran>>, ReplyOn, torn \subseteq torn'
  PROVE  RowsOn /\ Driven'
  <1>1. desc.gen \in Nat /\ Driven
    BY Types DEF SubInv
  <1>2. ActsOn
    BY <1>1 DEF ActsOn, ActSame, Ended
  <1>3. Driven'
    BY <1>1 DEF Driven, DrvSame
  <1> QED
    BY <1>2, <1>3 DEF RowsOn, RanOn

-----------------------------------------------------------------------------
(* Completing an activation. *)

LEMMA Completion ==
  ASSUME SubInv, NEW a \in Acts, NEW outcome \in Outcomes, NEW applied \in BOOLEAN, Open(a),
         Complete(a, outcome), Settled(a, applied), Silent(a, outcome),
         UNCHANGED <<drv, ran, reply, torn>>
  PROVE  /\ RowsOn /\ Driven'
         /\ act' \in [Acts -> ActRow] /\ outbox' \in [Acts -> OutRow] /\ desc' \in DescRow
  <1>t. /\ act \in [Acts -> ActRow] /\ outbox \in [Acts -> OutRow] /\ desc \in DescRow
        /\ act[a] \in ActRow /\ RowOK(a) /\ desc.gen \in Nat /\ a # 0 /\ a \in 0 .. Activations
    BY Types, NumbersFact DEF SubInv
  <1>1. act'[a] = [act[a] EXCEPT !.state = "completed", !.live = FALSE]
    BY <1>t DEF Complete
  <1>2. act'[a].state = "completed" /\ act'[a].gen = act[a].gen /\ act'[a] \in ActRow
    BY <1>t, <1>1 DEF ActRow
  <1>3. act' \in [Acts -> ActRow]
    BY <1>t, <1>1, <1>2 DEF Complete
  <1>4. outbox'[a] = [state |-> "ready", outcome |-> outcome] /\ outbox' \in [Acts -> OutRow]
    BY <1>t DEF Complete, OutRow
  <1>5. desc.active = a
    BY <1>t DEF RowOK
  <1>6. PICK x \in 0 .. Activations : desc' = [desc EXCEPT !.active = 0, !.applied = x]
    <2>1. CASE applied
      BY <1>t, <1>5, <2>1 DEF Settled, DescRow
    <2>2. CASE ~applied
      <3>1. desc.applied \in 0 .. Activations
        BY <1>t DEF DescRow
      <3> QED
        BY <1>t, <1>5, <2>2, <3>1 DEF Settled, DescRow
    <2> QED
      BY <2>1, <2>2
  <1>7. desc' \in DescRow /\ desc'.active = 0 /\ desc'.gen = desc.gen
    <2>1. 0 \in 0 .. Activations
      BY NumbersFact
    <2> QED
      BY <1>t, <1>6, <2>1 DEF DescRow
  <1>8. ActDone(a)
    BY <1>t, <1>2, <1>4, <1>7 DEF ActDone, Ended
  <1>9. \A b \in Acts \ {a} : /\ act'[b] = act[b] /\ outbox'[b] = outbox[b]
                              /\ desc'.active = b <=> desc.active = b
    BY <1>t, <1>5, <1>7, NumbersFact DEF Complete
  <1>10. ActsOn
    BY <1>t, <1>7, <1>8, <1>9, OneAct
  <1> QED
    BY <1>3, <1>4, <1>7, <1>10, RowsFollow

\* An activation that is not bound has not begun, and nobody is about to begin.
LEMMA NotBegun ==
  ASSUME SubInv, NEW a \in Acts, Unbound(a)
  PROVE  ran[a] = {} /\ act[a].gen = 0 /\ Silent(a, "interrupted")
  <1>1. act[a].gen = 0 /\ ran[a] = {}
    BY DEF SubInv, RowOK, RanOK
  <1>2. \A v \in Workers : worker[v].at = "start" => worker[v].a # a
    BY DEF SubInv, WorkerOK, BoundTo, Unbound
  <1> QED
    BY <1>1, <1>2 DEF Silent

\* A step in which an activation is completed and a worker moves on.
LEMMA CompletionStep ==
  ASSUME SubInv, NEW a \in Acts, NEW outcome \in Outcomes, NEW applied \in BOOLEAN, Open(a),
         Complete(a, outcome), Settled(a, applied), Silent(a, outcome),
         UNCHANGED <<drv, status, reply, aborts, ran, torn>>,
         NEW w \in Workers, Others(w), worker' \in [Workers -> Post],
         worker'[w].at \in Resting, worker'[w].at # "idle" => worker'[w].a \in Acts,
         worker'[w].gen \in {0, worker[w].gen},
         worker'[w].at \in Passing => worker[w].at \in Passing
  PROVE  StepOK
  <1>1. /\ RowsOn /\ Driven'
        /\ act' \in [Acts -> ActRow] /\ outbox' \in [Acts -> OutRow] /\ desc' \in DescRow
    BY Completion
  <1>2. Typed'
    BY <1>1 DEF Typed, SubInv
  <1>3. worker[w].gen <= drv.gen /\ drv.gen \in Nat /\ worker[w].gen \in Nat
    BY Types DEF SubInv, WorkerOK, Known
  <1>4. WorkerOK(w)'
    BY <1>2, <1>3, Rests
  <1> QED
    BY <1>1, <1>2, <1>4, OneMoves

\* The same for a pass that goes on to the repair of the child.
LEMMA PassStep ==
  ASSUME SubInv, Typed', Driven', RowsOn, NEW w \in Workers, Goto(w, "repair"), drv' = drv, torn' = torn,
         worker[w].at \in {"unknown", "pending", "blocks"}
  PROVE  StepOK
  <1>1. /\ Others(w) /\ worker'[w].at = "repair" /\ worker'[w].a = worker[w].a
        /\ worker'[w].gen = worker[w].gen /\ worker'[w].record = worker[w].record
    BY Goes DEF SubInv, Points
  <1>2. WorkerOK(w)
    BY DEF SubInv
  <1>3. WorkerOK(w)'
    BY <1>1, <1>2 DEF WorkerOK, Known, BoundTo, Replays, HasRun, NotTwice, Sees, Holds, Late, Carrying, Looking, Exact
  <1> QED
    BY <1>1, <1>3, OneMoves DEF Passing

LEMMA CompletingSteps ==
  ASSUME SubInv, NEW w \in Workers
  PROVE  /\ ToolCompletes(w) => StepOK
         /\ RecoveredCompletes(w) => StepOK
         /\ Unknown(w) => StepOK
         /\ Pending(w) => StepOK
  <1> DEFINE a == worker[w].a
  <1>t. /\ Typed /\ WorkerOK(w) /\ worker \in [Workers -> Post] /\ worker[w].gen \in Nat /\ drv.gen \in Nat
        /\ worker[w].gen <= drv.gen /\ drv.phase \in Phases
    BY Types DEF SubInv, WorkerOK, Known
  <1>a. worker[w].at # "idle" => a \in Acts
    BY <1>t DEF WorkerOK, Known
  <1>c. TRUE \in BOOLEAN /\ FALSE \in BOOLEAN /\ "interrupted" \in Outcomes /\ "outcome_unknown" \in Outcomes
        /\ Transcript(a) \in Outcomes
    BY DEF Outcomes, Transcript
  \* nobody else is of this worker's generation
  <1>s. ASSUME worker[w].at = "complete", NEW v \in Workers, worker[v].at \in {"start", "answer"}
        PROVE  worker[v].gen # worker[w].gen
    <2>1. v # w /\ worker[w].gen # 0
      BY <1>t, <1>s DEF WorkerOK, Known, Carrying
    <2> QED
      BY <2>1 DEF SubInv, Apart
  <1>u. ASSUME UNCHANGED <<act, outbox, desc, drv, status, reply, aborts, ran, torn>>,
               Others(w), worker' \in [Workers -> Post], worker'[w].at \in Resting,
               worker'[w].at # "idle" => worker'[w].a \in Acts,
               worker'[w].gen \in {0, worker[w].gen}, worker'[w].at \notin Passing
        PROVE  StepOK
    <2>1. RowsOn /\ Driven' /\ Typed'
      BY <1>t, <1>u, RowsSame DEF Typed
    <2>2. WorkerOK(w)'
      BY <1>t, <1>u, <2>1, Rests
    <2> QED
      BY <1>u, <2>1, <2>2, OneMoves
  <1>1. ASSUME ToolCompletes(w) PROVE StepOK
    <2>1. worker[w].at = "complete" /\ a \in Acts
      BY <1>1, <1>a DEF ToolCompletes
    <2>2. /\ Others(w) /\ worker' \in [Workers -> Post] /\ worker'[w].at = "wait"
          /\ worker'[w].a = worker[w].a /\ worker'[w].gen = worker[w].gen
      BY <1>1, <1>t, Goes DEF ToolCompletes, Points
    <2>3. worker'[w].at \in Resting /\ worker'[w].at \notin Passing
      BY <2>2 DEF Resting, Passing
    <2>4. CASE Disposition(w) = "wait"
      BY <1>1, <1>u, <2>1, <2>2, <2>3, <2>4 DEF ToolCompletes
    <2>5. CASE Disposition(w) # "wait"
      <3>1. act[a].state = "bound" /\ drv.gen = worker[w].gen /\ drv.phase # "reserved"
        BY <2>5 DEF Disposition
      <3>2. Disposition(w) = IF drv.phase = "idle" THEN Transcript(a) ELSE "outcome_unknown"
        BY <2>5, <3>1 DEF Disposition
      <3>3. Disposition(w) \in Outcomes /\ Open(a)
        BY <1>c, <3>1, <3>2 DEF Open
      <3>4. Silent(a, Disposition(w))
        BY <1>s, <2>1, <3>1, <3>2 DEF Silent, Transcript, Owns
      <3> QED
        BY <1>1, <1>c, <2>1, <2>2, <2>3, <2>5, <3>3, <3>4, CompletionStep DEF ToolCompletes
    <2> QED
      BY <2>4, <2>5
  <1>2. ASSUME RecoveredCompletes(w) PROVE StepOK
    <2>1. worker[w].at = "complete" /\ a \in Acts
      BY <1>2, <1>a DEF RecoveredCompletes
    <2>2. /\ Others(w) /\ worker' \in [Workers -> Post] /\ worker'[w].at = "idle" /\ worker'[w].gen = 0
      BY <1>2, <1>t, Leaves DEF RecoveredCompletes
    <2>3. worker'[w].at \in Resting /\ worker'[w].at \notin Passing
      BY <2>2 DEF Resting, Passing
    <2>4. CASE ~(act[a].state = "bound" /\ act[a].gen = worker[w].gen /\ drv.gen = worker[w].gen)
      BY <1>2, <1>u, <2>1, <2>2, <2>3, <2>4 DEF RecoveredCompletes
    <2>5. CASE act[a].state = "bound" /\ act[a].gen = worker[w].gen /\ drv.gen = worker[w].gen
      <3>1. Open(a)
        BY <2>5 DEF Open
      <3>2. Silent(a, Transcript(a))
        BY <1>s, <2>1, <2>5 DEF Silent, Transcript, Owns
      <3>3. Complete(a, Transcript(a)) /\ Settled(a, FALSE)
        BY <1>2, <2>5 DEF RecoveredCompletes
      <3> QED
        BY <1>2, <1>c, <2>1, <2>2, <2>3, <3>1, <3>2, <3>3, CompletionStep DEF RecoveredCompletes
    <2> QED
      BY <2>4, <2>5
  <1>3. ASSUME Unknown(w) PROVE StepOK
    <2>1. worker[w].at = "unknown" /\ a \in Acts /\ Goto(w, "repair") /\ UNCHANGED <<drv, status, reply, aborts, ran, torn>>
      BY <1>3, <1>a DEF Unknown
    <2>2. worker' \in [Workers -> Post]
      BY <1>t, <2>1, Goes DEF Points
    <2>3. RowsOn /\ Driven' /\ Typed'
      <3>1. CASE ~Ambiguous(w)
        <4>1. UNCHANGED <<act, desc, outbox>>
          BY <1>3, <3>1 DEF Unknown
        <4> QED
          BY <1>t, <2>1, <2>2, <4>1, RowsSame DEF Typed
      <3>2. CASE Ambiguous(w)
        <4>1. Complete(a, "outcome_unknown") /\ Settled(a, FALSE) /\ Open(a)
          BY <1>3, <3>2 DEF Unknown, Ambiguous, Open
        <4>2. torn = {} => ~drv.live
          BY <1>t, <2>1 DEF WorkerOK, Sees, Looking, Exact
        <4>3. Silent(a, "outcome_unknown")
          BY <4>2 DEF Silent, Owns
        <4>4. /\ RowsOn /\ Driven'
              /\ act' \in [Acts -> ActRow] /\ outbox' \in [Acts -> OutRow] /\ desc' \in DescRow
          BY <1>c, <2>1, <4>1, <4>3, Completion
        <4> QED
          BY <1>t, <2>1, <2>2, <4>4 DEF Typed
      <3> QED
        BY <3>1, <3>2
    <2> QED
      BY <2>1, <2>3, PassStep
  <1>4. ASSUME Pending(w) PROVE StepOK
    <2>1. worker[w].at = "pending" /\ a \in Acts /\ UNCHANGED <<drv, status, reply, aborts, ran, torn>>
      BY <1>4, <1>a DEF Pending
    <2>2. CASE Open(a) /\ Interrupted(a)
      <3>1. Complete(a, "interrupted") /\ Settled(a, TRUE) /\ Goto(w, "repair")
        BY <1>4, <2>2 DEF Pending
      <3>2. torn = {} => ~drv.live /\ ran[a] = {}
        BY <1>t, <2>1 DEF WorkerOK, Sees, Replays, Looking, Exact, SubInv, RanOK
      <3>3. Silent(a, "interrupted")
        BY <3>2 DEF Silent, Owns
      <3>4. /\ RowsOn /\ Driven'
            /\ act' \in [Acts -> ActRow] /\ outbox' \in [Acts -> OutRow] /\ desc' \in DescRow
        BY <1>c, <2>1, <2>2, <3>1, <3>3, Completion
      <3>5. worker' \in [Workers -> Post]
        BY <1>t, <3>1, Goes DEF Points
      <3>6. Typed'
        BY <1>t, <2>1, <3>4, <3>5 DEF Typed
      <3> QED
        BY <2>1, <3>1, <3>4, <3>6, PassStep
    <2>3. CASE ~(Open(a) /\ Interrupted(a))
      <3>1. UNCHANGED <<act, outbox, desc>> /\ Goto(w, "take")
        BY <1>4, <2>3 DEF Pending
      <3>2. /\ Others(w) /\ worker' \in [Workers -> Post] /\ worker'[w].at = "take" /\ worker'[w].a = worker[w].a
            /\ worker'[w].gen = worker[w].gen /\ worker'[w].record = worker[w].record
        BY <1>t, <3>1, Goes DEF Points
      <3>3. RowsOn /\ Driven' /\ Typed'
        BY <1>t, <2>1, <3>1, <3>2, RowsSame DEF Typed
      <3>4. WorkerOK(w)'
        BY <1>t, <2>1, <3>2 DEF WorkerOK, Known, BoundTo, Replays, HasRun, NotTwice, Sees, Holds, Late, Carrying, Looking, Exact
      <3> QED
        BY <2>1, <3>2, <3>3, <3>4, OneMoves DEF Passing
    <2> QED
      BY <2>2, <2>3
  <1> QED
    BY <1>1, <1>2, <1>3, <1>4

-----------------------------------------------------------------------------
(* Claims. *)

LEMMA Claiming ==
  ASSUME SubInv, NEW a \in Acts, act[a].state \in {"accepted", "claimed"}, NEW row \in ActRow,
         row.state \in {"accepted", "claimed"}, row.gen = act[a].gen,
         act' = [act EXCEPT ![a] = row], UNCHANGED <<outbox, desc>>, Unheld(a)
  PROVE  ActsOn /\ act' \in [Acts -> ActRow]
  <1>t. act \in [Acts -> ActRow] /\ RowOK(a) /\ desc.gen \in Nat
    BY Types DEF SubInv
  <1>1. act'[a] = row /\ act' \in [Acts -> ActRow] /\ \A b \in Acts \ {a} : act'[b] = act[b]
    BY <1>t
  <1>2. desc.active = a /\ ~Ended(a)
    BY <1>t DEF RowOK, Open
  <1>3. ActHeld(a)
    BY <1>1, <1>2 DEF ActHeld, Unbound, Ended
  <1> QED
    BY <1>t, <1>1, <1>3, OneAct

\* The worker that gives its claim back moves on.
LEMMA Abandoning ==
  ASSUME SubInv, NEW w \in Workers, worker[w].a \in Acts, Abandon(w), worker'[w] # worker[w],
         UNCHANGED <<outbox, desc>>
  PROVE  ActsOn /\ act' \in [Acts -> ActRow]
  <1> DEFINE a == worker[w].a
  <1>t. act \in [Acts -> ActRow] /\ act[a] \in ActRow /\ desc.gen \in Nat
    BY Types DEF SubInv
  <1>1. CASE act[a].state = "claimed" /\ act[a].owner = w
    <2> DEFINE row == [act[a] EXCEPT !.state = "accepted", !.owner = None, !.live = FALSE]
    <2>1. row \in ActRow /\ row.state = "accepted" /\ row.gen = act[a].gen
      BY <1>t DEF ActRow
    <2>2. act' = [act EXCEPT ![a] = row]
      BY <1>t, <1>1 DEF Abandon
    <2>3. Unheld(a)
      BY <1>1 DEF Unheld, HoldsClaim
    <2> QED
      BY <1>1, <2>1, <2>2, <2>3, Claiming
  <1>2. CASE ~(act[a].state = "claimed" /\ act[a].owner = w)
    <2>1. act' = act
      BY <1>2 DEF Abandon
    <2> QED
      BY <1>t, <2>1 DEF ActsOn, ActSame, Ended
  <1> QED
    BY <1>1, <1>2

LEMMA Taking ==
  ASSUME SubInv, NEW w \in Workers, NEW a \in Acts, Take(w, a),
         (worker[w].at = "claim" /\ worker[w].a = a) \/ worker[w] = Idle,
         UNCHANGED <<drv, status, reply, aborts, ran, torn>>
  PROVE  StepOK
  <1>t. /\ Typed /\ WorkerOK(w) /\ worker \in [Workers -> Post] /\ worker[w] \in Post
        /\ worker[w].gen \in Nat /\ drv.gen \in Nat
        /\ worker[w].gen <= drv.gen /\ act[a] \in ActRow /\ act \in [Acts -> ActRow]
    BY Types DEF SubInv, WorkerOK, Known
  <1>n. a \in 0 .. Activations
    BY NumbersFact
  <1>c. Claimable(a) /\ act[a].state \in {"accepted", "claimed"}
    BY DEF Take, Claimable
  <1>1. CASE ~Interrupted(a)
    <2> DEFINE row == [act[a] EXCEPT !.state = "claimed", !.owner = w, !.live = TRUE]
    <2>1. row \in ActRow /\ row.state = "claimed" /\ row.gen = act[a].gen
      BY <1>t DEF ActRow
    <2>2. /\ act' = [act EXCEPT ![a] = row] /\ UNCHANGED <<outbox, desc>>
          /\ worker' = [worker EXCEPT ![w].at = "check", ![w].a = a]
      BY <1>t, <1>1 DEF Take
    <2>3. worker'[w] = [worker[w] EXCEPT !.at = "check", !.a = a] /\ Others(w)
      BY <1>t, <2>2 DEF Others
    <2>4. worker'[w] \in Post /\ worker'[w].at = "check" /\ worker'[w].a = a /\ worker'[w].gen = worker[w].gen
      BY <1>t, <1>n, <2>3 DEF Post, Points
    <2>5. worker' \in [Workers -> Post]
      BY <1>t, <2>2, <2>3, <2>4
    <2>6. Unheld(a)
      BY <1>c DEF Unheld, HoldsClaim, Claimable
    <2>7. ActsOn /\ act' \in [Acts -> ActRow]
      BY <1>c, <2>1, <2>2, <2>6, Claiming
    <2>8. RowsOn /\ Driven' /\ Typed'
      BY <1>t, <2>2, <2>5, <2>7, RowsFollow DEF Typed
    <2>9. WorkerOK(w)'
      BY <1>t, <2>4, <2>8, Rests DEF Resting
    <2> QED
      BY <2>3, <2>4, <2>8, <2>9, OneMoves DEF Passing
  <1>2. CASE Interrupted(a)
    <2>1. Complete(a, "interrupted") /\ Settled(a, TRUE) /\ Yield(w)
      BY <1>2 DEF Take
    <2>2. Open(a) /\ Silent(a, "interrupted")
      BY <1>c, NotBegun DEF Open, Unbound
    <2>3. /\ Others(w) /\ worker' \in [Workers -> Post] /\ worker'[w].at \in {"wait", "idle"}
          /\ worker'[w].at = "wait" => worker'[w].a = worker[w].a
          /\ worker'[w].gen \in {0, worker[w].gen}
      BY <1>t, <2>1, Yields
    <2>4. worker'[w].at # "idle" => worker'[w].a \in Acts
      <3>1. CASE worker[w] = Idle
        BY <1>t, <2>1, <3>1, Leaves, IdleFact DEF Yield
      <3>2. CASE worker[w].a = a
        BY <2>3, <3>2
      <3> QED
        BY <3>1, <3>2
    <2> QED
      BY <2>1, <2>2, <2>3, <2>4, CompletionStep DEF Resting, Passing, Outcomes
  <1> QED
    BY <1>1, <1>2

LEMMA ClaimSteps ==
  ASSUME SubInv, NEW w \in Workers
  PROVE  /\ ToolClaims(w) => StepOK
         /\ ScannerClaims(w) => StepOK
         /\ Check(w) => StepOK
         /\ Accept(w) => StepOK
  <1> DEFINE a == worker[w].a
  <1>t. /\ Typed /\ WorkerOK(w) /\ worker \in [Workers -> Post] /\ worker[w] \in Post
        /\ worker[w].gen \in Nat /\ drv.gen \in Nat /\ desc.gen \in Nat
        /\ worker[w].gen <= drv.gen /\ act \in [Acts -> ActRow] /\ outbox \in [Acts -> OutRow]
        /\ desc \in DescRow
    BY Types DEF SubInv, WorkerOK, Known
  <1>a. worker[w].at # "idle" => a \in Acts
    BY <1>t DEF WorkerOK, Known
  <1>1. ASSUME ToolClaims(w) PROVE StepOK
    <2>1. /\ worker[w].at = "claim" /\ a \in Acts
          /\ UNCHANGED <<drv, status, reply, aborts, parent, shown, ran, spent, torn>>
      BY <1>1, <1>a DEF ToolClaims
    <2>2. CASE Take(w, a)
      BY <2>1, <2>2, Taking
    <2>3. CASE Goto(w, "wait") /\ UNCHANGED <<act, outbox, desc>>
      <3>1. /\ Others(w) /\ worker' \in [Workers -> Post] /\ worker'[w].at = "wait" /\ worker'[w].a = a
            /\ worker'[w].gen = worker[w].gen
        BY <1>t, <2>3, Goes DEF Points
      <3>2. RowsOn /\ Driven' /\ Typed'
        BY <1>t, <2>1, <2>3, <3>1, RowsSame DEF Typed
      <3>3. WorkerOK(w)'
        BY <1>t, <2>1, <3>1, <3>2, Rests DEF Resting
      <3> QED
        BY <3>1, <3>2, <3>3, OneMoves DEF Passing
    <2> QED
      BY <1>1, <2>2, <2>3 DEF ToolClaims
  <1>2. ASSUME ScannerClaims(w) PROVE StepOK
    BY <1>2, Taking DEF ScannerClaims
  <1>3. ASSUME Check(w) PROVE StepOK
    <2>1. /\ worker[w].at = "check" /\ a \in Acts
          /\ UNCHANGED <<desc, outbox, drv, status, reply, aborts, ran, torn>>
      BY <1>3, <1>a DEF Check
    <2>2. CASE HoldsClaim(w) /\ Goto(w, "reserve") /\ UNCHANGED act
      <3>1. /\ Others(w) /\ worker' \in [Workers -> Post] /\ worker'[w].at = "reserve" /\ worker'[w].a = a
            /\ worker'[w].gen = worker[w].gen
        BY <1>t, <2>2, Goes DEF Points
      <3>2. RowsOn /\ Driven' /\ Typed'
        BY <1>t, <2>1, <2>2, <3>1, RowsSame DEF Typed
      <3>3. act[a].gen = 0
        BY <2>1, <2>2, NotBegun DEF HoldsClaim, Unbound
      <3>4. HoldsClaim(w)'
        BY <2>2, <3>1 DEF HoldsClaim
      <3>5. WorkerOK(w)'
        BY <1>t, <2>1, <2>2, <3>1, <3>3, <3>4 DEF WorkerOK, Known, BoundTo, Replays, HasRun, NotTwice, Sees, Holds, Late, Carrying, Looking
      <3> QED
        BY <3>1, <3>2, <3>5, OneMoves DEF Passing
    <2>3. CASE Abandon(w) /\ Yield(w)
      <3>1. /\ Others(w) /\ worker' \in [Workers -> Post] /\ worker'[w].at \in {"wait", "idle"}
            /\ worker'[w].at = "wait" => worker'[w].a = a
            /\ worker'[w].gen \in {0, worker[w].gen}
        BY <1>t, <2>3, Yields
      <3>2. ActsOn /\ act' \in [Acts -> ActRow]
        BY <2>1, <2>3, <3>1, Abandoning
      <3>3. RowsOn /\ Driven' /\ Typed'
        BY <1>t, <2>1, <3>1, <3>2, RowsFollow DEF Typed
      <3>4. WorkerOK(w)'
        BY <1>t, <2>1, <3>1, <3>3, Rests DEF Resting
      <3> QED
        BY <3>1, <3>3, <3>4, OneMoves DEF Passing
    <2> QED
      BY <1>3, <2>2, <2>3 DEF Check
  <1>4. ASSUME Accept(w) PROVE StepOK
    <2>0. PICK b \in Acts : b = desc.gen + 1
      BY <1>4 DEF Accept
    <2>1. /\ b \in Acts /\ worker[w] = Idle /\ desc.active = 0 /\ Tears("dispatch")
          /\ status' = "idle" /\ UNCHANGED <<drv, reply, aborts, ran>>
          /\ act' = [act EXCEPT ![b].state = "accepted"]
          /\ outbox' = [outbox EXCEPT ![b].state = "waiting"]
          /\ desc' = [gen |-> b, active |-> b, requested |-> 0, applied |-> 0]
          /\ worker' = [worker EXCEPT ![w] = [Idle EXCEPT !.at = "claim", !.a = b, !.tool = TRUE]]
      BY <1>4, <2>0 DEF Accept
    <2>2. b \in 0 .. Activations /\ 0 \in 0 .. Activations
      BY <2>1, NumbersFact
    <2>3. desc' \in DescRow /\ desc'.active = b /\ desc'.gen = b
      BY <2>1, <2>2 DEF DescRow
    <2>4. RowOK(b) /\ act[b] \in ActRow /\ outbox[b] \in OutRow
      BY <1>t, <2>1 DEF SubInv
    <2>5. act[b].state = "none"
      BY <1>t, <2>0, <2>4 DEF RowOK
    <2>6. act'[b] = [act[b] EXCEPT !.state = "accepted"] /\ outbox'[b] = [outbox[b] EXCEPT !.state = "waiting"]
      BY <1>t, <2>1
    <2>7. /\ act'[b] \in ActRow /\ act'[b].state = "accepted" /\ act'[b].gen = act[b].gen
          /\ outbox'[b] \in OutRow /\ outbox'[b].state = "waiting" /\ outbox'[b].outcome = outbox[b].outcome
      BY <2>4, <2>6 DEF ActRow, OutRow
    <2>8. act' \in [Acts -> ActRow] /\ outbox' \in [Acts -> OutRow]
      BY <1>t, <2>1, <2>6, <2>7
    <2>9. ActHeld(b)
      <3>1. Unheld(b)
        BY <2>5 DEF Unheld, HoldsClaim
      <3>2. ~Ended(b)' /\ b <= desc'.gen
        BY <1>t, <2>0, <2>3, <2>7 DEF Ended
      <3> QED
        BY <2>3, <2>5, <2>7, <3>1, <3>2 DEF ActHeld, Unbound
    <2>10. \A c \in Acts \ {b} : /\ act'[c] = act[c] /\ outbox'[c] = outbox[c]
                                 /\ desc'.active = c <=> desc.active = c
      BY <1>t, <2>1, <2>3, NumbersFact
    <2>11. ActsOn
      BY <1>t, <2>0, <2>1, <2>3, <2>9, <2>10, OneAct
    <2>12. torn \subseteq torn' /\ torn' \subseteq Windows
      BY <1>t, <2>1 DEF Tears, Typed, Windows
    <2>13. /\ worker'[w] = [Idle EXCEPT !.at = "claim", !.a = b, !.tool = TRUE] /\ Others(w)
      BY <1>t, <2>1 DEF Others
    <2>14. worker'[w] \in Post /\ worker'[w].at = "claim" /\ worker'[w].a = b /\ worker'[w].gen = 0
      BY <2>2, <2>13, IdleFact DEF Post, Points
    <2>15. worker' \in [Workers -> Post]
      BY <1>t, <2>1, <2>13, <2>14
    <2>16. RowsOn /\ Driven' /\ Typed'
      BY <1>t, <2>1, <2>3, <2>8, <2>11, <2>12, <2>15, RowsFollow DEF Typed
    <2>17. WorkerOK(w)'
      BY <1>t, <2>1, <2>14, <2>16, Rests DEF Resting
    <2> QED
      BY <2>13, <2>14, <2>16, <2>17, OneMoves DEF Passing
  <1> QED
    BY <1>1, <1>2, <1>3, <1>4

-----------------------------------------------------------------------------
(* Reservations and bindings. *)

LEMMA Binding ==
  ASSUME SubInv, NEW a \in Acts, Open(a), ran[a] = {}, NEW row \in ActRow,
         row.state = "bound", row.gen = drv.gen, act' = [act EXCEPT ![a] = row],
         UNCHANGED <<outbox, desc, drv, ran, reply>>, torn \subseteq torn', Unheld(a)
  PROVE  RowsOn /\ Driven' /\ act' \in [Acts -> ActRow]
  <1>t. act \in [Acts -> ActRow] /\ RowOK(a) /\ desc.gen \in Nat
    BY Types DEF SubInv
  <1>1. act'[a] = row /\ act' \in [Acts -> ActRow] /\ \A b \in Acts \ {a} : act'[b] = act[b]
    BY <1>t
  <1>2. ActBound(a)
    BY <1>1 DEF ActBound
  <1>3. ActsOn
    BY <1>t, <1>1, <1>2, OneAct
  <1> QED
    BY <1>1, <1>3, RowsFollow

LEMMA Releasing ==
  ASSUME SubInv, NEW w \in Workers, NEW result \in {"idle", "error"}, Release(w, result)
  PROVE  DrvSame /\ drv' \in DrvRow /\ status' \in {"idle", "busy", "error"}
  <1>t. drv \in DrvRow /\ status \in {"idle", "busy", "error"} /\ drv.gen \in Nat
    BY Types DEF SubInv, Typed
  <1>1. CASE Owns(w)
    <2>1. drv' = [drv EXCEPT !.phase = "idle", !.live = FALSE, !.abort = FALSE] /\ status' = result
      BY <1>1 DEF Release
    <2>2. /\ drv' \in DrvRow /\ drv'.phase = "idle" /\ drv'.live = FALSE
          /\ drv'.gen = drv.gen /\ drv'.trigger = drv.trigger
      BY <1>t, <2>1 DEF DrvRow, Phases
    <2>3. drv.live
      BY <1>1 DEF Owns
    <2> QED
      BY <2>1, <2>2, <2>3 DEF DrvSame
  <1>2. CASE ~Owns(w)
    <2>1. drv' = drv /\ status' = status
      BY <1>2 DEF Release
    <2> QED
      BY <1>t, <2>1 DEF DrvSame
  <1> QED
    BY <1>1, <1>2

LEMMA NewDriver ==
  ASSUME SubInv, DrvNew, drv'.trigger \in Acts, UNCHANGED <<act, outbox, desc, reply, torn>>
  PROVE  RowsOn /\ Driven'
  <1>1. desc.gen \in Nat
    BY Types DEF SubInv
  <1>2. ActsOn
    BY <1>1 DEF ActsOn, ActSame, Ended
  <1> QED
    BY <1>2 DEF RowsOn, RanOn, ReplyOn, Driven, DrvNew

LEMMA ReserveStep ==
  ASSUME SubInv, NEW w \in Workers, Reserve(w)
  PROVE  StepOK
  <1> DEFINE a == worker[w].a
  <1>t. /\ Typed /\ WorkerOK(w) /\ worker \in [Workers -> Post] /\ worker[w] \in Post
        /\ worker[w].gen \in Nat /\ drv.gen \in Nat
        /\ worker[w].gen <= drv.gen /\ drv \in DrvRow
    BY Types DEF SubInv, WorkerOK, Known
  <1>a. /\ worker[w].at = "reserve" /\ a \in Acts
        /\ UNCHANGED <<desc, outbox, reply, aborts, ran, torn>>
    BY <1>t DEF WorkerOK, Known, Reserve
  <1>1. CASE drv.phase = "idle"
    <2>1. /\ drv' = [phase |-> "reserved", gen |-> drv.gen + 1, trigger |-> a,
                     live |-> TRUE, abort |-> FALSE]
          /\ status' = "busy" /\ act' = act
          /\ worker' = [worker EXCEPT ![w].at = "bind", ![w].gen = drv.gen + 1]
      BY <1>1 DEF Reserve
    <2>2. a \in 0 .. Activations
      BY <1>a, NumbersFact
    <2>3. drv' \in DrvRow /\ drv'.gen = drv.gen + 1 /\ drv'.trigger = a /\ drv'.phase = "reserved"
      BY <1>t, <2>1, <2>2 DEF DrvRow, Phases
    <2>4. worker'[w] = [worker[w] EXCEPT !.at = "bind", !.gen = drv.gen + 1] /\ Others(w)
      BY <1>t, <2>1 DEF Others
    <2>5. worker'[w] \in Post /\ worker'[w].at = "bind" /\ worker'[w].a = a /\ worker'[w].gen = drv.gen + 1
      <3>1. drv.gen + 1 \in Nat /\ "bind" \in Points
        BY <1>t DEF Points
      <3> QED
        BY <1>t, <2>4, <3>1 DEF Post
    <2>6. worker' \in [Workers -> Post]
      BY <1>t, <2>1, <2>4, <2>5
    <2>7. torn = {} => ran[a] = {}
      BY <1>t, <1>a DEF WorkerOK, Holds, SubInv, RanOK
    <2>8. torn = {} => \A v \in Workers : worker[v].at \notin Looking
      BY <1>1 DEF SubInv, WorkerOK, Sees, Replays, Exact
    <2>9. DrvNew
      BY <1>a, <2>3, <2>7, <2>8 DEF DrvNew
    <2>10. RowsOn /\ Driven' /\ Typed'
      BY <1>t, <1>a, <2>1, <2>3, <2>6, <2>9, NewDriver DEF Typed
    <2>11. WorkerOK(w)'
      BY <1>t, <1>a, <2>3, <2>5 DEF WorkerOK, Known, BoundTo, Replays, HasRun, NotTwice, Sees, Holds, Late, Carrying, Looking
    <2> QED
      BY <2>4, <2>5, <2>10, <2>11, OneMoves DEF Passing
  <1>2. CASE drv.phase # "idle"
    <2>1. Abandon(w) /\ Yield(w) /\ UNCHANGED <<drv, status>>
      BY <1>2 DEF Reserve
    <2>2. /\ Others(w) /\ worker' \in [Workers -> Post] /\ worker'[w].at \in {"wait", "idle"}
          /\ worker'[w].at = "wait" => worker'[w].a = a
          /\ worker'[w].gen \in {0, worker[w].gen}
      BY <1>t, <2>1, Yields
    <2>3. ActsOn /\ act' \in [Acts -> ActRow]
      BY <1>a, <2>1, <2>2, Abandoning
    <2>4. RowsOn /\ Driven' /\ Typed'
      BY <1>t, <1>a, <2>1, <2>2, <2>3, RowsFollow DEF Typed
    <2>5. WorkerOK(w)'
      BY <1>t, <1>a, <2>1, <2>2, <2>4, Rests DEF Resting
    <2> QED
      BY <2>2, <2>4, <2>5, OneMoves DEF Passing
  <1> QED
    BY <1>1, <1>2

LEMMA BindStep ==
  ASSUME SubInv, NEW w \in Workers, Bind(w)
  PROVE  StepOK
  <1> DEFINE a == worker[w].a
  <1>t. /\ Typed /\ WorkerOK(w) /\ worker \in [Workers -> Post] /\ worker[w] \in Post
        /\ worker[w].gen \in Nat /\ drv.gen \in Nat
        /\ worker[w].gen <= drv.gen /\ act \in [Acts -> ActRow]
    BY Types DEF SubInv, WorkerOK, Known
  <1>a. /\ worker[w].at = "bind" /\ a \in Acts /\ worker[w].gen # 0 /\ act[a] \in ActRow
        /\ UNCHANGED <<drv, status, reply, aborts, ran, torn>>
    BY <1>t, Types DEF WorkerOK, Known, Bind, Carrying
  <1>1. ASSUME NEW at \in {"undo", "fail"}, Goto(w, at), UNCHANGED <<act, outbox, desc>>
        PROVE  StepOK
    <2>1. /\ Others(w) /\ worker' \in [Workers -> Post] /\ worker'[w].at = at /\ worker'[w].a = a
          /\ worker'[w].gen = worker[w].gen
      BY <1>t, <1>1, Goes DEF Points
    <2>2. RowsOn /\ Driven' /\ Typed'
      BY <1>t, <1>a, <1>1, <2>1, RowsSame DEF Typed
    <2>3. WorkerOK(w)'
      BY <1>t, <1>a, <2>1, <2>2, Rests DEF Resting
    <2> QED
      BY <2>1, <2>2, <2>3, OneMoves DEF Passing
  <1>2. CASE HoldsClaim(w) /\ Interrupted(a)
    <2>1. Complete(a, "interrupted") /\ Settled(a, TRUE) /\ Goto(w, "undo")
      BY <1>2 DEF Bind
    <2>2. Open(a) /\ Silent(a, "interrupted")
      BY <1>2, <1>a, NotBegun DEF Open, Unbound, HoldsClaim
    <2>3. /\ Others(w) /\ worker' \in [Workers -> Post] /\ worker'[w].at = "undo"
          /\ worker'[w].a = a /\ worker'[w].gen = worker[w].gen
      BY <1>t, <2>1, Goes DEF Points
    <2> QED
      BY <1>a, <2>1, <2>2, <2>3, CompletionStep DEF Resting, Passing, Outcomes
  <1>3. CASE HoldsClaim(w) /\ ~Interrupted(a) /\ Owns(w)
    <2> DEFINE row == [act[a] EXCEPT !.state = "bound", !.live = FALSE, !.gen = worker[w].gen]
    <2>1. act' = [act EXCEPT ![a] = row] /\ Goto(w, "start") /\ UNCHANGED <<outbox, desc>>
      BY <1>3 DEF Bind, Bound
    <2>2. row \in ActRow /\ row.state = "bound" /\ row.gen = worker[w].gen
      BY <1>t, <1>a DEF ActRow
    <2>3. worker[w].gen = drv.gen /\ act[a].state = "claimed" /\ act[a].owner = w
      BY <1>3 DEF Owns, HoldsClaim
    <2>4. Open(a) /\ ran[a] = {}
      BY <1>a, <2>3, NotBegun DEF Open, Unbound
    <2>5. Unheld(a)
      BY <1>a, <2>3 DEF Unheld, HoldsClaim
    <2>6. RowsOn /\ Driven' /\ act' \in [Acts -> ActRow]
      BY <1>a, <2>1, <2>2, <2>3, <2>4, <2>5, Binding
    <2>7. /\ Others(w) /\ worker' \in [Workers -> Post] /\ worker'[w].at = "start"
          /\ worker'[w].a = a /\ worker'[w].gen = worker[w].gen
      BY <1>t, <2>1, Goes DEF Points
    <2>8. Typed'
      BY <1>t, <1>a, <2>1, <2>6, <2>7 DEF Typed
    <2>9. outbox'[a].outcome = "waiting"
      BY <1>a, <2>1, <2>3 DEF SubInv, RowOK
    <2>10. act'[a] = row
      BY <1>t, <1>a, <2>1
    <2>11. WorkerOK(w)'
      BY <1>t, <1>a, <2>2, <2>7, <2>9, <2>10 DEF WorkerOK, Known, BoundTo, Replays, HasRun, NotTwice, Sees, Holds, Late, Carrying, Looking
    <2> QED
      BY <2>6, <2>7, <2>8, <2>11, OneMoves DEF Passing
  <1> QED
    BY <1>1, <1>2, <1>3 DEF Bind

-----------------------------------------------------------------------------
(* Running, and the steps that leave the rows alone. *)

LEMMA RunSteps ==
  ASSUME SubInv, NEW w \in Workers
  PROVE  /\ Undo(w) => StepOK
         /\ Fail(w) => StepOK
         /\ Start(w) => StepOK
         /\ StartFails(w) => StepOK
         /\ Answer(w) => StepOK
         /\ Finish(w) => StepOK
         /\ Lost(w) => StepOK
         /\ ToolReturns(w) => StepOK
         /\ Crash(w) => StepOK
  <1> DEFINE a == worker[w].a
  <1>t. /\ Typed /\ WorkerOK(w) /\ worker \in [Workers -> Post] /\ worker[w] \in Post
        /\ worker[w].gen \in Nat /\ drv.gen \in Nat /\ drv \in DrvRow
        /\ worker[w].gen <= drv.gen /\ ran \in [Acts -> SUBSET Nat] /\ reply \in [Acts -> Replies]
    BY Types DEF SubInv, WorkerOK, Known
  <1>a. worker[w].at # "idle" => a \in Acts
    BY <1>t DEF WorkerOK, Known
  \* a step after which the worker rests
  <1>s. ASSUME RowsOn, Driven', Typed', Others(w), worker'[w].at \in {"idle", "wait"},
               worker'[w].at # "idle" => worker'[w].a \in Acts,
               worker'[w].gen \in {0, worker[w].gen}, drv'.gen = drv.gen
        PROVE  StepOK
    <2>1. WorkerOK(w)'
      BY <1>t, <1>s, Rests DEF Resting
    <2> QED
      BY <1>s, <2>1, OneMoves DEF Passing
  <1>1. ASSUME Undo(w) PROVE StepOK
    <2>1. /\ worker[w].at = "undo" /\ a \in Acts /\ Release(w, "error") /\ Yield(w)
          /\ UNCHANGED <<act, desc, outbox, reply, aborts, ran, torn>>
      BY <1>1, <1>a DEF Undo
    <2>2. DrvSame /\ drv' \in DrvRow /\ status' \in {"idle", "busy", "error"}
      BY <2>1, Releasing
    <2>3. /\ Others(w) /\ worker' \in [Workers -> Post] /\ worker'[w].at \in {"wait", "idle"}
          /\ worker'[w].at = "wait" => worker'[w].a = a
          /\ worker'[w].gen \in {0, worker[w].gen}
      BY <1>t, <2>1, Yields
    <2>4. RowsOn /\ Driven' /\ Typed'
      BY <1>t, <2>1, <2>2, <2>3, DriverFollows DEF Typed, ReplyOn
    <2> QED
      BY <1>s, <2>1, <2>2, <2>3, <2>4 DEF DrvSame
  <1>2. ASSUME Fail(w) PROVE StepOK
    <2>1. /\ worker[w].at = "fail" /\ a \in Acts /\ Release(w, "error") /\ Leave(w)
          /\ act' = act \/ Abandon(w)
          /\ UNCHANGED <<desc, outbox, reply, aborts, ran, torn>>
      BY <1>2, <1>a DEF Fail
    <2>2. DrvSame /\ drv' \in DrvRow /\ status' \in {"idle", "busy", "error"}
      BY <2>1, Releasing
    <2>3. /\ Others(w) /\ worker' \in [Workers -> Post] /\ worker'[w].at = "idle"
          /\ worker'[w].gen = 0
      BY <1>t, <2>1, Leaves
    <2>4. ActsOn /\ act' \in [Acts -> ActRow]
      <3>1. CASE Abandon(w)
        BY <2>1, <2>3, <3>1, Abandoning
      <3>2. CASE act' = act
        <4>1. desc.gen \in Nat /\ act \in [Acts -> ActRow]
          BY <1>t, Types
        <4> QED
          BY <2>1, <3>2, <4>1 DEF ActsOn, ActSame, Ended
      <3> QED
        BY <2>1, <3>1, <3>2
    <2>5. Driven'
      BY <2>2 DEF SubInv, Driven, DrvSame
    <2>6. RowsOn
      BY <2>1, <2>2, <2>4 DEF RowsOn, RanOn, ReplyOn
    <2>7. Typed'
      BY <1>t, <2>1, <2>2, <2>3, <2>4 DEF Typed
    <2> QED
      BY <1>s, <2>2, <2>3, <2>5, <2>6, <2>7 DEF DrvSame
  <1>3. ASSUME Start(w) PROVE StepOK
    <2>1. /\ worker[w].at = "start" /\ a \in Acts /\ Owns(w) /\ Goto(w, "answer")
          /\ drv' = [drv EXCEPT !.phase = "running"]
          /\ ran' = [ran EXCEPT ![a] = @ \cup {worker[w].gen}]
          /\ UNCHANGED <<act, desc, outbox, status, reply, aborts, torn>>
      BY <1>3, <1>a DEF Start
    <2>2. /\ drv' \in DrvRow /\ drv'.phase = "running" /\ drv'.gen = drv.gen /\ drv'.trigger = drv.trigger
          /\ drv'.live = drv.live
      BY <1>t, <2>1 DEF DrvRow, Phases
    <2>3. drv.live /\ drv.phase # "idle" /\ drv.gen = worker[w].gen
      BY <2>1 DEF Owns
    <2>4. DrvSame
      BY <2>1, <2>2, <2>3 DEF DrvSame
    <2>5. ran'[a] = ran[a] \cup {worker[w].gen} /\ ran' \in [Acts -> SUBSET Nat]
      BY <1>t, <2>1
    <2>6. /\ Others(w) /\ worker' \in [Workers -> Post] /\ worker'[w].at = "answer"
          /\ worker'[w].a = a /\ worker'[w].gen = worker[w].gen
      BY <1>t, <2>1, Goes DEF Points
    <2>7. RanOn
      BY <2>1, <2>2, <2>4 DEF RanOn
    <2>8. ActsOn
      <3>1. desc.gen \in Nat
        BY <1>t, Types
      <3> QED
        BY <2>1, <3>1 DEF ActsOn, ActSame, Ended
    <2>9. RowsOn /\ Driven'
      BY <2>1, <2>2, <2>3, <2>4, <2>7, <2>8 DEF RowsOn, ReplyOn, Driven, SubInv
    <2>10. Typed'
      BY <1>t, <2>1, <2>2, <2>5, <2>6 DEF Typed
    <2>11. outbox[a].outcome # "succeeded"
      BY <1>t, <2>1, <2>3 DEF WorkerOK, NotTwice
    <2>12. WorkerOK(w)'
      BY <1>t, <2>1, <2>2, <2>5, <2>6, <2>11 DEF WorkerOK, Known, BoundTo, Replays, HasRun, NotTwice, Sees, Holds, Late, Carrying, Looking
    <2> QED
      BY <2>6, <2>9, <2>10, <2>12, OneMoves DEF Passing
  <1>4. ASSUME StartFails(w) PROVE StepOK
    <2>1. /\ Owns(w) /\ drv' = [drv EXCEPT !.live = FALSE] /\ Leave(w)
          /\ UNCHANGED <<act, desc, outbox, status, reply, aborts, ran, torn>>
      BY <1>4 DEF StartFails
    <2>2. /\ drv' \in DrvRow /\ drv'.phase = drv.phase /\ drv'.gen = drv.gen /\ drv'.trigger = drv.trigger
          /\ drv'.live = FALSE
      BY <1>t, <2>1 DEF DrvRow
    <2>3. DrvSame
      BY <2>2 DEF DrvSame
    <2>4. /\ Others(w) /\ worker' \in [Workers -> Post] /\ worker'[w].at = "idle"
          /\ worker'[w].gen = 0
      BY <1>t, <2>1, Leaves
    <2>5. RowsOn /\ Driven' /\ Typed'
      BY <1>t, <2>1, <2>2, <2>3, <2>4, DriverFollows DEF Typed, ReplyOn
    <2> QED
      BY <1>s, <2>2, <2>4, <2>5
  <1>5. ASSUME Answer(w) PROVE StepOK
    <2>1. /\ worker[w].at = "answer" /\ a \in Acts /\ Owns(w) /\ Goto(w, "release")
          /\ UNCHANGED <<act, desc, outbox, drv, status, aborts, ran, torn>>
      BY <1>5, <1>a DEF Answer
    <2>2. PICK end \in {"stop", "bad"} : reply' = [reply EXCEPT ![a] = end]
      BY <1>5 DEF Answer
    <2>3. reply' \in [Acts -> Replies] /\ \A b \in Acts \ {a} : reply'[b] = reply[b]
      BY <1>t, <2>2 DEF Replies
    <2>4. ReplyOn
      BY <2>1, <2>3 DEF ReplyOn
    <2>5. DrvSame
      BY <1>t, <2>1 DEF DrvSame
    <2>6. /\ Others(w) /\ worker' \in [Workers -> Post] /\ worker'[w].at = "release"
          /\ worker'[w].a = a /\ worker'[w].gen = worker[w].gen
      BY <1>t, <2>1, Goes DEF Points
    <2>7. RowsOn /\ Driven' /\ Typed'
      BY <1>t, <2>1, <2>3, <2>4, <2>5, <2>6, DriverFollows DEF Typed
    <2>8. WorkerOK(w)'
      BY <1>t, <2>1, <2>6 DEF WorkerOK, Known, BoundTo, Replays, HasRun, NotTwice, Sees, Holds, Late, Carrying, Looking
    <2> QED
      BY <2>6, <2>7, <2>8, OneMoves DEF Passing
  \* a run that is over
  <1>c. ASSUME worker[w].at \in {"start", "answer", "release"}, Goto(w, "complete"), DrvSame, drv' \in DrvRow,
               status' \in {"idle", "busy", "error"}, UNCHANGED <<act, desc, outbox, reply, aborts, ran, torn>>
        PROVE  StepOK
    <2>1. /\ Others(w) /\ worker' \in [Workers -> Post] /\ worker'[w].at = "complete"
          /\ worker'[w].a = a /\ worker'[w].gen = worker[w].gen
      BY <1>t, <1>c, Goes DEF Points
    <2>2. RowsOn /\ Driven' /\ Typed'
      BY <1>t, <1>c, <2>1, DriverFollows DEF Typed, ReplyOn
    <2>3. WorkerOK(w)'
      BY <1>t, <1>a, <1>c, <2>1 DEF WorkerOK, Known, BoundTo, Replays, HasRun, NotTwice, Sees, Holds, Late, Carrying, Looking, DrvSame
    <2> QED
      BY <2>1, <2>2, <2>3, OneMoves DEF Passing
  <1>6. ASSUME Finish(w) PROVE StepOK
    <2>1. PICK result \in {"idle", "error"} : Release(w, result)
      BY <1>6 DEF Finish
    <2>2. DrvSame /\ drv' \in DrvRow /\ status' \in {"idle", "busy", "error"}
      BY <2>1, Releasing
    <2> QED
      BY <1>6, <1>c, <2>2 DEF Finish
  <1>7. ASSUME Lost(w) PROVE StepOK
    <2>1. DrvSame /\ drv' \in DrvRow /\ status' \in {"idle", "busy", "error"}
      BY <1>7, <1>t DEF Lost, DrvSame, Typed
    <2> QED
      BY <1>7, <1>c, <2>1 DEF Lost
  \* a worker that goes
  <1>8. ASSUME Leave(w), torn \subseteq torn', torn' \subseteq Windows,
               UNCHANGED <<act, desc, outbox, drv, status, reply, aborts, ran>>
        PROVE  StepOK
    <2>1. /\ Others(w) /\ worker' \in [Workers -> Post] /\ worker'[w].at = "idle"
          /\ worker'[w].gen = 0
      BY <1>t, <1>8, Leaves
    <2>2. RowsOn /\ Driven' /\ Typed'
      BY <1>t, <1>8, <2>1, RowsSame DEF Typed
    <2> QED
      BY <1>s, <1>8, <2>1, <2>2
  <1>9. ToolReturns(w) => StepOK
    BY <1>8, <1>t DEF ToolReturns, Typed
  <1>10. ASSUME Crash(w) PROVE StepOK
    <2>1. torn \subseteq torn' /\ torn' \subseteq Windows
      BY <1>t, <1>10 DEF Crash, Tears, Typed, Windows
    <2> QED
      BY <1>8, <1>10, <2>1 DEF Crash
  <1> QED
    BY <1>1, <1>2, <1>3, <1>4, <1>5, <1>6, <1>7, <1>9, <1>10

-----------------------------------------------------------------------------
(* Recovery passes. *)

\* The marker is taken over, by nobody but the one pass.
LEMMA TakingOver ==
  ASSUME SubInv, NEW w \in Workers, NEW phase \in {"reserved", "finalizing"}, Exact(w),
         worker[w].at = (IF phase = "reserved" THEN "take" ELSE "repair"),
         TakeOver(w, phase), UNCHANGED <<act, desc, outbox, reply, aborts, ran, torn>>
  PROVE  /\ RowsOn /\ Driven' /\ Typed' /\ Others(w)
         /\ drv'.gen = drv.gen + 1 /\ drv'.phase = phase /\ drv'.trigger = drv.trigger
         /\ worker'[w].at = (IF phase = "reserved" THEN "rebind" ELSE "fix")
         /\ worker'[w].a = worker[w].a /\ worker'[w].gen = drv.gen + 1
         /\ worker'[w].record = worker[w].record
  <1> DEFINE at == IF phase = "reserved" THEN "rebind" ELSE "fix"
  <1>t. /\ Typed /\ WorkerOK(w) /\ worker \in [Workers -> Post] /\ worker[w] \in Post
        /\ drv.gen \in Nat /\ drv \in DrvRow /\ drv.gen + 1 \in Nat /\ at \in Points
    BY Types DEF SubInv, Points
  <1>1. /\ drv' = [drv EXCEPT !.phase = phase, !.gen = @ + 1, !.live = TRUE, !.abort = FALSE]
        /\ worker' = [worker EXCEPT ![w].at = at, ![w].gen = drv.gen + 1]
        /\ status' = "busy"
    BY DEF TakeOver
  <1>2. /\ drv' \in DrvRow /\ drv'.gen = drv.gen + 1 /\ drv'.phase = phase /\ drv'.trigger = drv.trigger
    BY <1>t, <1>1 DEF DrvRow, Phases
  <1>3. worker'[w] = [worker[w] EXCEPT !.at = at, !.gen = drv.gen + 1] /\ Others(w)
    BY <1>t, <1>1 DEF Others
  <1>4. /\ worker'[w] \in Post /\ worker'[w].at = at /\ worker'[w].a = worker[w].a
        /\ worker'[w].gen = drv.gen + 1 /\ worker'[w].record = worker[w].record
    BY <1>t, <1>3 DEF Post
  <1>5. worker' \in [Workers -> Post]
    BY <1>t, <1>1, <1>3, <1>4
  <1>6. worker[w].at \in Looking /\ worker[w].at \in Passing /\ worker'[w].at # worker[w].at
    BY <1>4 DEF Looking, Passing
  <1>7. drv.phase # "idle" /\ (phase = "reserved" => drv.phase = "reserved")
    BY <1>t, <1>6 DEF WorkerOK, Replays, Exact
  <1>8. drv.trigger \in Acts
    BY <1>7 DEF SubInv, Driven
  <1>9. torn = {} /\ phase = "reserved" => ran[drv.trigger] = {}
    BY <1>7, <1>8 DEF SubInv, RanOK
  <1>10. torn = {} => \A v \in Workers : v # w => worker[v].at \notin Looking
    BY <1>6 DEF SubInv, Apart, Looking, Passing
  <1>11. DrvNew
    BY <1>2, <1>6, <1>9, <1>10 DEF DrvNew
  <1>12. RowsOn /\ Driven'
    BY <1>2, <1>8, <1>11, NewDriver
  <1>13. Typed'
    BY <1>t, <1>1, <1>2, <1>5 DEF Typed
  <1> QED
    BY <1>2, <1>3, <1>4, <1>12, <1>13

LEMMA PassSteps ==
  ASSUME SubInv, NEW w \in Workers
  PROVE  /\ Snapshot(w) => StepOK
         /\ Blocks(w) => StepOK
         /\ TakeReserved(w) => StepOK
         /\ Repair(w) => StepOK
         /\ Fix(w) => StepOK
  <1> DEFINE a == worker[w].a
  <1>t. /\ Typed /\ WorkerOK(w) /\ worker \in [Workers -> Post] /\ worker[w] \in Post
        /\ worker[w].gen \in Nat /\ drv.gen \in Nat /\ drv \in DrvRow
        /\ worker[w].gen <= drv.gen /\ reply \in [Acts -> Replies]
    BY Types DEF SubInv, WorkerOK, Known
  <1>a. worker[w].at # "idle" => a \in Acts
    BY <1>t DEF WorkerOK, Known
  <1>l. ASSUME Leave(w), UNCHANGED <<act, desc, outbox, drv, status, reply, aborts, ran, torn>>
        PROVE  StepOK
    <2>1. /\ Others(w) /\ worker' \in [Workers -> Post] /\ worker'[w].at = "idle"
          /\ worker'[w].gen = 0
      BY <1>t, <1>l, Leaves
    <2>2. RowsOn /\ Driven' /\ Typed'
      BY <1>t, <1>l, <2>1, RowsSame DEF Typed
    <2>3. WorkerOK(w)'
      BY <1>t, <1>l, <2>1, <2>2, Rests DEF Resting
    <2> QED
      BY <2>1, <2>2, <2>3, OneMoves DEF Passing
  <1>1. ASSUME Snapshot(w) PROVE StepOK
    <2> DEFINE rec == [phase |-> drv.phase, gen |-> drv.gen, trigger |-> drv.trigger]
               at  == IF drv.phase = "reserved" THEN "blocks" ELSE "unknown"
    <2>1. /\ worker[w] = Idle /\ drv.phase # "idle" /\ ~drv.live /\ Joins
          /\ worker' = [worker EXCEPT ![w] = [Idle EXCEPT !.at = at, !.a = drv.trigger, !.record = rec]]
          /\ UNCHANGED <<act, desc, outbox, drv, status, reply, aborts, ran>>
      BY <1>1 DEF Snapshot
    <2>2. /\ drv.trigger \in Acts /\ rec \in Record /\ at \in Points /\ drv.trigger \in 0 .. Activations
      BY <1>t, <2>1 DEF SubInv, Driven, Record, Points, DrvRow
    <2>3. worker'[w] = [Idle EXCEPT !.at = at, !.a = drv.trigger, !.record = rec] /\ Others(w)
      BY <1>t, <2>1 DEF Others
    <2>4. /\ worker'[w] \in Post /\ worker'[w].at = at /\ worker'[w].a = drv.trigger /\ worker'[w].gen = 0
          /\ worker'[w].record = rec
      BY <2>2, <2>3, IdleFact DEF Post
    <2>5. worker' \in [Workers -> Post]
      BY <1>t, <2>1, <2>3, <2>4
    <2>6. torn \subseteq torn' /\ torn' \subseteq Windows
      BY <1>t, <2>1 DEF Joins, Typed, Windows
    <2>7. torn' = {} => \A v \in Workers : worker[v].at \notin Passing
      BY <2>1 DEF Joins
    <2>8. RowsOn /\ Driven' /\ Typed'
      BY <1>t, <2>1, <2>5, <2>6, RowsSame DEF Typed
    <2>9. Exact(w)'
      BY <2>1, <2>4 DEF Exact
    <2>10. WorkerOK(w)'
      BY <1>t, <2>1, <2>2, <2>4, <2>9 DEF WorkerOK, Known, BoundTo, Replays, HasRun, NotTwice, Sees, Holds, Late, Carrying, Looking
    <2> QED
      BY <2>3, <2>4, <2>7, <2>8, <2>10, OneMoves
  <1>2. ASSUME Blocks(w) PROVE StepOK
    <2>1. /\ worker[w].at = "blocks" /\ a \in Acts
          /\ UNCHANGED <<act, desc, outbox, drv, status, reply, aborts, ran, torn>>
      BY <1>2, <1>a DEF Blocks
    <2>2. PICK at \in {"pending", "repair"} : Goto(w, at)
      BY <1>2 DEF Blocks
    <2>3. /\ Others(w) /\ worker' \in [Workers -> Post] /\ worker'[w].at = at /\ worker'[w].a = worker[w].a
          /\ worker'[w].gen = worker[w].gen /\ worker'[w].record = worker[w].record
      BY <1>t, <2>2, Goes DEF Points
    <2>4. RowsOn /\ Driven' /\ Typed'
      BY <1>t, <2>1, <2>3, RowsSame DEF Typed
    <2>5. WorkerOK(w)'
      BY <1>t, <2>1, <2>2, <2>3 DEF WorkerOK, Known, BoundTo, Replays, HasRun, NotTwice, Sees, Holds, Late, Carrying, Looking, Exact
    <2> QED
      BY <2>1, <2>3, <2>4, <2>5, OneMoves DEF Passing
  <1>3. ASSUME TakeReserved(w) PROVE StepOK
    <2>1. /\ worker[w].at = "take" /\ a \in Acts /\ TakeOver(w, "reserved")
          /\ UNCHANGED <<act, desc, outbox, reply, aborts, ran, torn>>
      BY <1>3, <1>a DEF TakeReserved
    <2>2. CASE ~Exact(w)
      BY <1>l, <2>1, <2>2 DEF TakeOver
    <2>3. CASE Exact(w)
      <3>1. /\ RowsOn /\ Driven' /\ Typed' /\ Others(w)
            /\ drv'.gen = drv.gen + 1 /\ drv'.phase = "reserved" /\ drv'.trigger = drv.trigger
            /\ worker'[w].at = "rebind"
            /\ worker'[w].a = a /\ worker'[w].gen = drv.gen + 1
            /\ worker'[w].record = worker[w].record
        BY <2>1, <2>3, TakingOver
      <3>2. worker[w].record.phase = "reserved" /\ worker[w].record.gen = drv.gen
            /\ drv.phase = "reserved" /\ drv.trigger = worker[w].record.trigger
        BY <1>t, <2>1, <2>3 DEF WorkerOK, Replays, Exact
      <3>3. drv.gen \notin ran[a]
        BY <2>1, <3>2 DEF SubInv, RanOK
      <3>4. torn = {} => worker[w].record.trigger = a
        BY <1>t, <2>1 DEF WorkerOK, Sees, Looking
      <3>5. drv.gen + 1 # 0 /\ drv.gen < drv.gen + 1 /\ drv.gen + 1 <= drv.gen + 1
        BY <1>t
      <3>6. Replays(w)'
        BY <2>1, <3>1, <3>2, <3>3, <3>5 DEF Replays, Looking
      <3>7. torn' = {} => Sees(w)'
        BY <2>1, <3>1, <3>2, <3>4 DEF Sees, Looking
      <3>8. WorkerOK(w)'
        BY <2>1, <3>1, <3>5, <3>6, <3>7 DEF WorkerOK, Known, BoundTo, HasRun, NotTwice, Holds, Late, Carrying
      <3> QED
        BY <2>1, <3>1, <3>8, OneMoves DEF Passing
    <2> QED
      BY <2>2, <2>3
  <1>4. ASSUME Repair(w) PROVE StepOK
    <2>1. /\ worker[w].at = "repair" /\ a \in Acts /\ TakeOver(w, "finalizing")
          /\ UNCHANGED <<act, desc, outbox, reply, aborts, ran, torn>>
      BY <1>4, <1>a DEF Repair
    <2>2. CASE ~Exact(w)
      BY <1>l, <2>1, <2>2 DEF TakeOver
    <2>3. CASE Exact(w)
      <3>1. /\ RowsOn /\ Driven' /\ Typed' /\ Others(w)
            /\ drv'.gen = drv.gen + 1
            /\ worker'[w].at = "fix"
            /\ worker'[w].a = a /\ worker'[w].gen = drv.gen + 1
        BY <2>1, <2>3, TakingOver
      <3>2. WorkerOK(w)'
        BY <1>t, <2>1, <3>1, Rests DEF Resting
      <3> QED
        BY <2>1, <3>1, <3>2, OneMoves DEF Passing
    <2> QED
      BY <2>2, <2>3
  <1>5. ASSUME Fix(w) PROVE StepOK
    <2>1. /\ worker[w].at = "fix" /\ a \in Acts /\ Release(w, "error") /\ Leave(w)
          /\ reply' = reply \/ (reply[a] = "none" /\ reply' = [reply EXCEPT ![a] = "bad"])
          /\ UNCHANGED <<act, desc, outbox, aborts, ran, torn>>
      BY <1>5, <1>a DEF Fix
    <2>2. DrvSame /\ drv' \in DrvRow /\ status' \in {"idle", "busy", "error"}
      BY <2>1, Releasing
    <2>3. /\ Others(w) /\ worker' \in [Workers -> Post] /\ worker'[w].at = "idle"
          /\ worker'[w].gen = 0
      BY <1>t, <2>1, Leaves
    <2>4. reply' \in [Acts -> Replies] /\ ReplyOn
      BY <1>t, <2>1 DEF Replies, ReplyOn
    <2>5. RowsOn /\ Driven' /\ Typed'
      BY <1>t, <2>1, <2>2, <2>3, <2>4, DriverFollows DEF Typed
    <2>6. WorkerOK(w)'
      BY <1>t, <2>2, <2>3, <2>5, Rests DEF Resting, DrvSame
    <2> QED
      BY <2>3, <2>5, <2>6, OneMoves DEF Passing
  <1> QED
    BY <1>1, <1>2, <1>3, <1>4, <1>5

LEMMA RebindStep ==
  ASSUME SubInv, NEW w \in Workers, Rebind(w)
  PROVE  StepOK
  <1> DEFINE a == worker[w].a
  <1>t. /\ Typed /\ WorkerOK(w) /\ worker \in [Workers -> Post] /\ worker[w] \in Post
        /\ worker[w].gen \in Nat /\ drv.gen \in Nat /\ drv \in DrvRow
        /\ worker[w].gen <= drv.gen /\ act \in [Acts -> ActRow]
    BY Types DEF SubInv, WorkerOK, Known
  <1>a. /\ worker[w].at = "rebind" /\ a \in Acts /\ worker[w].gen # 0
        /\ UNCHANGED <<desc, outbox, reply, aborts, ran>>
    BY <1>t DEF WorkerOK, Known, Rebind, Carrying
  <1>b. /\ worker[w].record.phase = "reserved" /\ worker[w].record.gen < worker[w].gen
        /\ worker[w].record.gen \notin ran[a]
    BY <1>t, <1>a DEF WorkerOK, Replays
  <1>c. torn \subseteq torn' /\ torn' \subseteq Windows
    BY <1>t DEF Rebind, Tears, Typed, Windows
  <1>d. torn' = {} => \A v \in Workers : worker[v].at # "reserve"
    BY DEF Rebind, Tears, Window
  <1>1. CASE Owns(w) /\ ~Open(a)
    <2>1. /\ drv' = [drv EXCEPT !.live = FALSE] /\ status' = "error" /\ act' = act
          /\ worker' = [worker EXCEPT ![w].at = "repair", ![w].record.gen = worker[w].gen]
      BY <1>1 DEF Rebind
    <2>2. /\ drv' \in DrvRow /\ drv'.phase = drv.phase /\ drv'.gen = drv.gen /\ drv'.trigger = drv.trigger
          /\ drv'.live = FALSE
      BY <1>t, <2>1 DEF DrvRow
    <2>3. DrvSame
      BY <2>2 DEF DrvSame
    <2>4. worker'[w] = [worker[w] EXCEPT !.at = "repair", !.record.gen = worker[w].gen] /\ Others(w)
      BY <1>t, <2>1 DEF Others
    <2>5. worker[w].record \in Record
      BY <1>t DEF Post
    <2>6. [worker[w].record EXCEPT !.gen = worker[w].gen] \in Record
      BY <1>t, <2>5 DEF Record
    <2>7. /\ worker'[w] \in Post /\ worker'[w].at = "repair" /\ worker'[w].a = a
          /\ worker'[w].gen = worker[w].gen
          /\ worker'[w].record = [worker[w].record EXCEPT !.gen = worker[w].gen]
      BY <1>t, <2>4, <2>6 DEF Post, Points
    <2>8. /\ worker'[w].record.gen = worker[w].gen /\ worker'[w].record.phase = worker[w].record.phase
          /\ worker'[w].record.trigger = worker[w].record.trigger
      BY <2>5, <2>7 DEF Record
    <2>9. worker' \in [Workers -> Post]
      BY <1>t, <2>1, <2>4, <2>7
    <2>10. RowsOn /\ Driven' /\ Typed'
      BY <1>t, <1>a, <1>c, <2>1, <2>2, <2>3, <2>9, DriverFollows DEF Typed, ReplyOn
    <2>11. drv.gen = worker[w].gen /\ drv.phase # "idle"
      BY <1>1 DEF Owns
    <2>12. torn' = {} => /\ worker[w].record.trigger = a /\ drv.trigger = a /\ drv.phase = "reserved"
      BY <1>t, <1>a, <1>c, <2>11 DEF WorkerOK, Sees
    <2>13. torn' = {} => Sees(w)'
      BY <1>b, <2>2, <2>7, <2>8, <2>11, <2>12 DEF Sees, Exact, Looking
    <2>14. Replays(w)'
      BY <1>b, <2>7, <2>8 DEF Replays, Looking
    <2>15. WorkerOK(w)'
      BY <1>t, <1>a, <2>2, <2>7, <2>13, <2>14 DEF WorkerOK, Known, BoundTo, HasRun, NotTwice, Holds, Late, Carrying
    <2> QED
      BY <1>a, <2>4, <2>7, <2>10, <2>15, OneMoves DEF Passing
  <1>2. CASE Owns(w) /\ Open(a) /\ Rebindable(w)
    <2> DEFINE row == [state |-> "bound", owner |-> w, live |-> FALSE, gen |-> worker[w].gen]
    <2>1. act' = [act EXCEPT ![a] = row] /\ Goto(w, "start") /\ UNCHANGED <<drv, status>>
      BY <1>2 DEF Rebind
    <2>2. row \in ActRow /\ row.state = "bound" /\ row.gen = worker[w].gen
      BY <1>t DEF ActRow
    <2>3. worker[w].gen = drv.gen
      BY <1>2 DEF Owns
    <2>4. ran[a] = {}
      BY <1>2, <1>a, <1>b DEF Rebindable, SubInv, RanOK
    <2>5. Unheld(a)
      BY <1>d DEF Unheld
    <2>6. RowsOn /\ Driven' /\ act' \in [Acts -> ActRow]
      BY <1>2, <1>a, <1>c, <2>1, <2>2, <2>3, <2>4, <2>5, Binding
    <2>7. /\ Others(w) /\ worker' \in [Workers -> Post] /\ worker'[w].at = "start"
          /\ worker'[w].a = a /\ worker'[w].gen = worker[w].gen
      BY <1>t, <2>1, Goes DEF Points
    <2>8. Typed'
      BY <1>t, <1>a, <1>c, <2>1, <2>6, <2>7 DEF Typed
    <2>9. outbox'[a].outcome = "waiting"
      BY <1>2, <1>a DEF SubInv, RowOK, Open
    <2>10. act'[a] = row
      BY <1>t, <1>a, <2>1
    <2>11. WorkerOK(w)'
      BY <1>t, <1>a, <2>1, <2>2, <2>7, <2>9, <2>10 DEF WorkerOK, Known, BoundTo, Replays, HasRun, NotTwice, Sees, Holds, Late, Carrying, Looking
    <2> QED
      BY <2>6, <2>7, <2>8, <2>11, OneMoves DEF Passing
  <1>3. CASE Release(w, "error") /\ Leave(w) /\ UNCHANGED act
    <2>1. DrvSame /\ drv' \in DrvRow /\ status' \in {"idle", "busy", "error"}
      BY <1>3, Releasing
    <2>2. /\ Others(w) /\ worker' \in [Workers -> Post] /\ worker'[w].at = "idle"
          /\ worker'[w].gen = 0
      BY <1>t, <1>3, Leaves
    <2>3. RowsOn /\ Driven' /\ Typed'
      BY <1>t, <1>a, <1>c, <1>3, <2>1, <2>2, DriverFollows DEF Typed, ReplyOn
    <2>4. WorkerOK(w)'
      BY <1>t, <2>1, <2>2, <2>3, Rests DEF Resting, DrvSame
    <2> QED
      BY <2>2, <2>3, <2>4, OneMoves DEF Passing
  <1> QED
    BY <1>1, <1>2, <1>3 DEF Rebind

-----------------------------------------------------------------------------
(* Interrupts, scans, deliveries, and leases that run out. *)

LEMMA ScanSteps ==
  ASSUME SubInv
  PROVE  /\ IdleScan => StepOK
         /\ Consume => StepOK
         /\ Interrupt => StepOK
         /\ (\E target \in aborts : Abort(target)) => StepOK
  <1>t. /\ Typed /\ desc \in DescRow /\ drv \in DrvRow /\ act \in [Acts -> ActRow] /\ drv.gen \in Nat
        /\ desc.gen \in Nat /\ aborts \subseteq [a : Acts, gen : Nat]
        /\ \A a \in Acts : act[a].gen \in Nat
    BY Types DEF SubInv, Typed
  <1>c. TRUE \in BOOLEAN /\ FALSE \in BOOLEAN /\ "interrupted" \in Outcomes
        /\ \A a \in Acts : Transcript(a) \in Outcomes
    BY DEF Outcomes, Transcript
  <1>d. desc.active # 0 => desc.active \in Acts
    BY <1>t, NumbersFact DEF DescRow
  \* one is completed
  <1>1. ASSUME NEW a \in Acts, NEW outcome \in Outcomes, NEW applied \in BOOLEAN, Open(a),
               Complete(a, outcome), Settled(a, applied), Silent(a, outcome),
               UNCHANGED <<drv, status, reply, worker, aborts, ran, torn>>
        PROVE  StepOK
    <2>1. /\ RowsOn /\ Driven'
          /\ act' \in [Acts -> ActRow] /\ outbox' \in [Acts -> OutRow] /\ desc' \in DescRow
      BY <1>1, Completion
    <2>2. Typed'
      BY <1>t, <1>1, <2>1 DEF Typed
    <2> QED
      BY <1>1, <2>1, <2>2, NobodyMoves
  <1>2. ASSUME IdleScan PROVE StepOK
    <2>1. PICK a \in Acts : /\ act[a].state = "bound" /\ drv.phase = "idle"
                            /\ Complete(a, Transcript(a)) /\ Settled(a, FALSE)
      BY <1>2 DEF IdleScan
    <2>2. Open(a) /\ Silent(a, Transcript(a))
      BY <2>1 DEF Open, Silent, Transcript, Owns
    <2> QED
      BY <1>1, <1>2, <1>c, <2>1, <2>2 DEF IdleScan
  \* or something else than a row changes
  <1>3. ASSUME UNCHANGED <<act, outbox, worker, ran, reply, status>>, torn \subseteq torn', torn' \subseteq Windows,
               desc' \in DescRow, desc'.active = desc.active, desc'.gen = desc.gen,
               aborts' \subseteq [a : Acts, gen : Nat], drv' \in DrvRow, DrvSame
        PROVE  StepOK
    <2>1. ActsOn
      BY <1>t, <1>3 DEF ActsOn, ActSame, Ended
    <2>2. RowsOn
      BY <1>3, <2>1 DEF RowsOn, RanOn, ReplyOn
    <2>3. Driven'
      BY <1>3 DEF SubInv, Driven, DrvSame
    <2>4. Typed'
      BY <1>t, <1>3 DEF Typed
    <2> QED
      BY <1>3, <2>2, <2>3, <2>4, NobodyMoves
  <1>s. drv' = drv => DrvSame /\ drv' \in DrvRow
    BY <1>t DEF DrvSame
  <1>4. ASSUME Consume PROVE StepOK
    <2>1. PICK a \in Acts : a = desc.active
      BY <1>4, <1>d DEF Consume
    <2>2. CASE act[a].state \in {"accepted", "claimed"}
      <3>1. Open(a) /\ Silent(a, "interrupted")
        BY <2>2, NotBegun DEF Open, Unbound
      <3>2. Complete(a, "interrupted") /\ Settled(a, TRUE) /\ UNCHANGED aborts
        BY <1>4, <2>1, <2>2 DEF Consume
      <3> QED
        BY <1>1, <1>4, <1>c, <3>1, <3>2 DEF Consume
    <2>3. CASE act[a].state = "bound"
      <3>1. /\ aborts' = aborts \cup {[a |-> a, gen |-> act[a].gen]} /\ UNCHANGED <<act, outbox, desc>>
        BY <1>4, <2>1, <2>3 DEF Consume
      <3>2. aborts' \subseteq [a : Acts, gen : Nat]
        BY <1>t, <3>1
      <3> QED
        BY <1>3, <1>4, <1>s, <1>t, <3>1, <3>2 DEF Consume, Typed
    <2> QED
      BY <1>4, <2>1, <2>2, <2>3 DEF Consume
  <1>5. ASSUME Interrupt PROVE StepOK
    <2>1. PICK a \in Acts : a = desc.active
      BY <1>5, <1>d DEF Interrupt
    <2>2. /\ desc' = [desc EXCEPT !.requested = a]
          /\ aborts' = IF act[a].state = "bound" THEN aborts \cup {[a |-> a, gen |-> act[a].gen]} ELSE aborts
      BY <1>5, <2>1 DEF Interrupt
    <2>3. a \in 0 .. Activations
      BY NumbersFact
    <2>4. desc' \in DescRow /\ desc'.active = desc.active /\ desc'.gen = desc.gen
      BY <1>t, <2>2, <2>3 DEF DescRow
    <2>5. aborts' \subseteq [a : Acts, gen : Nat]
      BY <1>t, <2>2
    <2>6. torn \subseteq torn' /\ torn' \subseteq Windows
      BY <1>t, <1>5 DEF Interrupt, Tears, Typed, Windows
    <2> QED
      BY <1>3, <1>5, <1>s, <2>4, <2>5, <2>6 DEF Interrupt
  <1>6. ASSUME NEW target \in aborts, Abort(target) PROVE StepOK
    <2>1. aborts' \subseteq [a : Acts, gen : Nat] /\ target.a \in 0 .. Activations
      BY <1>t, <1>6, NumbersFact DEF Abort
    <2>2. drv' \in DrvRow /\ DrvSame
      <3>1. CASE drv' = drv
        BY <1>s, <3>1
      <3>2. CASE drv' = [drv EXCEPT !.abort = TRUE]
        BY <1>t, <3>2 DEF DrvRow, DrvSame
      <3> QED
        BY <1>6, <3>1, <3>2 DEF Abort
    <2>3. desc' \in DescRow /\ desc'.active = desc.active /\ desc'.gen = desc.gen
      <3>1. CASE desc' = desc
        BY <1>t, <3>1
      <3>2. CASE desc' = [desc EXCEPT !.applied = IF Interrupted(target.a) THEN target.a ELSE @]
        BY <1>t, <2>1, <3>2 DEF DescRow
      <3> QED
        BY <1>6, <3>1, <3>2 DEF Abort
    <2> QED
      BY <1>3, <1>6, <1>t, <2>1, <2>2, <2>3 DEF Abort, Typed
  <1> QED
    BY <1>2, <1>4, <1>5, <1>6

LEMMA OtherSteps ==
  ASSUME SubInv
  PROVE  /\ ParentEnds => StepOK
         /\ ParentResumes => StepOK
         /\ \A a \in Acts : Deliver(a) => StepOK
         /\ \A a \in Acts : ClaimExpires(a) => StepOK
         /\ LeaseExpires => StepOK
  <1>t. /\ Typed /\ drv \in DrvRow /\ act \in [Acts -> ActRow] /\ drv.gen \in Nat
        /\ outbox \in [Acts -> OutRow] /\ desc.gen \in Nat
        /\ \A a \in Acts : act[a] \in ActRow /\ outbox[a] \in OutRow
    BY Types DEF SubInv, Typed
  <1>1. ASSUME UNCHANGED <<act, desc, outbox, drv, status, reply, worker, aborts, ran, torn>>
        PROVE  StepOK
    <2>1. RowsOn /\ Driven' /\ Typed'
      BY <1>t, <1>1, RowsSame DEF Typed
    <2> QED
      BY <1>1, <2>1, NobodyMoves
  <1>2. ASSUME NEW a \in Acts, Deliver(a) PROVE StepOK
    <2>1. /\ outbox[a].state = "ready" /\ outbox' = [outbox EXCEPT ![a].state = "delivered"]
          /\ UNCHANGED <<act, desc, drv, status, reply, worker, aborts, ran, torn>>
      BY <1>2 DEF Deliver
    <2>2. outbox'[a] = [outbox[a] EXCEPT !.state = "delivered"] /\ \A b \in Acts \ {a} : outbox'[b] = outbox[b]
      BY <1>t, <2>1
    <2>3. outbox'[a] \in OutRow /\ outbox'[a].state = "delivered" /\ outbox'[a].outcome = outbox[a].outcome
      BY <1>t, <2>2 DEF OutRow
    <2>4. outbox' \in [Acts -> OutRow]
      BY <1>t, <2>1, <2>2, <2>3
    <2>5. ActSame(a)
      BY <2>1, <2>3 DEF ActSame, Ended
    <2>6. ActsOn
      BY <1>t, <2>1, <2>2, <2>5, OneAct
    <2>7. RowsOn /\ Driven' /\ Typed'
      BY <1>t, <2>1, <2>4, <2>6, RowsFollow DEF Typed
    <2> QED
      BY <2>1, <2>7, NobodyMoves
  <1>3. ASSUME NEW a \in Acts, ClaimExpires(a) PROVE StepOK
    <2> DEFINE row == [act[a] EXCEPT !.live = FALSE]
    <2>1. /\ act[a].state = "claimed" /\ act' = [act EXCEPT ![a] = row]
          /\ UNCHANGED <<desc, outbox, drv, status, reply, worker, aborts, ran>>
      BY <1>3, <1>t DEF ClaimExpires
    <2>2. row \in ActRow /\ row.state = act[a].state /\ row.gen = act[a].gen
      BY <1>t DEF ActRow
    <2>3. torn \subseteq torn' /\ torn' \subseteq Windows
      BY <1>t, <1>3 DEF ClaimExpires, Tears, Typed, Windows
    <2>4. Unheld(a)
      <3> SUFFICES ASSUME torn' = {}, NEW v \in Workers, worker[v].at = "reserve", worker[v].a = a, HoldsClaim(v)
                   PROVE  FALSE
        BY DEF Unheld
      <3>1. act[a].owner = v
        BY DEF HoldsClaim
      <3>2. Tears("dispatch")
        BY <1>3, <3>1 DEF ClaimExpires
      <3> QED
        BY <3>2 DEF Tears, Window
    <2>5. ActsOn /\ act' \in [Acts -> ActRow]
      BY <2>1, <2>2, <2>4, Claiming
    <2>6. RowsOn /\ Driven' /\ Typed'
      BY <1>t, <2>1, <2>3, <2>5, RowsFollow DEF Typed
    <2> QED
      BY <2>1, <2>6, NobodyMoves
  <1>4. ASSUME LeaseExpires PROVE StepOK
    <2>1. /\ drv' = [drv EXCEPT !.live = FALSE]
          /\ UNCHANGED <<act, desc, outbox, status, reply, worker, aborts, ran>>
      BY <1>4 DEF LeaseExpires
    <2>2. /\ drv' \in DrvRow /\ drv'.phase = drv.phase /\ drv'.gen = drv.gen /\ drv'.trigger = drv.trigger
          /\ drv'.live = FALSE
      BY <1>t, <2>1 DEF DrvRow
    <2>3. DrvSame
      BY <2>2 DEF DrvSame
    <2>4. torn \subseteq torn' /\ torn' \subseteq Windows
      BY <1>t, <1>4 DEF LeaseExpires, Tears, Typed, Windows
    <2>5. RowsOn /\ Driven' /\ Typed'
      BY <1>t, <2>1, <2>2, <2>3, <2>4, DriverFollows DEF Typed, ReplyOn
    <2> QED
      BY <2>1, <2>5, NobodyMoves
  <1> QED
    BY <1>1, <1>2, <1>3, <1>4 DEF ParentEnds, ParentResumes

-----------------------------------------------------------------------------
(* The theorems. *)

LEMMA NextStep ==
  ASSUME SubInv, Next
  PROVE  StepOK
  BY CompletingSteps, ClaimSteps, ReserveStep, BindStep, RunSteps, PassSteps, RebindStep, ScanSteps, OtherSteps
     DEF Next, Dispatch, Run, Pass

LEMMA InitiallyOK ==
  ASSUME Init
  PROVE  SubInv
  <1>1. 0 \in 0 .. Activations
    BY NumbersFact
  <1>2. Typed
    <2>1. act \in [Acts -> ActRow]
      BY DEF Init, ActRow
    <2>2. outbox \in [Acts -> OutRow] /\ reply \in [Acts -> Replies] /\ ran \in [Acts -> SUBSET Nat]
      BY DEF Init, OutRow, Replies
    <2>3. desc \in DescRow /\ drv \in DrvRow
      BY <1>1 DEF Init, DescRow, DrvRow, Phases
    <2>4. worker \in [Workers -> Post]
      BY IdleFact DEF Init
    <2> QED
      BY <2>1, <2>2, <2>3, <2>4 DEF Init, Typed
  <1>3. ASSUME NEW a \in Acts PROVE RowOK(a) /\ RanOK(a)
    <2>1. act[a] = [state |-> "none", owner |-> None, live |-> FALSE, gen |-> 0]
          /\ outbox[a] = [state |-> "none", outcome |-> "waiting"] /\ desc.active = 0 /\ drv.gen = 0
          /\ reply[a] = "none" /\ ran[a] = {}
      BY DEF Init
    <2> QED
      BY <2>1, NumbersFact DEF RowOK, RanOK, Open, Ended, Unbound
  <1>4. ASSUME NEW w \in Workers PROVE WorkerOK(w) /\ worker[w].gen = 0 /\ worker[w].at = "idle"
    <2>1. worker[w].at = "idle" /\ worker[w].gen = 0 /\ drv.gen = 0
      BY IdleFact DEF Init
    <2> QED
      BY <2>1 DEF WorkerOK, Known, BoundTo, Replays, HasRun, NotTwice, Sees, Holds, Late, Carrying, Looking
  <1>5. Apart
    BY <1>4 DEF Apart, Passing
  <1>6. Driven
    BY DEF Driven, Init
  <1> QED
    BY <1>2, <1>3, <1>4, <1>5, <1>6 DEF SubInv

LEMMA Invariance == Spec => []SubInv
  <1>1. Init => SubInv
    BY InitiallyOK
  <1>2. SubInv /\ [Next]_vars => SubInv'
    <2>1. ASSUME SubInv, Next PROVE SubInv'
      BY <2>1, NextStep, Kept
    <2>2. ASSUME SubInv, UNCHANGED vars PROVE SubInv'
      <3>1. RowsOn /\ Driven' /\ Typed'
        BY <2>2, RowsSame DEF vars, Typed, SubInv
      <3>2. StepOK
        BY <2>2, <3>1, NobodyMoves DEF vars
      <3> QED
        BY <2>2, <3>2, Kept
    <2> QED
      BY <2>1, <2>2
  <1> QED
    BY <1>1, <1>2, PTL DEF Spec

LEMMA Reports ==
  ASSUME SubInv
  PROVE  ReportIsTrue
  <1>1. TypeOK
    BY DEF SubInv, Typed, TypeOK, ActRow, OutRow, DescRow, Windows, RowOK, Ended
  <1>2. RunsOnce
    <2> SUFFICES ASSUME NEW a \in Acts PROVE Cardinality(ran[a]) <= 1
      BY DEF RunsOnce
    <2>1. \A g \in ran[a] : g = act[a].gen
      BY DEF SubInv, RanOK
    <2>2. CASE ran[a] = {}
      BY <2>2, FS_EmptySet
    <2>3. CASE ran[a] # {}
      <3>1. ran[a] = {act[a].gen}
        BY <2>1, <2>3
      <3>2. Cardinality({act[a].gen}) = 1
        BY FS_Singleton
      <3> QED
        BY <3>1, <3>2
    <2> QED
      BY <2>2, <2>3
  <1>3. SuccessIsAnswered /\ InterruptedNeverRan
    BY DEF SubInv, RanOK, SuccessIsAnswered, InterruptedNeverRan
  <1> QED
    BY <1>1, <1>2, <1>3 DEF ReportIsTrue

\* What is reported of an activation is what happened to it: a trigger enters
\* execution under one generation at most, a reported success was run and
\* answered, and what was reported as interrupted never ran unless a window of
\* the protocol was torn (complete_activation, bind_claimed_activation,
\* bind_recovered_activation) - for any number of activations, dispatchers,
\* recovery passes, interrupts, crashes and lost leases.
THEOREM ReportSafe == Spec => []ReportIsTrue
  BY Invariance, Reports, PTL

\* Nothing is started for an activation whose outcome is out, outside the torn
\* windows of the protocol (set_phase("running") of an old claim or replay).
THEOREM StartSafe == Spec => NoStartAfterOutcome
  <1> DEFINE Quiet == \A a \in Acts : torn = {} /\ outbox[a].state \in {"ready", "delivered"}
                                        => ran'[a] = ran[a]
  <1>1. SubInv /\ [Next]_vars => [Quiet]_vars
    <2>1. ASSUME SubInv, Next PROVE Quiet
      <3> SUFFICES ASSUME NEW a \in Acts, torn = {}, Ended(a), ran'[a] # ran[a]
                   PROVE  FALSE
        BY DEF Ended
      <3>1. RanOn
        BY <2>1, NextStep DEF StepOK, RowsOn
      <3>2. PICK w \in Workers : /\ worker[w].at = "start" /\ Owns(w)
                                 /\ ran' = [ran EXCEPT ![worker[w].a] = @ \cup {worker[w].gen}]
        BY <3>1 DEF RanOn
      <3>3. worker[w].a = a
        BY <2>1, <3>2, Types DEF SubInv
      <3>4. act[a].state = "completed"
        BY <2>1 DEF SubInv, RowOK
      <3> QED
        BY <2>1, <3>2, <3>3, <3>4 DEF SubInv, WorkerOK, Late
    <2> QED
      BY <2>1
  <1> QED
    BY <1>1, Invariance, PTL DEF Spec, NoStartAfterOutcome

=============================================================================
