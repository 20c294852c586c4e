--------------------------- MODULE MCAgentDriver ---------------------------
(* Instances of AgentDriver for TLC; the cfg files give the constants.     *)
EXTENDS AgentDriver, TLC

\* Sessions are interchangeable.
SessionSymmetry == Permutations(Sessions)

\* The generations a session has used, and the processes that take part.
Used(s) == driver[s].generation
Homes == {w \in Workers :
            \/ \E s \in Sessions : driver[s].owner = w
            \/ \E s \in Sessions, g \in Generations : lease[s][g].owner = w
            \/ \E p \in Stoppers : stop[p].worker = w
            \/ markers[w] # {}}
Alone == Homes \subseteq {CHOOSE w \in Workers : TRUE}

\* The corners of the instance that are explored to the end: two generations of
\* a single session on every process with a crash; and, on one process without a
\* crash, three of a single session and one of every session.
Corners ==
  LET single == \E s \in Sessions : \A t \in Sessions \ {s} : Used(t) = 0
  IN \/ single /\ \A s \in Sessions : Used(s) <= 2
     \/ Alone /\ crashes = 0 /\ (single \/ \A s \in Sessions : Used(s) <= 1)

\* The instance of the driver without and with a stop: with one there is a single
\* generation, of a run without a message.
Stopless == \A p \in Stoppers : stop'[p].at = "ready"
OneGeneration ==
  \A s \in Sessions : driver'[s].trigger = NoMessage /\ driver'[s].generation <= 1

MCNext == Next /\ (Stopless \/ OneGeneration)

\* Fairness, with a successor only where the instance has one.
MCFairness ==
  /\ WF_vars(Tick)
  /\ \A s \in Sessions, g \in Generations :
       /\ WF_vars(ObserveAbort(s, g, FALSE))
       /\ WF_vars(lease[s][g].signal # "clear" /\ ReleaseBegin(s, g))
       /\ WF_vars(ReleaseCommit(s, g) \/ ReleaseFails(s, g))
  /\ \A w \in Workers : WF_vars(RecoveryStep(w) /\ (Stopless \/ OneGeneration))

MCSpec == Init /\ [][MCNext]_vars /\ MCFairness
=============================================================================
