----------------------------- MODULE MCBilling -----------------------------
(***************************************************************************)
(* The billing modules in one instance for TLC.  `scene' says which of     *)
(* them a behaviour is about and with how much of the constants:           *)
(*   orders   one order, two API calls at once                             *)
(*   tabs     two orders and request keys, one call at a time              *)
(*   terms    one order, one grant, one operator, the clock                *)
(*   cap      two shots and a composition in one process, without faults   *)
(*   charges  a shot, a composition and an image of one prompt, with faults*)
(***************************************************************************)
EXTENDS Payments

CONSTANTS o1, o2, k2, c1, c2, pro, max   \* orders, a key, calls and plans
CONSTANTS Shots, Composes, Images, Procs, Pollers, Price, Limit, Overrun,
          MaxRequests, MaxReclaims, MaxCancels, NoJob  \* of CreditCap
CONSTANTS s1, s2, i1, p1, w1   \* shots, an image, a process and a poller

VARIABLES scene, request, sending, hit, job, step, holder, event, charged, poller,
          cancelling, failures, cancels, crossed

MCCredits == [p \in Plans \cup {Free} |-> IF p = Free THEN 1 ELSE IF p = pro THEN 2 ELSE 3]
MCPrice   == [s \in Shots \cup Composes \cup Images |->
                IF s = s1 THEN 3 ELSE IF s = i1 THEN 1 ELSE 2]

C == INSTANCE CreditCap WITH MaxFailures <- MaxReclaims, call <- step

capVars == <<request, sending, hit, job, step, holder, event, charged, poller,
             cancelling, failures, cancels, crossed>>
all == <<scene, vars, capVars>>

ASSUME CapAssumption == C!CreditCapAssumption

MCInit ==
    /\ Init /\ C!Init
    /\ scene \in {"orders", "tabs", "terms", "cap", "charges"}

OnePlan  == \A o \in Orders : order'[o].product # max
OneOrder == order'[o2].status = "none" /\ keyed'[k2] = NoOrder
OneCall  == call'[c2].at = "idle"
OneTerm  == \A t \in terms' : t.id # o2
NoFault  ==
    /\ failures' = 0 /\ cancels' = 0
    /\ \A s \in Images : step'[s].at = "new"
    /\ \A w \in Pollers \ {w1} : poller'[w] = C!Idle
    /\ \A s \in C!Jobs : /\ step'[s].at # "new" => step'[s].proc = p1
                         /\ event'[s].request # 0 => event'[s].credits = Price[s]
OneShot == step'[s2].at = "new" /\ sending' = 0

Within(s, A) == scene = s /\ A /\ UNCHANGED scene

MCNext ==
    \/ Within("orders", Next /\ OnePlan /\ OneOrder /\ UNCHANGED capVars)
    \/ Within("tabs", Next /\ OnePlan /\ OneCall /\ UNCHANGED capVars)
    \/ Within("terms", SubNext /\ OneTerm /\ UNCHANGED <<payVars, capVars>>)
    \/ Within("cap", C!Next /\ NoFault /\ UNCHANGED vars)
    \/ Within("charges", C!Next /\ OneShot /\ UNCHANGED vars)

\* One page that goes on refreshing one order.
Refreshes(A) == Within("orders", A /\ UNCHANGED capVars)
MCFairness ==
    /\ SF_all(Refreshes(Request(c1, "refresh", o1)))
    /\ SF_all(Refreshes(Refreshing(c1, o1) /\ Begin(c1)))
    /\ SF_all(Refreshes(Refreshing(c1, o1) /\ Read(c1)))
    /\ SF_all(Refreshes(Refreshing(c1, o1) /\ Query(c1)))
    /\ SF_all(Refreshes(Refreshing(c1, o1) /\ Apply(c1)))
    /\ WF_all(Refreshes(Steps(c1)))

MCSpec == MCInit /\ [][MCNext]_all /\ MCFairness

\* Money moves once and is not lost: what an order was credited was paid, what
\* was closed holds nothing, what cannot be paid offers no cashier, and a
\* product has one order open.
MoneyKept ==
    /\ TypeOK /\ CreditedOnce /\ CreditedWasPaid
    /\ ClosedHoldsNoMoney /\ UrlOnlyIfPayable /\ OnePending

\* Terms follow one another, each with its order and its allowance granted
\* once.  (The scene of terms has purchases without their orders.)
TermsKept ==
    /\ SubTypeOK /\ TermsDisjoint /\ AllowanceOnce
    /\ scene # "terms" => PaidHasTerm

\* No step is charged twice or after a refusal.  In a session whose calls run in
\* one process, with one poller, where no image is made, nothing is cancelled, no
\* transfer fails and nothing is charged above its quote, the steps of a request
\* also stay under its cap, and a guard never reads less than they cost.
CapKept ==
    /\ C!TypeOK /\ C!ChargedOnce /\ C!RefusedCostsNothing
    /\ scene = "cap" => C!CapHolds /\ C!SpentIsLiability

\* No late write reopens an order, and nothing but an operator's change or
\* cancellation alters the plan of an instant that a term holds.
NothingTakenBack == StatusMonotone /\ PrepaidKept

\* What a buyer paid is credited even if every notification is lost: the page
\* goes on refreshing the order.
RefreshedIsCredited ==
    scene = "orders" => KeptMoneyIsCredited(o1)
=============================================================================
