--------------------------- MODULE Subscriptions ---------------------------
(***************************************************************************)
(* The prepaid terms of one workspace and the allowance of each calendar   *)
(* period (billing/subscriptions.py), and the operator's grants, changes   *)
(* and cancellations of terms (billing/admin.py).  Every operation here is *)
(* one transaction that holds the workspace's balance row (lock_balance),  *)
(* so operations interleave and do not overlap; what is stale is what an   *)
(* operator read before.                                                   *)
(***************************************************************************)
EXTENDS Naturals, FiniteSets, FiniteSetsExt

CONSTANTS
    Plans,      \* the paid plans
    Free,       \* the plan of a workspace without an active term
    Credits,    \* the allowance of each plan per period
    Cycles,     \* lengths a term can be bought for
    Period,     \* length of the calendar period of an allowance
    Horizon,    \* add_months(at, 120): how far ahead an operator may grant
    TermIds,    \* ids of terms: the paid orders and the operator's grants
    Orders,     \* those of them that are paid orders
    Operators,  \* operators with the console open
    MaxTime     \* bound: the last instant of a run

ASSUME SubscriptionsAssumption ==
    /\ Free \notin Plans
    /\ Credits \in [Plans \cup {Free} -> Nat]
    /\ Cycles \subseteq Nat \ {0} /\ Period \in Nat \ {0}
    /\ Horizon \in Nat /\ MaxTime \in Nat
    /\ Orders \subseteq TermIds

VARIABLES
    now,      \* the clock
    terms,    \* billing_subscriptions
    grants,   \* idempotency keys of the allowances in the ledger
    balance,  \* the balance that the ledger entries of allowances add up to
    seen,     \* the term each operator last opened
    paidOff   \* the periods for which the last purchase granted an allowance

subVars == <<now, terms, grants, balance, seen, paidOff>>

Never == MaxTime + 1
Term == [id: TermIds, plan: Plans, start: Nat, end: Nat, cancelled: 0..Never]
NoTerm == [id |-> Free]

SubTypeOK ==
    /\ now \in 0..MaxTime
    /\ terms \subseteq Term
    /\ \A s, t \in terms : s.id = t.id => s = t
    /\ grants \subseteq [plan: Plans \cup {Free}, period: 0..MaxTime]
    /\ balance \in Nat
    /\ seen \in [Operators -> Term \cup {NoTerm}]
    /\ paidOff \in BOOLEAN

SubInit ==
    /\ now = 0
    /\ terms = {} /\ grants = {} /\ balance = 0
    /\ seen = [a \in Operators |-> NoTerm]
    /\ paidOff = TRUE

-----------------------------------------------------------------------------
Live(T) == {t \in T : t.cancelled = Never}
Ends(T) == {t.end : t \in Live(T)}

\* active_subscription: the latest started term that holds at an instant.
ActiveTerms(T, at) == {t \in T : t.start <= at /\ at < t.end /\ at < t.cancelled}
ActivePlan(T, at) ==
    IF ActiveTerms(T, at) = {} THEN Free
    ELSE (CHOOSE t \in ActiveTerms(T, at) :
             \A u \in ActiveTerms(T, at) : u.start <= t.start).plan

\* allowance_period and the ledger's idempotency key.
PeriodOf(at) == at - (at % Period)
AllowanceKey(T, at) == [plan |-> ActivePlan(T, at), period |-> PeriodOf(at)]

AllowanceUnkeyed(T) ==
    /\ grants' = grants \cup {AllowanceKey(T, now)}
    /\ balance' = balance + Credits[AllowanceKey(T, now).plan]

\* ensure_period_allowance, on the terms as the transaction leaves them.
EnsureAllowance(T) ==
    IF AllowanceKey(T, now) \in grants THEN UNCHANGED <<grants, balance>>
    ELSE /\ grants' = grants \cup {AllowanceKey(T, now)}
         /\ balance' = balance + Credits[AllowanceKey(T, now).plan]

AllowanceIfStarted(T, start) ==
    IF start <= now THEN EnsureAllowance(T) ELSE UNCHANGED <<grants, balance>>

StartNow(T) == now

\* Prepaid time is never replaced: a term starts when the last one ends.
NextStart(T) == Max(Ends(T) \cup {now})

NewTerm(id, plan, length) ==
    [id |-> id, plan |-> plan, start |-> NextStart(terms),
     end |-> NextStart(terms) + length, cancelled |-> Never]

\* apply_subscription, inside the transaction that marks the order paid.
ApplySubscription(o, plan, length) ==
    LET t == NewTerm(o, plan, length) IN
    /\ terms' = terms \cup {t}
    /\ AllowanceIfStarted(terms', t.start)
    /\ paidOff' = (t.start <= now => balance' > balance)
    /\ UNCHANGED <<now, seen>>

PurchaseAgain(o, plan, length) == ApplySubscription(o, plan, length)

\* An order is settled once (Payments has the order's side of this).
Purchase(o, plan, length) ==
    /\ \A t \in terms : t.id # o
    /\ ApplySubscription(o, plan, length)

\* manage_billing, SubscriptionGrant.
AdminGrant(id, plan, length) ==
    LET t == NewTerm(id, plan, length) IN
    /\ \A u \in terms : u.id # id
    /\ t.end <= now + Horizon
    /\ terms' = terms \cup {t}
    /\ AllowanceIfStarted(terms', t.start)
    /\ UNCHANGED <<now, seen, paidOff>>

\* An operator opens a term; its revision goes along with what they do next.
AdminOpen(a, t) ==
    /\ seen' = [seen EXCEPT ![a] = t]
    /\ UNCHANGED <<now, terms, grants, balance, paidOff>>

ChangeableStale(t) == \E u \in terms : u.id = t.id /\ now < u.end

\* expected_revision must be that of the term, which must not have ended.
Changeable(t) == t \in terms /\ t.cancelled = Never /\ now < t.end

Overlaps(t, end) ==
    \E u \in Live(terms) : u.id # t.id /\ u.start < end /\ t.start < u.end

Rewrite(t, u) == {v \in terms : v.id # t.id} \cup {u}

\* manage_billing, SubscriptionChange: another plan and another end.
AdminChange(a, plan, end) ==
    LET t == seen[a] IN
    /\ t # NoTerm /\ Changeable(t)
    /\ now < end /\ t.start < end /\ end <= now + Horizon
    /\ ~Overlaps(t, end)
    /\ terms' = Rewrite(t, [t EXCEPT !.plan = plan, !.end = end])
    /\ AllowanceIfStarted(terms', t.start)
    /\ UNCHANGED <<now, seen, paidOff>>

\* manage_billing, SubscriptionCancel: effective at once.
AdminCancel(a) ==
    LET t == seen[a] IN
    /\ t # NoTerm /\ Changeable(t)
    /\ terms' = Rewrite(t, [t EXCEPT !.cancelled = now])
    /\ UNCHANGED <<now, grants, balance, seen, paidOff>>

\* The balance, the plan page or a model call: the period's first use grants.
Touch ==
    /\ EnsureAllowance(terms)
    /\ UNCHANGED <<now, terms, seen, paidOff>>

Tick ==
    /\ now < MaxTime
    /\ now' = now + 1
    /\ UNCHANGED <<terms, grants, balance, seen, paidOff>>

SubNext ==
    \/ \E o \in Orders, plan \in Plans, n \in Cycles : Purchase(o, plan, n)
    \/ \E id \in TermIds \ Orders, plan \in Plans, n \in Cycles : AdminGrant(id, plan, n)
    \/ \E a \in Operators : \/ \E t \in terms : AdminOpen(a, t)
                            \/ \E plan \in Plans, end \in 1..(MaxTime + Horizon) :
                                   AdminChange(a, plan, end)
                            \/ AdminCancel(a)
    \/ Touch
    \/ Tick

SubSpec == SubInit /\ [][SubNext]_subVars

-----------------------------------------------------------------------------
(* Terms that were not cancelled never overlap, through purchases, grants   *)
(* and changes by operators who act on what they read earlier: nobody pays  *)
(* twice for the same time.                                                 *)
TermsDisjoint ==
    \A s, t \in Live(terms) : s.id # t.id => s.end <= t.start \/ t.end <= s.start

\* What an operator may do to a term that a workspace has.
OperatorRewrites ==
    \E a \in Operators :
       \/ AdminCancel(a)
       \/ \E plan \in Plans, end \in 1..(MaxTime + Horizon) : AdminChange(a, plan, end)

(* "Prepaid time is never replaced by a later purchase, including a plan    *)
(* switch": the plan of an instant that some term holds stays what it is,   *)
(* whatever is bought, granted or settled late.  Only an operator who       *)
(* changes or cancels a term takes such time away.                          *)
PrepaidKept ==
    [][\/ OperatorRewrites
       \/ \A t \in terms : \A x \in t.start..t.end :
             ActivePlan(terms, x) # Free => ActivePlan(terms', x) = ActivePlan(terms, x)
      ]_subVars

(* The allowance of a plan is posted once per calendar period, whichever of *)
(* a purchase, a grant, a change, a page or a model call comes first.       *)
AllowanceOnce == balance = SumFunction([g \in grants |-> Credits[g.plan]])

(* A purchase that takes effect at once grants the allowance of the current *)
(* period with it.                                                          *)
(* Known gap, README section 5.                                             *)
PurchaseGrants == paidOff
=============================================================================
