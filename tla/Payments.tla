------------------------------ MODULE Payments ------------------------------
(***************************************************************************)
(* Orders of one payer and workspace, and the payment gateway              *)
(* (billing/payments.py with the Alipay adapter, billing/alipay.py).       *)
(*                                                                         *)
(* Each API call is a sequence of transactions and gateway requests; calls *)
(* interleave, die, and see requests fail with and without effect.  The    *)
(* gateway (external) holds the trade of an order, which comes into being  *)
(* only when the buyer opens a cashier, and sends notifications that are   *)
(* repeated, delayed, reordered or lost.  A settled subscription extends   *)
(* the terms of module Subscriptions in the same transaction.              *)
(***************************************************************************)
EXTENDS Subscriptions

CONSTANTS
    TopUp,       \* the product that only buys credits
    Keys,        \* request keys of checkout attempts
    Calls,       \* API calls in flight
    Callbacks,   \* confirmation_mode: the gateway notifies, or is only queried
    Refunds,     \* whether the gateway refunds paid trades
    NoOrder

Products == Plans \cup {TopUp}

ASSUME PaymentsAssumption ==
    /\ TopUp \notin Plans /\ NoOrder \notin Orders
    /\ Callbacks \in BOOLEAN /\ Refunds \in BOOLEAN

VARIABLES
    order,    \* payment_orders; status "none": not created
    keyed,    \* payment_order_requests: the order of each request key
    credited, \* how often the ledger was credited for each order
    trade,    \* external: the trade of each order at the gateway
    cashier,  \* external: the payer was handed a checkout of this order
    notes,    \* external: notifications the gateway has sent for each order
    call      \* each API call: operation, order and progress

payVars == <<order, keyed, credited, trade, cashier, notes, call>>
vars == <<payVars, subVars>>

Reasons == {"", "trade_not_created", "gateway_closed"}
Ops == {"continue", "app", "refresh", "cancel"}
Points == {"idle", "begin", "read", "query", "close_old", "requery", "apply",
           "view", "close", "uncreated", "checkout", "write"}
IdleCall == [at |-> "idle", op |-> "refresh", order |-> NoOrder, receipt |-> "none",
             reconcile |-> FALSE, tried |-> FALSE]

TypeOK ==
    /\ order \in [Orders -> [status: {"none", "pending", "paid", "cancelled"},
                             product: Products \cup {Free}, reason: Reasons,
                             url: BOOLEAN]]
    /\ keyed \in [Keys -> Orders \cup {NoOrder}]
    /\ credited \in [Orders -> Nat]
    /\ trade \in [Orders -> {"none", "wait", "paid", "closed", "refunded"}]
    /\ cashier \subseteq Orders
    /\ notes \in [Orders -> SUBSET {"paid", "closed"}]
    /\ call \in [Calls -> [at: Points, op: Ops, order: Orders \cup {NoOrder},
                           receipt: {"none", "paid", "closed"},
                           reconcile: BOOLEAN, tried: BOOLEAN]]

PayInit ==
    /\ order = [o \in Orders |-> [status |-> "none", product |-> Free, reason |-> "",
                                  url |-> FALSE]]
    /\ keyed = [k \in Keys |-> NoOrder]
    /\ credited = [o \in Orders |-> 0]
    /\ trade = [o \in Orders |-> "none"]
    /\ cashier = {}
    /\ notes = [o \in Orders |-> {}]
    /\ call = [c \in Calls |-> IdleCall]

Init == PayInit /\ SubInit

-----------------------------------------------------------------------------
\* The gateway.  A trade that was refunded in full reports TRADE_CLOSED.
Status(o) == order[o].status

OpenCashier(o) ==
    /\ o \in cashier /\ trade[o] = "none"
    /\ trade' = [trade EXCEPT ![o] = "wait"]
    /\ UNCHANGED <<order, keyed, credited, cashier, notes, call, subVars>>

Notify(o, kind) ==
    notes' = IF Callbacks THEN [notes EXCEPT ![o] = @ \cup {kind}] ELSE notes

BuyerPays(o) ==
    /\ trade[o] = "wait"
    /\ trade' = [trade EXCEPT ![o] = "paid"]
    /\ Notify(o, "paid")
    /\ UNCHANGED <<order, keyed, credited, cashier, call, subVars>>

GatewayCloses(o) ==
    /\ \/ trade[o] = "wait" /\ trade' = [trade EXCEPT ![o] = "closed"]
       \/ Refunds /\ trade[o] = "paid" /\ trade' = [trade EXCEPT ![o] = "refunded"]
    /\ Notify(o, "closed")
    /\ UNCHANGED <<order, keyed, credited, cashier, call, subVars>>

ReceiptOfWaiting(o) == CASE trade[o] \in {"paid", "wait"} -> "paid"
                         [] trade[o] \in {"closed", "refunded"} -> "closed"
                         [] OTHER -> "none"

\* What a trade query answers: query_payment, _receipt.
Receipt(o) == CASE trade[o] = "paid" -> "paid"
                [] trade[o] \in {"closed", "refunded"} -> "closed"
                [] OTHER -> "none"   \* WAIT_BUYER_PAY, or TradeNotCreated

\* close_payment: only a trade that waits for its buyer can be closed.
CloseTrade(o) ==
    /\ trade[o] = "wait"
    /\ trade' = [trade EXCEPT ![o] = "closed"]
    /\ Notify(o, "closed")

-----------------------------------------------------------------------------
\* settle_payment under the balance lock: an order that is not paid yet is
\* paid, even when it was cancelled, and its product is delivered once.
SettleAlways(o) ==
    /\ order' = [order EXCEPT ![o].status = "paid"]
    /\ credited' = [credited EXCEPT ![o] = @ + 1]
    /\ UNCHANGED subVars

Settle(o) ==
    IF Status(o) = "paid" THEN UNCHANGED <<order, credited, subVars>>
    ELSE /\ order' = [order EXCEPT ![o].status = "paid"]
         /\ credited' = [credited EXCEPT ![o] = @ + 1]
         /\ IF order[o].product = TopUp THEN UNCHANGED subVars
            ELSE \E n \in Cycles : ApplySubscription(o, order[o].product, n)

\* apply_receipt of a closed trade: it may follow a refund, a paid order stays.
ApplyClosed(o) ==
    /\ order' = IF Status(o) = "paid" THEN order
                ELSE [order EXCEPT ![o] = [@ EXCEPT !.status = "cancelled",
                                             !.reason = "gateway_closed", !.url = FALSE]]
    /\ UNCHANGED <<credited, subVars>>

ApplyReceipt(o, receipt) == IF receipt = "paid" THEN Settle(o) ELSE ApplyClosed(o)

\* The webhook: any notification sent, at any time, any number of times.
Webhook(o, kind) ==
    /\ kind \in notes[o]
    /\ ApplyReceipt(o, kind)
    /\ UNCHANGED <<keyed, trade, cashier, notes, call>>

-----------------------------------------------------------------------------
GoTo(c, at) == call' = [call EXCEPT ![c].at = at]
Finish(c) == call' = [call EXCEPT ![c] = IdleCall]
Start(c, op, o) == call' = [call EXCEPT ![c] = [IdleCall EXCEPT !.at = "begin",
                                                  !.op = op, !.order = o]]
AtPoint(c, at) == call[c].at = at
NoGateway == UNCHANGED <<trade, notes>>
OnlyCall == UNCHANGED <<order, keyed, credited, trade, cashier, notes, subVars>>

Pending(product) == {o \in Orders : Status(o) = "pending" /\ order[o].product = product}

ReuseNone(k, product) ==
    IF keyed[k] # NoOrder THEN {keyed[k]} ELSE {o \in Orders : Status(o) = "none"}

\* create_order: the order of this key, else an identical pending one, else new.
OrderFor(k, product) ==
    IF keyed[k] # NoOrder
    THEN {o \in {keyed[k]} : order[o].product = product}
    ELSE IF Pending(product) # {} THEN Pending(product)
    ELSE {o \in Orders : Status(o) = "none"}

CreateOrder(c, k, product) ==
    /\ AtPoint(c, "idle")
    /\ \E o \in OrderFor(k, product) :
         /\ keyed[k] = NoOrder /\ product = TopUp => ActivePlan(terms, now) # Free
         /\ order' = IF Status(o) # "none" THEN order
                     ELSE [order EXCEPT ![o].status = "pending", ![o].product = product]
         /\ keyed' = [keyed EXCEPT ![k] = o]
         /\ IF order'[o].status = "pending" THEN Start(c, "continue", o)
            ELSE UNCHANGED call
    /\ UNCHANGED <<credited, trade, cashier, notes, subVars>>

\* The other calls name an order that exists.
Request(c, op, o) ==
    /\ AtPoint(c, "idle")
    /\ Status(o) # "none"
    /\ Start(c, op, o)
    /\ OnlyCall

\* The first transaction of continue_order, create_app_checkout, cancel_order.
Begin(c) ==
    LET o == call[c].order IN
    /\ AtPoint(c, "begin")
    /\ CASE call[c].op = "refresh" -> GoTo(c, "read")
         [] call[c].op = "cancel" ->
              IF Status(o) = "paid" \/ order[o].reason = "gateway_closed"
              THEN Finish(c) ELSE GoTo(c, "read")
         [] OTHER ->
              IF Status(o) # "pending" THEN Finish(c)
              ELSE IF call[c].op = "continue" /\ order[o].url THEN GoTo(c, "read")
              ELSE GoTo(c, "checkout")
    /\ OnlyCall

ReadOpenOnly(c) ==
    LET o == call[c].order IN
    /\ AtPoint(c, "read")
    /\ IF Status(o) # "pending" THEN Finish(c)
       ELSE call' = [call EXCEPT ![c].at = "query"]
    /\ OnlyCall

\* refresh_order reads the order and then asks the gateway.
Read(c) ==
    LET o == call[c].order IN
    /\ AtPoint(c, "read")
    /\ IF Status(o) = "paid" THEN Finish(c)
       ELSE call' = [call EXCEPT ![c].at = "query",
                       ![c].reconcile = /\ Status(o) = "cancelled"
                                        /\ order[o].reason = "trade_not_created"]
    /\ OnlyCall

QueryRaw(c) ==
    LET o == call[c].order IN
    /\ AtPoint(c, "query")
    /\ call' = [call EXCEPT ![c].receipt = trade[o],
                  ![c].at = IF Receipt(o) = "none" THEN "view" ELSE "apply"]
    /\ OnlyCall

\* A cancelled order whose old cashier has opened a trade: close it now.
Query(c) ==
    LET o == call[c].order IN
    /\ AtPoint(c, "query")
    /\ call' = [call EXCEPT ![c].receipt = Receipt(o),
                  ![c].at = IF call[c].reconcile /\ trade[o] = "wait" THEN "close_old"
                            ELSE IF Receipt(o) = "none" THEN "view" ELSE "apply"]
    /\ OnlyCall

CloseOld(c) ==
    LET o == call[c].order IN
    /\ AtPoint(c, "close_old")
    /\ \/ /\ CloseTrade(o)
          /\ call' = [call EXCEPT ![c].receipt = "closed", ![c].at = "apply"]
       \/ CloseTrade(o) /\ GoTo(c, "requery")      \* accepted, the answer lost
       \/ NoGateway /\ GoTo(c, "requery")          \* refused or not delivered
    /\ UNCHANGED <<order, keyed, credited, cashier, subVars>>

Requery(c) ==
    LET o == call[c].order IN
    /\ AtPoint(c, "requery")
    /\ IF Receipt(o) = "none" THEN Finish(c)
       ELSE call' = [call EXCEPT ![c].receipt = Receipt(o), ![c].at = "apply"]
    /\ OnlyCall

Apply(c) ==
    /\ AtPoint(c, "apply")
    /\ ApplyReceipt(call[c].order, call[c].receipt)
    /\ GoTo(c, "view")
    /\ UNCHANGED <<keyed, trade, cashier, notes>>

\* refresh_order returns: continue goes on to a checkout and cancel to a close
\* when the order is still pending; a cancel that failed before gives up.
View(c) ==
    LET o == call[c].order IN
    /\ AtPoint(c, "view")
    /\ IF Status(o) # "pending" \/ call[c].op = "refresh" \/ call[c].tried THEN Finish(c)
       ELSE GoTo(c, IF call[c].op = "cancel" THEN "close" ELSE "checkout")
    /\ OnlyCall

\* cancel_order closes the trade; when that fails it looks once more.
Close(c) ==
    LET o == call[c].order IN
    /\ AtPoint(c, "close")
    /\ \/ /\ CloseTrade(o)
          /\ call' = [call EXCEPT ![c].receipt = "closed", ![c].at = "apply"]
       \/ trade[o] = "none" /\ NoGateway /\ GoTo(c, "uncreated")
       \/ /\ CloseTrade(o) \/ NoGateway
          /\ call' = [call EXCEPT ![c].at = "read", ![c].tried = TRUE]
    /\ UNCHANGED <<order, keyed, credited, cashier, subVars>>

CancelAsClosed(c) ==
    LET o == call[c].order IN
    /\ AtPoint(c, "uncreated")
    /\ order' = IF Status(o) # "pending" THEN order
                ELSE [order EXCEPT ![o] = [@ EXCEPT !.status = "cancelled",
                                             !.reason = "gateway_closed", !.url = FALSE]]
    /\ Finish(c)
    /\ UNCHANGED <<keyed, credited, trade, cashier, notes, subVars>>

\* cancel_uncreated_order: only if nothing was settled in the meantime.
CancelUncreated(c) ==
    LET o == call[c].order IN
    /\ AtPoint(c, "uncreated")
    /\ order' = IF Status(o) # "pending" THEN order
                ELSE [order EXCEPT ![o] = [@ EXCEPT !.status = "cancelled",
                                             !.reason = "trade_not_created", !.url = FALSE]]
    /\ Finish(c)
    /\ UNCHANGED <<keyed, credited, trade, cashier, notes, subVars>>

Checkout(c) == AtPoint(c, "checkout") /\ GoTo(c, "write") /\ OnlyCall

WriteUnchecked(c) ==
    LET o == call[c].order IN
    /\ AtPoint(c, "write")
    /\ order' = [order EXCEPT ![o].url = TRUE]
    /\ cashier' = cashier \cup {o}
    /\ Finish(c)
    /\ UNCHANGED <<keyed, credited, trade, notes, subVars>>

WriteReopens(c) ==
    LET o == call[c].order IN
    /\ AtPoint(c, "write")
    /\ order' = IF Status(o) = "paid" THEN order
                ELSE [order EXCEPT ![o].status = "pending", ![o].url = TRUE]
    /\ cashier' = cashier \cup {o}
    /\ Finish(c)
    /\ UNCHANGED <<keyed, credited, trade, notes, subVars>>

\* A checkout is stored and handed out only while the order is pending.
WriteCheckout(c) ==
    LET o == call[c].order IN
    /\ AtPoint(c, "write")
    /\ order' = IF Status(o) = "pending" /\ call[c].op = "continue"
                THEN [order EXCEPT ![o].url = TRUE] ELSE order
    /\ cashier' = IF Status(o) = "pending" THEN cashier \cup {o} ELSE cashier
    /\ Finish(c)
    /\ UNCHANGED <<keyed, credited, trade, notes, subVars>>

\* A gateway request fails, or the process dies: the call is over.
Fail(c) == ~AtPoint(c, "idle") /\ Finish(c) /\ OnlyCall

Steps(c) == \/ Begin(c) \/ Read(c) \/ Query(c) \/ CloseOld(c) \/ Requery(c)
            \/ Apply(c) \/ View(c) \/ Close(c) \/ CancelUncreated(c)
            \/ Checkout(c) \/ WriteCheckout(c)

Next ==
    \/ \E o \in Orders : OpenCashier(o) \/ BuyerPays(o) \/ GatewayCloses(o)
    \/ \E o \in Orders, kind \in {"paid", "closed"} : Webhook(o, kind)
    \/ \E c \in Calls, k \in Keys, p \in Products : CreateOrder(c, k, p)
    \/ \E c \in Calls, op \in Ops, o \in Orders : Request(c, op, o)
    \/ \E c \in Calls : Steps(c) \/ Fail(c)

Spec == Init /\ [][Next]_vars

\* The orders page refreshes every order it lists again and again, and of the
\* many refreshes some get through all of their steps.
Refreshing(c, o) == call[c].op = "refresh" /\ call[c].order = o
RefreshFairness(c, o) ==
    /\ SF_vars(Request(c, "refresh", o))
    /\ SF_vars(Refreshing(c, o) /\ Begin(c))
    /\ SF_vars(Refreshing(c, o) /\ Read(c))
    /\ SF_vars(Refreshing(c, o) /\ Query(c))
    /\ SF_vars(Refreshing(c, o) /\ Apply(c))
    /\ WF_vars(Steps(c))
FairSpec == Spec /\ \A c \in Calls, o \in Orders : RefreshFairness(c, o)

-----------------------------------------------------------------------------
(* The ledger is credited exactly once for an order that is paid and never  *)
(* for another, whatever the gateway repeats, delays or reorders and        *)
(* however many refreshes and webhooks settle at once.                      *)
CreditedOnce ==
    \A o \in Orders : credited[o] = IF Status(o) = "paid" THEN 1 ELSE 0

(* Only a payment the gateway took is credited: no redirect, cancelled or   *)
(* merely created trade.                                                    *)
CreditedWasPaid ==
    \A o \in Orders : credited[o] > 0 => trade[o] \in {"paid", "refunded"}

(* A paid order is never reinterpreted as unpaid and a cancelled one never  *)
(* becomes payable again, even by a call that read it before.               *)
StatusMonotone ==
    [][\A o \in Orders : /\ Status(o) = "paid" => order'[o].status = "paid"
                         /\ Status(o) = "cancelled" => order'[o].status # "pending"]_vars

(* An order shown as closed by the gateway holds no money: its trade did    *)
(* not wait for, or take, a payment that nobody would look for again.       *)
ClosedHoldsNoMoney ==
    \A o \in Orders : Status(o) = "cancelled" /\ order[o].reason = "gateway_closed"
                         => trade[o] \in {"closed", "refunded"}

(* A payer is never sent to a cashier of an order that is closed.           *)
UrlOnlyIfPayable == \A o \in Orders : order[o].url => Status(o) # "cancelled"

(* One purchase is one order: a payer with several tabs, each with its own  *)
(* request key, has at most one pending order of a product.                 *)
OnePending == \A p \in Products : Cardinality(Pending(p)) <= 1

(* Every paid subscription holds exactly the time it was paid for, and no    *)
(* other order does: the term is written in the transaction that settles.   *)
PaidHasTerm ==
    /\ {t.id : t \in terms}
         = {o \in Orders : Status(o) = "paid" /\ order[o].product # TopUp}
    /\ TermsDisjoint

(* Money that the gateway keeps is credited in the end, without any         *)
(* notification: also for an order that was cancelled while a cashier of it *)
(* was open.                                                                *)
KeptMoneyIsCredited(o) == trade[o] = "paid" ~> (credited[o] = 1 \/ trade[o] # "paid")

=============================================================================
