---------------------------- MODULE BillingProofs ----------------------------
(***************************************************************************)
(* Proofs about orders and prepaid terms (Payments, Subscriptions), for    *)
(* any number of orders, calls, request keys, plans and operators.         *)
(* The second part is about what a paid term buys: the activation of       *)
(* desktops (DesktopActivation), for any number of workers and machines;   *)
(* the third about paid steps under the cap of a request (CreditCap), for  *)
(* any number of steps, processes and pollers.                             *)
(***************************************************************************)
EXTENDS MCBilling, DesktopActivation, FiniteSetTheorems, WellFoundedInduction, TLAPS

(***************************************************************************)
(* The composition that the theorems are about: the orders with every step *)
(* of Payments, and beside them the operators' console, the allowance of   *)
(* the period and the clock (Subscriptions without purchases, which here   *)
(* are made by settled orders only).                                       *)
(***************************************************************************)
Operating ==
    \/ \E id \in TermIds \ Orders, plan \in Plans, n \in Cycles : AdminGrant(id, plan, n)
    \/ \E a \in Operators : \/ \E t \in terms : AdminOpen(a, t)
                            \/ \E plan \in Plans, end \in 1 .. (MaxTime + Horizon) :
                                   AdminChange(a, plan, end)
                            \/ AdminCancel(a)
    \/ Touch
    \/ Tick

WholeNext == Next \/ (Operating /\ UNCHANGED payVars)
WholeSpec == Init /\ [][WholeNext]_vars

-----------------------------------------------------------------------------
(* The inductive invariant of the orders. *)

Trades   == {"none", "wait", "paid", "closed", "refunded"}
Taken    == {"paid", "refunded"}
Shut     == {"closed", "refunded"}
OrderRow == [status : {"none", "pending", "paid", "cancelled"},
             product : Products \cup {Free}, reason : Reasons, url : BOOLEAN]
CallRow  == [at : Points, op : Ops, order : Orders \cup {NoOrder},
             receipt : {"none", "paid", "closed"}, reconcile : BOOLEAN, tried : BOOLEAN]

\* Calls and keys name orders that exist, and trades are of such orders.
Named  == /\ \A c \in Calls : call[c].at # "idle" =>
               call[c].order \in Orders /\ Status(call[c].order) # "none"
          /\ \A k \in Keys : keyed[k] # NoOrder => Status(keyed[k]) # "none"
Exists == \A o \in Orders : /\ trade[o] # "none" => Status(o) # "none"
                            /\ o \in cashier => Status(o) # "none"
                            /\ Status(o) # "none" => order[o].product \in Products

\* What the gateway has told, in a notification or an answer, is true for good.
NotesTrue   == \A o \in Orders : /\ "paid" \in notes[o] => trade[o] \in Taken
                                 /\ "closed" \in notes[o] => trade[o] \in Shut
AnswersTrue == \A c \in Calls : /\ call[c].receipt = "paid" => trade[call[c].order] \in Taken
                                /\ call[c].receipt = "closed" => trade[call[c].order] \in Shut
                                /\ call[c].receipt # "none" => call[c].order \in Orders
                                /\ call[c].at = "apply" => call[c].receipt # "none"
PaidWasTaken  == \A o \in Orders : Status(o) = "paid" => trade[o] \in Taken
SinglePending == \A p \in Products : \A o, q \in Pending(p) : o = q

PayInv == /\ TypeOK /\ Named /\ Exists /\ NotesTrue /\ AnswersTrue
          /\ CreditedOnce /\ PaidWasTaken /\ ClosedHoldsNoMoney
          /\ UrlOnlyIfPayable /\ SinglePending

LEMMA PayTypes ==
  ASSUME TypeOK
  PROVE  /\ order \in [Orders -> OrderRow] /\ keyed \in [Keys -> Orders \cup {NoOrder}]
         /\ credited \in [Orders -> Nat] /\ trade \in [Orders -> Trades]
         /\ cashier \subseteq Orders /\ notes \in [Orders -> SUBSET {"paid", "closed"}]
         /\ call \in [Calls -> CallRow]
  BY DEF TypeOK, OrderRow, CallRow, Trades

-----------------------------------------------------------------------------
(* What a step does to the gateway, *)
TradesGoOn ==
  /\ trade' \in [Orders -> Trades]
  /\ notes' \in [Orders -> SUBSET {"paid", "closed"}]
  /\ \A o \in Orders :
       /\ trade[o] \in Taken => trade'[o] \in Taken
       /\ trade[o] \in Shut => trade'[o] \in Shut
       /\ trade'[o] # "none" => trade[o] # "none" \/ o \in cashier
       /\ "paid" \in notes'[o] => "paid" \in notes[o] \/ trade'[o] \in Taken
       /\ "closed" \in notes'[o] => "closed" \in notes[o] \/ trade'[o] \in Shut

(* ... to one order, *)
Created(o) ==
  /\ Status(o) = "none" /\ order'[o].status = "pending" /\ order'[o].product \in Products
  /\ order'[o].reason = order[o].reason /\ order'[o].url = order[o].url
  /\ Pending(order'[o].product) = {}
  /\ credited'[o] = credited[o]
  /\ \A q \in Orders \ {o} : order'[q] = order[q]
Settled(o) ==
  /\ Status(o) \notin {"none", "paid"} /\ order'[o].status = "paid"
  /\ order'[o].product = order[o].product /\ trade[o] \in Taken
  /\ credited'[o] = credited[o] + 1
Shuts(o) ==
  /\ Status(o) \notin {"none", "paid"} /\ order'[o].status = "cancelled"
  /\ order'[o].product = order[o].product /\ ~order'[o].url
  /\ order'[o].reason = "gateway_closed" => trade[o] \in Shut
  /\ credited'[o] = credited[o]
Stored(o) ==
  /\ Status(o) = "pending" /\ order'[o].status = "pending"
  /\ order'[o].product = order[o].product /\ credited'[o] = credited[o]
Kept(o) == order'[o] = order[o] /\ credited'[o] = credited[o]

OrdersGoOn ==
  /\ order' \in [Orders -> OrderRow] /\ credited' \in [Orders -> Nat]
  /\ \A o \in Orders : Kept(o) \/ Created(o) \/ Settled(o) \/ Shuts(o) \/ Stored(o)

(* ... and to calls, keys and cashiers. *)
CallsGoOn ==
  /\ call' \in [Calls -> CallRow]
  /\ \A c \in Calls :
       /\ call'[c].at # "idle" =>
            call'[c].order \in Orders /\ order'[call'[c].order].status # "none"
       /\ \/ call'[c].receipt = call[c].receipt /\ call'[c].order = call[c].order
          \/ /\ call'[c].receipt = "paid" => trade'[call'[c].order] \in Taken
             /\ call'[c].receipt = "closed" => trade'[call'[c].order] \in Shut
             /\ call'[c].receipt # "none" => call'[c].order \in Orders
       /\ call'[c].at = "apply" => call'[c].receipt # "none"
KeysGoOn ==
  /\ keyed' \in [Keys -> Orders \cup {NoOrder}] /\ cashier' \subseteq Orders
  /\ \A k \in Keys : keyed'[k] # NoOrder => order'[keyed'[k]].status # "none"
  /\ \A o \in cashier' : order'[o].status # "none"

PayGoesOn == TradesGoOn /\ OrdersGoOn /\ CallsGoOn /\ KeysGoOn

LEMMA StatusKept ==
  ASSUME OrdersGoOn, NEW o \in Orders
  PROVE  /\ Status(o) # "none" => order'[o].status # "none"
         /\ Status(o) # "none" => order'[o].product = order[o].product
         /\ Status(o) = "paid" => order'[o].status = "paid"
         /\ Status(o) = "cancelled" => order'[o].status # "pending"
  BY DEF OrdersGoOn, Kept, Created, Settled, Shuts, Stored, Status

\* Together these keep the invariant.
LEMMA PayKept ==
  ASSUME PayInv, PayGoesOn
  PROVE  PayInv'
  <1>1. TradesGoOn /\ OrdersGoOn /\ CallsGoOn /\ KeysGoOn
    BY DEF PayGoesOn
  <1>2. TypeOK /\ order \in [Orders -> OrderRow] /\ trade \in [Orders -> Trades]
    BY PayTypes DEF PayInv
  <1>3. TypeOK'
    BY <1>1 DEF TypeOK, OrderRow, CallRow, Trades, TradesGoOn, OrdersGoOn, CallsGoOn, KeysGoOn
  <1>4. Named'
    BY <1>1 DEF Named, CallsGoOn, KeysGoOn, Status
  <1>5. Exists'
    <2> SUFFICES ASSUME NEW o \in Orders
                 PROVE  /\ trade'[o] # "none" => order'[o].status # "none"
                        /\ o \in cashier' => order'[o].status # "none"
                        /\ order'[o].status # "none" => order'[o].product \in Products
      BY DEF Exists, Status
    <2>1. /\ trade[o] # "none" => Status(o) # "none"
          /\ o \in cashier => Status(o) # "none"
          /\ Status(o) # "none" => order[o].product \in Products
      BY DEF PayInv, Exists
    <2>2. trade'[o] # "none" => order'[o].status # "none"
      BY <1>1, <2>1, StatusKept DEF TradesGoOn
    <2>3. o \in cashier' => order'[o].status # "none"
      BY <1>1 DEF KeysGoOn
    <2>4. order'[o].status # "none" => order'[o].product \in Products
      BY <1>1, <2>1 DEF OrdersGoOn, Kept, Created, Settled, Shuts, Stored, Status
    <2> QED
      BY <2>2, <2>3, <2>4
  <1>6. NotesTrue'
    BY <1>1 DEF PayInv, NotesTrue, TradesGoOn
  <1>7. AnswersTrue'
    <2> SUFFICES ASSUME NEW c \in Calls
                 PROVE  /\ call'[c].receipt = "paid" => trade'[call'[c].order] \in Taken
                        /\ call'[c].receipt = "closed" => trade'[call'[c].order] \in Shut
                        /\ call'[c].receipt # "none" => call'[c].order \in Orders
                        /\ call'[c].at = "apply" => call'[c].receipt # "none"
      BY DEF AnswersTrue
    <2>1. CASE call'[c].receipt = call[c].receipt /\ call'[c].order = call[c].order
      <3>1. /\ call[c].receipt = "paid" => trade[call[c].order] \in Taken
            /\ call[c].receipt = "closed" => trade[call[c].order] \in Shut
            /\ call[c].receipt # "none" => call[c].order \in Orders
        BY DEF PayInv, AnswersTrue
      <3> QED
        BY <1>1, <2>1, <3>1 DEF TradesGoOn, CallsGoOn
    <2> QED
      BY <1>1, <2>1 DEF CallsGoOn
  <1>8. CreditedOnce' /\ PaidWasTaken'
    <2> SUFFICES ASSUME NEW o \in Orders
                 PROVE  /\ credited'[o] = IF order'[o].status = "paid" THEN 1 ELSE 0
                        /\ order'[o].status = "paid" => trade'[o] \in Taken
      BY DEF CreditedOnce, PaidWasTaken, Status
    <2>1. /\ credited[o] = IF Status(o) = "paid" THEN 1 ELSE 0
          /\ Status(o) = "paid" => trade[o] \in Taken
      BY DEF PayInv, CreditedOnce, PaidWasTaken
    <2>2. trade[o] \in Taken => trade'[o] \in Taken
      BY <1>1 DEF TradesGoOn
    <2> QED
      BY <1>1, <2>1, <2>2 DEF OrdersGoOn, Kept, Created, Settled, Shuts, Stored, Status
  <1>9. ClosedHoldsNoMoney'
    <2> SUFFICES ASSUME NEW o \in Orders, order'[o].status = "cancelled",
                        order'[o].reason = "gateway_closed"
                 PROVE  trade'[o] \in Shut
      BY DEF ClosedHoldsNoMoney, Status, Shut
    <2>1. trade[o] \in Shut => trade'[o] \in Shut
      BY <1>1 DEF TradesGoOn
    <2>2. Kept(o) \/ Shuts(o)
      BY <1>1 DEF OrdersGoOn, Created, Settled, Stored
    <2> QED
      BY <2>1, <2>2 DEF Kept, Shuts, PayInv, ClosedHoldsNoMoney, Status, Shut
  <1>10. UrlOnlyIfPayable'
    <2> SUFFICES ASSUME NEW o \in Orders, order'[o].status = "cancelled", order'[o].url
                 PROVE  FALSE
      BY DEF UrlOnlyIfPayable, Status
    <2>2. Kept(o) \/ Shuts(o)
      BY <1>1 DEF OrdersGoOn, Created, Settled, Stored
    <2> QED
      BY <2>2 DEF Kept, Shuts, PayInv, UrlOnlyIfPayable, Status
  <1>11. SinglePending'
    <2> SUFFICES ASSUME NEW p \in Products, NEW o \in Orders, NEW q \in Orders,
                        order'[o].status = "pending", order'[o].product = p,
                        order'[q].status = "pending", order'[q].product = p
                 PROVE  o = q
      BY DEF SinglePending, Pending, Status
    <2>1. ASSUME NEW x \in Orders, order'[x].status = "pending", ~Created(x),
                 order'[x].product = p
          PROVE  x \in Pending(p)
      BY <1>1, <2>1 DEF OrdersGoOn, Kept, Settled, Shuts, Stored, Pending, Status
    <2>2. ASSUME NEW x \in Orders, NEW y \in Orders, Created(x), order'[x].product = p,
                 order'[y].status = "pending", order'[y].product = p, x # y
          PROVE  FALSE
      <3>1. order'[y] = order[y] /\ Pending(p) = {}
        BY <2>2 DEF Created
      <3> QED
        BY <2>2, <3>1 DEF Pending, Status
    <2> QED
      BY <2>1, <2>2 DEF PayInv, SinglePending
  <1> QED
    BY <1>3, <1>4, <1>5, <1>6, <1>7, <1>8, <1>9, <1>10, <1>11 DEF PayInv

-----------------------------------------------------------------------------
(* Steps that leave a part alone. *)

LEMMA SameTrades ==
  ASSUME PayInv, UNCHANGED <<trade, notes>>
  PROVE  TradesGoOn
  BY PayTypes DEF PayInv, TradesGoOn

LEMMA SameOrders ==
  ASSUME PayInv, UNCHANGED <<order, credited>>
  PROVE  OrdersGoOn
  BY PayTypes DEF PayInv, OrdersGoOn, Kept

LEMMA SameCalls ==
  ASSUME PayInv, OrdersGoOn, call' = call
  PROVE  CallsGoOn
  <1>1. call \in [Calls -> CallRow]
    BY PayTypes DEF PayInv
  <1>2. \A c \in Calls : call[c].at # "idle" =>
          call[c].order \in Orders /\ order'[call[c].order].status # "none"
    BY StatusKept DEF PayInv, Named
  <1> QED
    BY <1>1, <1>2 DEF CallsGoOn, PayInv, AnswersTrue

LEMMA SameKeys ==
  ASSUME PayInv, OrdersGoOn, keyed' = keyed, cashier' = cashier
  PROVE  KeysGoOn
  <1>1. keyed \in [Keys -> Orders \cup {NoOrder}] /\ cashier \subseteq Orders
    BY PayTypes DEF PayInv
  <1>2. \A k \in Keys : keyed[k] # NoOrder => order'[keyed[k]].status # "none"
    BY <1>1, StatusKept DEF PayInv, Named
  <1>3. \A o \in cashier : order'[o].status # "none"
    BY <1>1, StatusKept DEF PayInv, Exists
  <1> QED
    BY <1>1, <1>2, <1>3 DEF KeysGoOn

-----------------------------------------------------------------------------
(* The gateway. *)

LEMMA NotifyFact ==
  ASSUME TypeOK, NEW o \in Orders, NEW kind \in {"paid", "closed"}, Notify(o, kind)
  PROVE  /\ notes' \in [Orders -> SUBSET {"paid", "closed"}]
         /\ \A q \in Orders \ {o} : notes'[q] = notes[q]
         /\ notes'[o] \subseteq notes[o] \cup {kind}
  <1>1. notes \in [Orders -> SUBSET {"paid", "closed"}]
    BY PayTypes
  <1>2. CASE Callbacks
    <2>1. notes' = [notes EXCEPT ![o] = notes[o] \cup {kind}]
      BY <1>1, <1>2 DEF Notify
    <2> QED
      BY <1>1, <2>1
  <1>3. CASE ~Callbacks
    BY <1>1, <1>3 DEF Notify
  <1> QED
    BY <1>2, <1>3

LEMMA TradeStep ==
  ASSUME PayInv, NEW o \in Orders, NEW s \in Trades, trade' = [trade EXCEPT ![o] = s],
         \/ trade[o] = "none" /\ s = "wait" /\ o \in cashier /\ notes' = notes
         \/ trade[o] = "wait" /\ s = "paid" /\ Notify(o, "paid")
         \/ trade[o] = "wait" /\ s = "closed" /\ Notify(o, "closed")
         \/ trade[o] = "paid" /\ s = "refunded" /\ Notify(o, "closed")
  PROVE  TradesGoOn
  <1>1. trade \in [Orders -> Trades] /\ notes \in [Orders -> SUBSET {"paid", "closed"}] /\ TypeOK
    BY PayTypes DEF PayInv
  <1>2. trade' \in [Orders -> Trades] /\ trade'[o] = s
        /\ \A q \in Orders \ {o} : trade'[q] = trade[q]
    BY <1>1
  <1>3. /\ notes' \in [Orders -> SUBSET {"paid", "closed"}]
        /\ \A q \in Orders \ {o} : notes'[q] = notes[q]
        /\ "paid" \in notes'[o] => "paid" \in notes[o] \/ s \in Taken
        /\ "closed" \in notes'[o] => "closed" \in notes[o] \/ s \in Shut
    BY <1>1, NotifyFact DEF Taken, Shut
  <1>4. /\ trade[o] \in Taken => s \in Taken
        /\ trade[o] \in Shut => s \in Shut
        /\ s # "none" => trade[o] # "none" \/ o \in cashier
    BY DEF Taken, Shut
  <1> QED
    BY <1>2, <1>3, <1>4 DEF TradesGoOn

LEMMA GatewayStep ==
  ASSUME PayInv, NEW o \in Orders, OpenCashier(o) \/ BuyerPays(o) \/ GatewayCloses(o)
  PROVE  PayGoesOn /\ UNCHANGED <<order, subVars>>
  <1>1. UNCHANGED <<order, keyed, credited, cashier, call, subVars>>
    BY DEF OpenCashier, BuyerPays, GatewayCloses
  <1>2. {"wait", "paid", "closed", "refunded"} \subseteq Trades
    BY DEF Trades
  <1>3. TradesGoOn
    BY <1>2, TradeStep DEF OpenCashier, BuyerPays, GatewayCloses
  <1> QED
    BY <1>1, <1>3, SameOrders, SameCalls, SameKeys DEF PayGoesOn

-----------------------------------------------------------------------------
(* Calls. *)

LEMMA IdleCallFact ==
  /\ IdleCall \in CallRow /\ IdleCall.at = "idle" /\ IdleCall.receipt = "none"
  /\ \A op \in Ops, o \in Orders :
       /\ [IdleCall EXCEPT !.at = "begin", !.op = op, !.order = o] \in CallRow
       /\ [IdleCall EXCEPT !.at = "begin", !.op = op, !.order = o].at = "begin"
       /\ [IdleCall EXCEPT !.at = "begin", !.op = op, !.order = o].order = o
       /\ [IdleCall EXCEPT !.at = "begin", !.op = op, !.order = o].receipt = "none"
  <1>1. {"idle", "begin"} \subseteq Points /\ "refresh" \in Ops
    BY DEF Points, Ops
  <1> QED
    BY <1>1 DEF IdleCall, CallRow

\* One call is set to a record that names an order and holds a true answer.
LEMMA SetCall ==
  ASSUME PayInv, OrdersGoOn, NEW c \in Calls, NEW row \in CallRow,
         call' = [call EXCEPT ![c] = row],
         row.at # "idle" => row.order \in Orders /\ order'[row.order].status # "none",
         \/ row.receipt = call[c].receipt /\ row.order = call[c].order
         \/ /\ row.receipt = "paid" => trade'[row.order] \in Taken
            /\ row.receipt = "closed" => trade'[row.order] \in Shut
            /\ row.receipt # "none" => row.order \in Orders,
         row.at = "apply" => row.receipt # "none"
  PROVE  CallsGoOn
  <1>1. call \in [Calls -> CallRow]
    BY PayTypes DEF PayInv
  <1>2. call' \in [Calls -> CallRow] /\ call'[c] = row
        /\ \A d \in Calls \ {c} : call'[d] = call[d]
    BY <1>1
  <1>3. \A d \in Calls : call[d].at # "idle" =>
          call[d].order \in Orders /\ order'[call[d].order].status # "none"
    BY StatusKept DEF PayInv, Named
  <1>4. \A d \in Calls : call[d].at = "apply" => call[d].receipt # "none"
    BY DEF PayInv, AnswersTrue
  <1> QED
    BY <1>2, <1>3, <1>4 DEF CallsGoOn

LEMMA FinishStep ==
  ASSUME PayInv, OrdersGoOn, NEW c \in Calls, Finish(c)
  PROVE  CallsGoOn
  <1>1. call' = [call EXCEPT ![c] = IdleCall]
    BY DEF Finish
  <1> QED
    BY <1>1, IdleCallFact, SetCall

LEMMA StartStep ==
  ASSUME PayInv, OrdersGoOn, NEW c \in Calls, NEW op \in Ops, NEW o \in Orders,
         Start(c, op, o), order'[o].status # "none"
  PROVE  CallsGoOn
  <1> DEFINE row == [IdleCall EXCEPT !.at = "begin", !.op = op, !.order = o]
  <1>1. call' = [call EXCEPT ![c] = row] /\ row \in CallRow /\ row.at = "begin"
        /\ row.order = o /\ row.receipt = "none"
    BY IdleCallFact DEF Start
  <1> HIDE DEF row
  <1> QED
    BY <1>1, SetCall

\* A call in progress names an order.
LEMMA CallFact ==
  ASSUME PayInv, NEW c \in Calls, call[c].at # "idle"
  PROVE  /\ call[c] \in CallRow /\ call \in [Calls -> CallRow]
         /\ call[c].order \in Orders /\ Status(call[c].order) # "none"
  BY PayTypes DEF PayInv, Named

LEMMA GoToStep ==
  ASSUME PayInv, OrdersGoOn, NEW c \in Calls, call[c].at # "idle",
         NEW when \in Points \ {"apply"}, GoTo(c, when)
  PROVE  CallsGoOn
  <1>1. call[c] \in CallRow /\ call \in [Calls -> CallRow] /\ call[c].order \in Orders
        /\ order'[call[c].order].status # "none"
    BY CallFact, StatusKept
  <1> DEFINE row == [call[c] EXCEPT !.at = when]
  <1>2. row \in CallRow /\ row.at = when /\ row.order = call[c].order /\ row.receipt = call[c].receipt
    BY <1>1 DEF CallRow
  <1>3. call' = [call EXCEPT ![c] = row]
    BY <1>1 DEF GoTo
  <1> HIDE DEF row
  <1> QED
    BY <1>1, <1>2, <1>3, SetCall

\* An answer of the gateway is taken down.
LEMMA AnswerStep ==
  ASSUME PayInv, OrdersGoOn, NEW c \in Calls, call[c].at # "idle", NEW when \in Points,
         NEW r \in {"none", "paid", "closed"},
         call' = [call EXCEPT ![c].receipt = r, ![c].at = when],
         r = "paid" => trade'[call[c].order] \in Taken,
         r = "closed" => trade'[call[c].order] \in Shut,
         when = "apply" => r # "none"
  PROVE  CallsGoOn
  <1>1. call[c] \in CallRow /\ call \in [Calls -> CallRow] /\ call[c].order \in Orders
        /\ order'[call[c].order].status # "none"
    BY CallFact, StatusKept
  <1> DEFINE row == [call[c] EXCEPT !.receipt = r, !.at = when]
  <1>2. row \in CallRow /\ row.at = when /\ row.order = call[c].order /\ row.receipt = r
    BY <1>1 DEF CallRow
  <1>3. call' = [call EXCEPT ![c] = row]
    BY <1>1
  <1> HIDE DEF row
  <1>4. /\ row.receipt = "paid" => trade'[row.order] \in Taken
        /\ row.receipt = "closed" => trade'[row.order] \in Shut
        /\ row.receipt # "none" => row.order \in Orders
        /\ row.at # "idle" => row.order \in Orders /\ order'[row.order].status # "none"
        /\ row.at = "apply" => row.receipt # "none"
    BY <1>1, <1>2
  <1> QED
    BY <1>2, <1>3, <1>4, SetCall

-----------------------------------------------------------------------------
(* Orders, and the terms that follow them. *)

PaidSub(o) == Status(o) = "paid" /\ order[o].product # TopUp

\* The terms are left alone, or the order that is settled buys one.
Buys(o) ==
  /\ order[o].product \in Plans /\ Status(o) # "paid"
  /\ \E n \in Cycles : ApplySubscription(o, order[o].product, n)
  /\ order'[o].status = "paid" /\ order'[o].product = order[o].product
  /\ \A q \in Orders \ {o} : order'[q] = order[q]
TermsFollow ==
  \/ UNCHANGED subVars /\ \A o \in Orders : PaidSub(o)' <=> PaidSub(o)
  \/ \E o \in Orders : Buys(o)

LEMMA SameTerms ==
  ASSUME UNCHANGED <<order, subVars>>
  PROVE  TermsFollow
  BY DEF TermsFollow, PaidSub, Status

\* One order is written.
LEMMA SetOrder ==
  ASSUME PayInv, NEW o \in Orders, NEW row \in OrderRow, order' = [order EXCEPT ![o] = row]
  PROVE  /\ order' \in [Orders -> OrderRow] /\ order'[o] = row
         /\ \A q \in Orders \ {o} : order'[q] = order[q]
  BY PayTypes DEF PayInv

LEMMA OrderFact ==
  ASSUME PayInv, NEW o \in Orders
  PROVE  /\ order[o] \in OrderRow /\ order \in [Orders -> OrderRow]
         /\ credited \in [Orders -> Nat]
  BY PayTypes DEF PayInv

LEMMA SettleStep ==
  ASSUME PayInv, NEW o \in Orders, Status(o) # "none", trade[o] \in Taken, Settle(o)
  PROVE  OrdersGoOn /\ TermsFollow
  <1>1. CASE Status(o) = "paid"
    BY <1>1, SameOrders, SameTerms DEF Settle
  <1>2. CASE Status(o) # "paid"
    <2>1. order[o] \in OrderRow /\ order \in [Orders -> OrderRow] /\ credited \in [Orders -> Nat]
      BY OrderFact
    <2> DEFINE row == [order[o] EXCEPT !.status = "paid"]
    <2>2. row \in OrderRow /\ row.status = "paid" /\ row.product = order[o].product
      BY <2>1 DEF OrderRow
    <2>3. order' = [order EXCEPT ![o] = row]
      BY <1>2, <2>1 DEF Settle
    <2>4. credited' = [credited EXCEPT ![o] = credited[o] + 1]
      BY <1>2, <2>1 DEF Settle
    <2>5. credited' \in [Orders -> Nat] /\ credited'[o] = credited[o] + 1
          /\ \A q \in Orders \ {o} : credited'[q] = credited[q]
      BY <2>1, <2>4
    <2> HIDE DEF row
    <2>6. /\ order' \in [Orders -> OrderRow] /\ order'[o] = row
          /\ \A q \in Orders \ {o} : order'[q] = order[q]
      BY <2>2, <2>3, SetOrder
    <2>7. Settled(o) /\ \A q \in Orders \ {o} : Kept(q)
      BY <1>2, <2>2, <2>5, <2>6 DEF Settled, Kept
    <2>8. OrdersGoOn
      BY <2>5, <2>6, <2>7 DEF OrdersGoOn
    <2>9. TermsFollow
      <3>1. CASE order[o].product = TopUp
        <4>1. UNCHANGED subVars
          BY <1>2, <3>1 DEF Settle
        <4> QED
          BY <1>2, <2>2, <2>6, <3>1, <4>1 DEF TermsFollow, PaidSub, Status
      <3>2. CASE order[o].product # TopUp
        <4>1. order[o].product \in Plans
          BY <3>2 DEF PayInv, Exists, Products
        <4>2. Buys(o)
          BY <1>2, <2>2, <2>6, <3>2, <4>1 DEF Settle, Buys
        <4> QED
          BY <4>2 DEF TermsFollow
      <3> QED
        BY <3>1, <3>2
    <2> QED
      BY <2>8, <2>9
  <1> QED
    BY <1>1, <1>2

\* An order is cancelled, for one of two reasons.
LEMMA CancelStep ==
  ASSUME PayInv, NEW o \in Orders, Status(o) \notin {"none", "paid"}, NEW r \in Reasons,
         order' = [order EXCEPT ![o] = [order[o] EXCEPT !.status = "cancelled", !.reason = r,
                                                        !.url = FALSE]],
         r = "gateway_closed" => trade[o] \in Shut, UNCHANGED <<credited, subVars>>
  PROVE  OrdersGoOn /\ TermsFollow
  <1>1. order[o] \in OrderRow /\ credited \in [Orders -> Nat]
    BY OrderFact
  <1> DEFINE row == [order[o] EXCEPT !.status = "cancelled", !.reason = r, !.url = FALSE]
  <1>2. row \in OrderRow /\ row.status = "cancelled" /\ row.product = order[o].product
        /\ row.reason = r /\ row.url = FALSE
    BY <1>1 DEF OrderRow
  <1>3. order' = [order EXCEPT ![o] = row]
    OBVIOUS
  <1> HIDE DEF row
  <1>4. /\ order' \in [Orders -> OrderRow] /\ order'[o] = row
        /\ \A q \in Orders \ {o} : order'[q] = order[q]
    BY <1>2, <1>3, SetOrder
  <1>5. Shuts(o) /\ \A q \in Orders \ {o} : Kept(q)
    BY <1>2, <1>4 DEF Shuts, Kept
  <1>6. OrdersGoOn
    BY <1>1, <1>4, <1>5 DEF OrdersGoOn
  <1>7. TermsFollow
    BY <1>2, <1>4 DEF TermsFollow, PaidSub, Status
  <1> QED
    BY <1>6, <1>7

LEMMA ReceiptStep ==
  ASSUME PayInv, NEW o \in Orders, Status(o) # "none", NEW r \in {"paid", "closed"},
         ApplyReceipt(o, r), r = "paid" => trade[o] \in Taken, r = "closed" => trade[o] \in Shut
  PROVE  OrdersGoOn /\ TermsFollow
  <1>1. CASE r = "paid"
    BY <1>1, SettleStep DEF ApplyReceipt
  <1>2. CASE r = "closed"
    <2>1. ApplyClosed(o) /\ UNCHANGED <<credited, subVars>>
      BY <1>2 DEF ApplyReceipt, ApplyClosed
    <2>2. CASE Status(o) = "paid"
      BY <2>1, <2>2, SameOrders, SameTerms DEF ApplyClosed
    <2>3. CASE Status(o) # "paid"
      <3>1. order' = [order EXCEPT ![o] = [order[o] EXCEPT !.status = "cancelled",
                                             !.reason = "gateway_closed", !.url = FALSE]]
        BY <2>1, <2>3, OrderFact DEF ApplyClosed
      <3>2. "gateway_closed" \in Reasons
        BY DEF Reasons
      <3> QED
        BY <1>2, <2>1, <2>3, <3>1, <3>2, CancelStep
    <2> QED
      BY <2>2, <2>3
  <1> QED
    BY <1>1, <1>2

-----------------------------------------------------------------------------
(* Every step of Payments. *)

PayStep == PayGoesOn /\ TermsFollow

LEMMA WebhookStep ==
  ASSUME PayInv, NEW o \in Orders, NEW kind \in {"paid", "closed"}, Webhook(o, kind)
  PROVE  PayStep
  <1>1. kind \in notes[o] /\ ApplyReceipt(o, kind) /\ UNCHANGED <<keyed, trade, cashier, notes, call>>
    BY DEF Webhook
  <1>2. /\ kind = "paid" => trade[o] \in Taken
        /\ kind = "closed" => trade[o] \in Shut
        /\ trade[o] # "none"
    BY <1>1 DEF PayInv, NotesTrue, Taken, Shut
  <1>3. Status(o) # "none"
    BY <1>2 DEF PayInv, Exists
  <1>4. OrdersGoOn /\ TermsFollow
    BY <1>1, <1>2, <1>3, ReceiptStep
  <1> QED
    BY <1>1, <1>4, SameTrades, SameCalls, SameKeys DEF PayStep, PayGoesOn

\* Steps that only move a call.
LEMMA OnlyCallStep ==
  ASSUME PayInv, OnlyCall, OrdersGoOn => CallsGoOn
  PROVE  PayStep
  <1>1. UNCHANGED <<order, keyed, credited, trade, cashier, notes, subVars>>
    BY DEF OnlyCall
  <1>2. OrdersGoOn /\ TermsFollow /\ TradesGoOn
    BY <1>1, SameOrders, SameTerms, SameTrades
  <1> QED
    BY <1>1, <1>2, SameKeys DEF PayStep, PayGoesOn

LEMMA AskStep ==
  ASSUME PayInv, NEW c \in Calls, NEW op \in Ops, NEW o \in Orders, Request(c, op, o)
  PROVE  PayStep
  <1>1. OnlyCall /\ Start(c, op, o) /\ order'[o].status # "none"
    BY DEF Request, OnlyCall, Status
  <1> QED
    BY <1>1, OnlyCallStep, StartStep

LEMMA MovesStep ==
  ASSUME PayInv, NEW c \in Calls, call[c].at # "idle", OnlyCall,
         Finish(c) \/ \E when \in Points \ {"apply"} : GoTo(c, when)
  PROVE  PayStep
  BY FinishStep, GoToStep, OnlyCallStep

LEMMA PointFact == {"begin", "read", "query", "close_old", "requery", "apply", "view", "close",
                    "uncreated", "checkout", "write"} \subseteq Points
  BY DEF Points

LEMMA SimpleSteps ==
  ASSUME PayInv, NEW c \in Calls, Begin(c) \/ View(c) \/ Checkout(c) \/ Fail(c)
  PROVE  PayStep
  <1>1. call[c].at # "idle" /\ OnlyCall
    BY DEF Begin, View, Checkout, Fail, AtPoint
  <1>2. Finish(c) \/ \E when \in Points \ {"apply"} : GoTo(c, when)
    BY PointFact DEF Begin, View, Checkout, Fail
  <1> QED
    BY <1>1, <1>2, MovesStep

LEMMA ReadStep ==
  ASSUME PayInv, NEW c \in Calls, Read(c)
  PROVE  PayStep
  <1>1. call[c].at # "idle" /\ OnlyCall
    BY DEF Read, AtPoint
  <1>2. CASE Finish(c)
    BY <1>1, <1>2, MovesStep
  <1>3. CASE ~Finish(c)
    <2> DEFINE o == call[c].order
               old == Status(o) = "cancelled" /\ order[o].reason = "trade_not_created"
               row == [call[c] EXCEPT !.at = "query", !.reconcile = old]
    <2>1. call[c] \in CallRow /\ call \in [Calls -> CallRow] /\ o \in Orders /\ Status(o) # "none"
      BY <1>1, CallFact
    <2>2. call' = [call EXCEPT ![c].at = "query", ![c].reconcile = old]
      BY <1>3 DEF Read
    <2>3. call' = [call EXCEPT ![c] = row]
      BY <2>1, <2>2
    <2>4. old \in BOOLEAN
      OBVIOUS
    <2>5. row \in CallRow /\ row.at = "query" /\ row.order = o /\ row.receipt = call[c].receipt
      <3> HIDE DEF old
      <3> QED
        BY <2>1, <2>4, PointFact DEF CallRow
    <2> HIDE DEF row
    <2>6. order'[o].status # "none"
      BY <1>1, <2>1 DEF OnlyCall, Status
    <2>7. OrdersGoOn => CallsGoOn
      BY <2>1, <2>3, <2>5, <2>6, SetCall
    <2> QED
      BY <1>1, <2>7, OnlyCallStep
  <1> QED
    BY <1>2, <1>3

LEMMA ReceiptFact ==
  ASSUME NEW o \in Orders
  PROVE  /\ Receipt(o) \in {"none", "paid", "closed"}
         /\ Receipt(o) = "paid" => trade[o] \in Taken
         /\ Receipt(o) = "closed" => trade[o] \in Shut
  BY DEF Receipt, Taken, Shut

LEMMA QueryStep ==
  ASSUME PayInv, NEW c \in Calls, Query(c) \/ Requery(c)
  PROVE  PayStep
  <1>1. call[c].at # "idle" /\ OnlyCall
    BY DEF Query, Requery, AtPoint
  <1>2. CASE Finish(c)
    BY <1>1, <1>2, MovesStep
  <1>3. CASE \E when \in Points :
               /\ call' = [call EXCEPT ![c].receipt = Receipt(call[c].order), ![c].at = when]
               /\ when = "apply" => Receipt(call[c].order) # "none"
    <2>1. call[c].order \in Orders /\ trade' = trade
      BY <1>1, CallFact DEF OnlyCall
    <2>2. OrdersGoOn => CallsGoOn
      BY <1>1, <1>3, <2>1, ReceiptFact, AnswerStep
    <2> QED
      BY <1>1, <2>2, OnlyCallStep
  <1> QED
    BY <1>2, <1>3, PointFact DEF Query, Requery

LEMMA ApplyStep ==
  ASSUME PayInv, NEW c \in Calls, Apply(c)
  PROVE  PayStep
  <1> DEFINE o == call[c].order
  <1>1. /\ call[c].at = "apply" /\ ApplyReceipt(o, call[c].receipt) /\ GoTo(c, "view")
        /\ UNCHANGED <<keyed, trade, cashier, notes>>
    BY DEF Apply, AtPoint
  <1>2. o \in Orders /\ Status(o) # "none" /\ call[c] \in CallRow
    BY <1>1, CallFact
  <1>3. call[c].receipt \in {"paid", "closed"}
    BY <1>1, <1>2 DEF PayInv, AnswersTrue, CallRow
  <1>4. /\ call[c].receipt = "paid" => trade[o] \in Taken
        /\ call[c].receipt = "closed" => trade[o] \in Shut
    BY DEF PayInv, AnswersTrue
  <1>5. OrdersGoOn /\ TermsFollow
    <2> HIDE DEF o
    <2> QED BY <1>1, <1>2, <1>3, <1>4, ReceiptStep
  <1>6. CallsGoOn
    BY <1>1, <1>5, GoToStep, PointFact
  <1> QED
    BY <1>1, <1>5, <1>6, SameTrades, SameKeys DEF PayStep, PayGoesOn

LEMMA CloseSteps ==
  ASSUME PayInv, NEW c \in Calls, CloseOld(c) \/ Close(c)
  PROVE  PayStep
  <1> DEFINE o == call[c].order
  <1>1. UNCHANGED <<order, keyed, credited, cashier, subVars>> /\ call[c].at # "idle"
    BY DEF CloseOld, Close, AtPoint
  <1>2. o \in Orders /\ Status(o) # "none" /\ call[c] \in CallRow /\ call \in [Calls -> CallRow]
    BY <1>1, CallFact
  <1>3. OrdersGoOn /\ TermsFollow
    BY <1>1, SameOrders, SameTerms
  <1>4. CloseTrade(o) \/ NoGateway
    BY DEF CloseOld, Close
  <1>5. CloseTrade(o) => trade' = [trade EXCEPT ![o] = "closed"] /\ trade[o] = "wait"
                         /\ Notify(o, "closed")
    BY DEF CloseTrade
  <1>6. TradesGoOn
    <2>1. CASE CloseTrade(o)
      <3> HIDE DEF o
      <3> QED BY <1>2, <1>5, <2>1, TradeStep DEF Trades
    <2>2. CASE NoGateway
      BY <2>2, SameTrades DEF NoGateway
    <2> QED
      BY <1>4, <2>1, <2>2
  <1>7. CallsGoOn
    <2>1. CASE CloseTrade(o) /\ call' = [call EXCEPT ![c].receipt = "closed", ![c].at = "apply"]
      <3>1. trade'[o] \in Shut
        BY <1>2, <1>5, <2>1, PayTypes DEF PayInv, Shut
      <3> QED
        BY <1>1, <1>3, <2>1, <3>1, AnswerStep, PointFact
    <2>2. CASE \E when \in {"requery", "uncreated"} : GoTo(c, when)
      BY <1>1, <1>3, <2>2, GoToStep, PointFact
    <2>3. CASE call' = [call EXCEPT ![c].at = "read", ![c].tried = TRUE]
      <3> DEFINE row == [call[c] EXCEPT !.at = "read", !.tried = TRUE]
      <3>1. row \in CallRow /\ row.at = "read" /\ row.order = o /\ row.receipt = call[c].receipt
        BY <1>2, PointFact DEF CallRow
      <3>2. call' = [call EXCEPT ![c] = row]
        BY <1>2, <2>3
      <3>3. order'[o].status # "none"
        BY <1>1, <1>2 DEF Status
      <3> HIDE DEF row
      <3> QED
        BY <1>2, <1>3, <3>1, <3>2, <3>3, SetCall
    <2> QED
      BY <2>1, <2>2, <2>3 DEF CloseOld, Close
  <1> QED
    BY <1>1, <1>3, <1>6, <1>7, SameKeys DEF PayStep, PayGoesOn

LEMMA CancelUncreatedStep ==
  ASSUME PayInv, NEW c \in Calls, CancelUncreated(c)
  PROVE  PayStep
  <1> DEFINE o == call[c].order
  <1>1. /\ call[c].at # "idle" /\ Finish(c)
        /\ UNCHANGED <<keyed, credited, trade, cashier, notes, subVars>>
    BY DEF CancelUncreated, AtPoint
  <1>2. o \in Orders
    BY <1>1, CallFact
  <1>3. OrdersGoOn /\ TermsFollow
    <2>1. CASE Status(o) # "pending"
      <3>1. order' = order
        BY <2>1 DEF CancelUncreated
      <3> QED
        BY <1>1, <3>1, SameOrders, SameTerms
    <2>2. CASE Status(o) = "pending"
      <3>1. order' = [order EXCEPT ![o] = [order[o] EXCEPT !.status = "cancelled",
                                             !.reason = "trade_not_created", !.url = FALSE]]
        BY <1>2, <2>2, OrderFact DEF CancelUncreated
      <3>2. "trade_not_created" \in Reasons
        BY DEF Reasons
      <3> HIDE DEF o
      <3> QED
        BY <1>1, <1>2, <2>2, <3>1, <3>2, CancelStep
    <2> QED
      BY <2>1, <2>2
  <1> QED
    BY <1>1, <1>3, SameTrades, SameKeys, FinishStep DEF PayStep, PayGoesOn

LEMMA WriteCheckoutStep ==
  ASSUME PayInv, NEW c \in Calls, WriteCheckout(c)
  PROVE  PayStep
  <1> DEFINE o == call[c].order
             row == [order[o] EXCEPT !.url = TRUE]
  <1>1. /\ call[c].at # "idle" /\ Finish(c)
        /\ UNCHANGED <<keyed, credited, trade, notes, subVars>>
    BY DEF WriteCheckout, AtPoint
  <1>2. o \in Orders /\ Status(o) # "none" /\ order[o] \in OrderRow
        /\ order \in [Orders -> OrderRow] /\ credited \in [Orders -> Nat]
    BY <1>1, CallFact, OrderFact
  <1>3. order' = order \/ (Status(o) = "pending" /\ order' = [order EXCEPT ![o] = row])
    BY <1>2 DEF WriteCheckout
  <1>4. cashier' \subseteq cashier \cup {o}
    BY DEF WriteCheckout
  <1>5. OrdersGoOn /\ TermsFollow
    <2>1. CASE order' = order
      BY <1>1, <2>1, SameOrders, SameTerms
    <2>2. CASE Status(o) = "pending" /\ order' = [order EXCEPT ![o] = row]
      <3>1. row \in OrderRow /\ row.status = order[o].status /\ row.product = order[o].product
        BY <1>2 DEF OrderRow
      <3> HIDE DEF row, o
      <3>2. /\ order' \in [Orders -> OrderRow] /\ order'[o] = row
            /\ \A q \in Orders \ {o} : order'[q] = order[q]
        BY <1>2, <2>2, <3>1, SetOrder
      <3>3. Stored(o) /\ \A q \in Orders \ {o} : Kept(q)
        BY <1>1, <2>2, <3>1, <3>2 DEF Stored, Kept, Status
      <3>4. OrdersGoOn
        BY <1>1, <1>2, <3>2, <3>3 DEF OrdersGoOn
      <3>5. TermsFollow
        BY <1>1, <2>2, <3>1, <3>2 DEF TermsFollow, PaidSub, Status
      <3> QED
        BY <3>4, <3>5
    <2> QED
      BY <1>3, <2>1, <2>2
  <1>6. KeysGoOn
    <2>1. keyed \in [Keys -> Orders \cup {NoOrder}] /\ cashier \subseteq Orders
      BY PayTypes DEF PayInv
    <2>2. \A k \in Keys : keyed[k] # NoOrder => order'[keyed[k]].status # "none"
      BY <1>5, <2>1, StatusKept DEF PayInv, Named
    <2>3. ASSUME NEW q \in cashier' PROVE order'[q].status # "none"
      <3>1. q \in Orders /\ Status(q) # "none"
        BY <1>2, <1>4, <2>1 DEF PayInv, Exists
      <3> QED
        BY <1>5, <3>1, StatusKept
    <2> QED
      BY <1>1, <1>2, <1>4, <2>1, <2>2, <2>3 DEF KeysGoOn
  <1> QED
    BY <1>1, <1>5, <1>6, SameTrades, FinishStep DEF PayStep, PayGoesOn

\* create_order writes a new order only when no identical one is pending.
LEMMA CreateOrderStep ==
  ASSUME PayInv, NEW c \in Calls, NEW k \in Keys, NEW p \in Products, CreateOrder(c, k, p)
  PROVE  PayStep
  <1>1. PICK o \in OrderFor(k, p) :
          /\ order' = IF Status(o) # "none" THEN order
                      ELSE [order EXCEPT ![o].status = "pending", ![o].product = p]
          /\ keyed' = [keyed EXCEPT ![k] = o]
          /\ IF order'[o].status = "pending" THEN Start(c, "continue", o)
             ELSE UNCHANGED call
    BY DEF CreateOrder
  <1>2. UNCHANGED <<credited, trade, cashier, notes, subVars>>
    BY DEF CreateOrder
  <1>3. keyed \in [Keys -> Orders \cup {NoOrder}] /\ cashier \subseteq Orders
        /\ order \in [Orders -> OrderRow] /\ credited \in [Orders -> Nat]
    BY PayTypes DEF PayInv
  <1>4. o \in Orders /\ (Status(o) = "none" => Pending(p) = {})
    <2>1. CASE keyed[k] # NoOrder
      BY <1>1, <1>3, <2>1 DEF OrderFor, PayInv, Named
    <2>2. CASE keyed[k] = NoOrder
      BY <1>1, <2>2 DEF OrderFor, Pending
    <2> QED
      BY <2>1, <2>2
  <1> DEFINE row == [order[o] EXCEPT !.status = "pending", !.product = p]
  <1>5. OrdersGoOn /\ TermsFollow /\ order'[o].status # "none"
    <2>1. CASE Status(o) # "none"
      <3>1. order' = order
        BY <1>1, <2>1
      <3> QED
        BY <1>2, <2>1, <3>1, SameOrders, SameTerms DEF Status
    <2>2. CASE Status(o) = "none"
      <3>1. order' = [order EXCEPT ![o] = row]
        BY <1>1, <1>3, <1>4, <2>2
      <3>2. order[o] \in OrderRow
        BY <1>3, <1>4
      <3>3. row \in OrderRow /\ row.status = "pending" /\ row.product = p
            /\ row.reason = order[o].reason /\ row.url = order[o].url
        BY <3>2 DEF OrderRow
      <3> HIDE DEF row
      <3>4. /\ order' \in [Orders -> OrderRow] /\ order'[o] = row
            /\ \A q \in Orders \ {o} : order'[q] = order[q]
        BY <1>4, <3>1, <3>3, SetOrder
      <3>5. Created(o) /\ \A q \in Orders \ {o} : Kept(q)
        BY <1>2, <1>4, <2>2, <3>3, <3>4 DEF Created, Kept
      <3>6. OrdersGoOn
        BY <1>2, <1>3, <3>4, <3>5 DEF OrdersGoOn
      <3>7. TermsFollow
        BY <1>2, <2>2, <3>3, <3>4 DEF TermsFollow, PaidSub, Status
      <3> QED
        BY <3>3, <3>4, <3>6, <3>7
    <2> QED
      BY <2>1, <2>2
  <1> HIDE DEF row
  <1>6. CallsGoOn
    BY <1>1, <1>4, <1>5, StartStep, SameCalls DEF Ops
  <1>7. KeysGoOn
    <2>1. keyed' \in [Keys -> Orders \cup {NoOrder}] /\ keyed'[k] = o
          /\ \A j \in Keys \ {k} : keyed'[j] = keyed[j]
      BY <1>1, <1>3, <1>4
    <2>2. \A j \in Keys : keyed[j] # NoOrder => order'[keyed[j]].status # "none"
      BY <1>3, <1>5, StatusKept DEF PayInv, Named
    <2>3. \A q \in cashier : order'[q].status # "none"
      BY <1>3, <1>5, StatusKept DEF PayInv, Exists
    <2> QED
      BY <1>2, <1>3, <1>5, <2>1, <2>2, <2>3 DEF KeysGoOn
  <1> QED
    BY <1>2, <1>5, <1>6, <1>7, SameTrades DEF PayStep, PayGoesOn

LEMMA EveryPayStep ==
  ASSUME PayInv, Next
  PROVE  PayStep
  <1>1. ASSUME NEW o \in Orders, OpenCashier(o) \/ BuyerPays(o) \/ GatewayCloses(o)
        PROVE  PayStep
    BY <1>1, GatewayStep, SameTerms DEF PayStep
  <1> QED
    BY <1>1, WebhookStep, CreateOrderStep, AskStep, SimpleSteps, ReadStep, QueryStep, ApplyStep,
       CloseSteps, CancelUncreatedStep, WriteCheckoutStep DEF Next, Steps

LEMMA PayInitially == Init => PayInv
  <1> SUFFICES ASSUME Init PROVE PayInv
    OBVIOUS
  <1> DEFINE none == [status |-> "none", product |-> Free, reason |-> "", url |-> FALSE]
  <1>1. /\ order = [o \in Orders |-> none] /\ keyed = [k \in Keys |-> NoOrder]
        /\ credited = [o \in Orders |-> 0] /\ trade = [o \in Orders |-> "none"]
        /\ cashier = {} /\ notes = [o \in Orders |-> {}] /\ call = [c \in Calls |-> IdleCall]
    BY DEF Init, PayInit
  <1>2. none \in OrderRow /\ none.status = "none" /\ none.url = FALSE
    BY DEF OrderRow, Reasons
  <1> HIDE DEF none
  <1>3. TypeOK
    <2>1. /\ order \in [Orders -> OrderRow] /\ keyed \in [Keys -> Orders \cup {NoOrder}]
          /\ credited \in [Orders -> Nat] /\ trade \in [Orders -> Trades]
          /\ cashier \subseteq Orders /\ notes \in [Orders -> SUBSET {"paid", "closed"}]
          /\ call \in [Calls -> CallRow]
      BY <1>1, <1>2, IdleCallFact DEF Trades
    <2> QED
      BY <2>1 DEF TypeOK, OrderRow, CallRow, Trades
  <1>4. Named /\ Exists
    BY <1>1, <1>2, IdleCallFact DEF Named, Exists, Status
  <1>5. NotesTrue /\ AnswersTrue
    BY <1>1, <1>2, IdleCallFact DEF NotesTrue, AnswersTrue
  <1>6. CreditedOnce /\ PaidWasTaken /\ ClosedHoldsNoMoney /\ UrlOnlyIfPayable
    BY <1>1, <1>2 DEF CreditedOnce, PaidWasTaken, ClosedHoldsNoMoney, UrlOnlyIfPayable, Status
  <1>7. SinglePending
    BY <1>1, <1>2 DEF SinglePending, Pending, Status
  <1> QED
    BY <1>3, <1>4, <1>5, <1>6, <1>7 DEF PayInv

LEMMA PayUnchanged == PayInv /\ UNCHANGED payVars => PayInv'
  <1> SUFFICES ASSUME PayInv, UNCHANGED payVars PROVE PayInv'
    OBVIOUS
  <1>1. UNCHANGED <<order, keyed, credited, trade, cashier, notes, call>>
    BY DEF payVars
  <1>2. OrdersGoOn
    BY <1>1, SameOrders
  <1> QED
    BY <1>1, <1>2, SameTrades, SameCalls, SameKeys, PayKept DEF PayGoesOn

LEMMA PayInductive == PayInv /\ [WholeNext]_vars => PayInv'
  BY PayUnchanged, EveryPayStep, PayKept DEF WholeNext, vars, PayStep

\* A product has one order open at most.
LEMMA OneOpen ==
  ASSUME PayInv
  PROVE  OnePending /\ CreditedWasPaid
  <1>1. ASSUME NEW p \in Products PROVE Cardinality(Pending(p)) <= 1
    <2>1. CASE Pending(p) = {}
      BY <2>1, FS_EmptySet
    <2>2. CASE Pending(p) # {}
      <3>1. PICK o \in Pending(p) : TRUE
        BY <2>2
      <3>2. Pending(p) = {o}
        BY <3>1 DEF PayInv, SinglePending
      <3>3. Cardinality({o}) = 1
        BY FS_Singleton
      <3> QED
        BY <3>2, <3>3
    <2> QED
      BY <2>1, <2>2
  <1>2. CreditedWasPaid
    BY DEF PayInv, CreditedOnce, PaidWasTaken, CreditedWasPaid, Taken
  <1> QED
    BY <1>1, <1>2 DEF OnePending

\* Money moves once and is not lost, for any number of orders, keys and calls
\* and whatever the gateway repeats, delays or loses: an order is credited
\* exactly once and only if it was paid (settle_payment), what is shown as
\* closed holds no money, what cannot be paid offers no cashier, and a product
\* has one order open (create_order).
THEOREM MoneySafe == WholeSpec => []MoneyKept
  <1>1. Init => PayInv
    BY PayInitially
  <1>2. PayInv /\ [WholeNext]_vars => PayInv'
    BY PayInductive
  <1>3. PayInv => MoneyKept
    BY OneOpen DEF PayInv, MoneyKept
  <1> QED
    BY <1>1, <1>2, <1>3, PTL DEF WholeSpec

-----------------------------------------------------------------------------
(* Numbers. *)

LEMMA Least ==
  ASSUME NEW T \in SUBSET Nat, T # {}
  PROVE  \E m \in T : \A k \in T : m <= k
  <1> DEFINE R == OpToRel(<, Nat)
  <1>1. IsWellFoundedOn(R, Nat)
    BY NatLessThanWellFounded
  <1>2. \A x, y \in Nat : x < y => <<x, y>> \in R
    BY DEF OpToRel
  <1> HIDE DEF R
  <1>3. PICK x \in T : \A y \in T : ~(<<y, x>> \in R)
    BY <1>1, WFMin
  <1>4. ASSUME NEW y \in T PROVE x <= y
    <2>1. x \in Nat /\ y \in Nat /\ ~(y < x)
      BY <1>2, <1>3
    <2> QED
      BY <2>1
  <1> QED
    BY <1>4

LEMMA Greatest ==
  ASSUME NEW T \in SUBSET Nat, T # {}, NEW b \in Nat, \A k \in T : k <= b
  PROVE  \E m \in T : \A k \in T : m >= k
  <1> DEFINE U == {u \in Nat : \A k \in T : k <= u}
  <1>1. U \in SUBSET Nat /\ U # {}
    OBVIOUS
  <1>2. PICK u \in U : \A v \in U : u <= v
    <2> HIDE DEF U
    <2> QED BY <1>1, Least
  <1>3. u \in Nat /\ \A k \in T : k \in Nat /\ k <= u
    OBVIOUS
  <1>4. u \in T
    <2> SUFFICES ASSUME u \notin T PROVE FALSE
      OBVIOUS
    <2>1. \A k \in T : k <= u - 1
      BY <1>3
    <2>2. u - 1 \in Nat
      <3>1. PICK x \in T : TRUE
        OBVIOUS
      <3>2. x \in Nat /\ x <= u - 1
        BY <1>3, <2>1
      <3> QED
        BY <1>3, <3>2
    <2>3. u - 1 \in U
      BY <2>1, <2>2
    <2> QED
      BY <1>2, <1>3, <2>3
  <1> QED
    BY <1>3, <1>4

-----------------------------------------------------------------------------
(* Sums over finite sets.                                                  *)

\* Induction over the subsets of a finite set, for a set of them.
LEMMA Subsets ==
  ASSUME NEW S, IsFiniteSet(S), NEW G,
         \A T \in SUBSET S : (\A x \in T : T \ {x} \in G) => T \in G
  PROVE  \A T \in SUBSET S : T \in G
  <1> SUFFICES ASSUME NEW Z \in SUBSET S, Z \notin G PROVE FALSE
    OBVIOUS
  <1> DEFINE B == {n \in Nat : \E T \in SUBSET S : T \notin G /\ Cardinality(T) = n}
  <1>1. \A T \in SUBSET S : IsFiniteSet(T) /\ Cardinality(T) \in Nat
    BY FS_Subset, FS_CardinalityType
  <1>2. PICK m \in B : \A k \in B : m <= k
    <2>1. B \in SUBSET Nat /\ B # {}
      BY <1>1
    <2> HIDE DEF B
    <2> QED BY <2>1, Least
  <1>3. PICK T \in SUBSET S : T \notin G /\ Cardinality(T) = m
    BY <1>2
  <1>4. ASSUME NEW x \in T PROVE T \ {x} \in G
    <2>0. IsFiniteSet(T)
      BY <1>1
    <2>1. Cardinality(T \ {x}) = m - 1
      BY <2>0, <1>3, FS_RemoveElement
    <2>2. T \ {x} \in SUBSET S /\ Cardinality(T \ {x}) \in Nat
      BY <1>1
    <2>3. Cardinality(T \ {x}) \notin B
      <3>1. m \in Nat
        OBVIOUS
      <3> HIDE DEF B
      <3> QED BY <1>2, <2>1, <3>1
    <2> QED BY <2>2, <2>3
  <1> QED BY <1>3, <1>4

Pick(s) == CHOOSE x \in s : TRUE

\* The function that SumFunctionOnSet computes with.
Adds(w, S, g) ==
  g = [s \in SUBSET S |-> IF s = {} THEN 0 ELSE w[Pick(s)] + g[s \ {Pick(s)}]]

Weights(w, S) == \A x \in S : w[x] \in Nat

LEMMA Picked == ASSUME NEW s, s # {} PROVE Pick(s) \in s
  BY DEF Pick

LEMMA Expanded == ASSUME NEW w, NEW S
  PROVE SumFunctionOnSet(w, S) = (CHOOSE g : Adds(w, S, g))[S]
  BY DEF SumFunctionOnSet, FoldFunctionOnSet, MapThenFoldSet, Adds, Pick

LEMMA AddsAt ==
  ASSUME NEW w, NEW S, NEW g, Adds(w, S, g), NEW s \in SUBSET S
  PROVE  /\ s = {} => g[s] = 0
         /\ s # {} => /\ Pick(s) \in s /\ s \ {Pick(s)} \in SUBSET S
                      /\ g[s] = w[Pick(s)] + g[s \ {Pick(s)}]
  <1>1. g[s] = IF s = {} THEN 0 ELSE w[Pick(s)] + g[s \ {Pick(s)}]
    BY DEF Adds
  <1> QED BY <1>1, Picked

\* Such a function exists: it is built up by the size of the set.
LEMMA AddsExist ==
  ASSUME NEW S, IsFiniteSet(S), NEW w, Weights(w, S)
  PROVE  \E g : Adds(w, S, g)
  <1> DEFINE N == Cardinality(S)
             Up(m) == {s \in SUBSET S : Cardinality(s) <= m}
             Good(m, g) == /\ g \in [Up(m) -> Nat]
                           /\ \A s \in Up(m) :
                                g[s] = IF s = {} THEN 0 ELSE w[Pick(s)] + g[s \ {Pick(s)}]
             T == {m \in 0..N : \E g : Good(m, g)}
  <1>0. N \in Nat /\ \A s \in SUBSET S : IsFiniteSet(s) /\ Cardinality(s) \in 0..N
    BY FS_Subset, FS_CardinalityType
  <1>a. ASSUME NEW s \in SUBSET S, s # {}
        PROVE  /\ Pick(s) \in s /\ w[Pick(s)] \in Nat /\ s \ {Pick(s)} \in SUBSET S
               /\ Cardinality(s \ {Pick(s)}) = Cardinality(s) - 1
    <2>1. Pick(s) \in s
      BY <1>a, Picked
    <2>2. Cardinality(s \ {Pick(s)}) = Cardinality(s) - 1
      BY <2>1, <1>0, FS_RemoveElement
    <2> QED BY <2>1, <2>2 DEF Weights
  <1>1. 0 \in T
    <2>1. Up(0) = {{}}
      <3>1. ASSUME NEW s \in Up(0) PROVE s = {}
        BY <1>0, FS_EmptySet
      <3>2. {} \in Up(0)
        BY FS_EmptySet
      <3> QED BY <3>1, <3>2
    <2> DEFINE z == [s \in Up(0) |-> 0]
    <2>2. Good(0, z)
      BY <2>1
    <2> HIDE DEF Good
    <2>3. \E g : Good(0, g)
      BY <2>2
    <2> QED BY <2>3, <1>0
  <1>2. ASSUME NEW m \in 0..N, m \in T, m < N PROVE m + 1 \in T
    <2>1. PICK g : Good(m, g)
      BY <1>2
    <2> DEFINE h == [s \in Up(m+1) |->
                       IF Cardinality(s) <= m THEN g[s] ELSE w[Pick(s)] + g[s \ {Pick(s)}]]
    <2>2. ASSUME NEW s \in Up(m+1)
          PROVE  /\ h[s] = IF s = {} THEN 0 ELSE w[Pick(s)] + h[s \ {Pick(s)}]
                 /\ h[s] \in Nat
      <3>0. s \in SUBSET S /\ Cardinality(s) \in Nat /\ Cardinality(s) <= m + 1
        BY <1>0
      <3>1. CASE s = {}
        <4>1. Cardinality(s) = 0 /\ s \in Up(m)
          BY <3>1, <1>0, FS_EmptySet
        <4> QED BY <4>1, <2>1, <3>1, <1>2
      <3>2. CASE s # {}
        <4> DEFINE u == s \ {Pick(s)}
        <4>1. /\ u \in SUBSET S /\ Cardinality(u) \in Nat /\ Cardinality(u) <= m
              /\ w[Pick(s)] \in Nat
          BY <3>0, <3>2, <1>a, <1>0
        <4>2. u \in Up(m) /\ u \in Up(m+1)
          BY <4>1, <1>2
        <4>3. h[u] = g[u] /\ g[u] \in Nat
          BY <4>1, <4>2, <2>1
        <4>4. CASE Cardinality(s) <= m
          <5>1. s \in Up(m)
            BY <4>4, <3>0
          <5>2. g[s] = w[Pick(s)] + g[u]
            BY <5>1, <2>1, <3>2
          <5>3. h[s] = g[s]
            BY <4>4
          <5> QED BY <5>2, <5>3, <4>3, <4>1, <3>2
        <4>5. CASE ~(Cardinality(s) <= m)
          <5>1. h[s] = w[Pick(s)] + g[u]
            BY <4>5
          <5> QED BY <5>1, <4>3, <4>1, <3>2
        <4> QED BY <4>4, <4>5
      <3> QED BY <3>1, <3>2
    <2>3. h \in [Up(m+1) -> Nat]
      BY <2>2
    <2>4. Good(m + 1, h)
      BY <2>2, <2>3
    <2> HIDE DEF Good, h
    <2>5. \E k : Good(m + 1, k)
      BY <2>4
    <2> QED BY <2>5, <1>2, <1>0
  <1>3. N \in T
    <2> DEFINE B == {n \in 0..N : n \notin T}
    <2>1. SUFFICES ASSUME N \notin T PROVE FALSE
      OBVIOUS
    <2> HIDE DEF T
    <2>2. B \in SUBSET Nat /\ B # {}
      BY <1>0, <2>1
    <2>3. PICK m \in B : \A k \in B : m <= k
      BY <2>2, Least
    <2>4. m # 0 /\ m - 1 \in 0..N /\ m - 1 \in T
      BY <2>3, <1>1, <1>0
    <2>5. (m - 1) + 1 \in T
      BY <2>3, <2>4, <1>2, <1>0
    <2> QED BY <2>3, <2>5, <1>0
  <1>4. PICK g : Good(N, g)
    BY <1>3
  <1>5. Up(N) = SUBSET S
    BY <1>0
  <1>6. g = [s \in SUBSET S |-> IF s = {} THEN 0 ELSE w[Pick(s)] + g[s \ {Pick(s)}]]
    BY <1>4, <1>5
  <1> QED BY <1>6 DEF Adds

LEMMA AddsNat ==
  ASSUME NEW S, IsFiniteSet(S), NEW w, Weights(w, S), NEW g, Adds(w, S, g)
  PROVE  \A T \in SUBSET S : g[T] \in Nat
  <1> DEFINE G == {T \in SUBSET S : g[T] \in Nat}
  <1>1. ASSUME NEW T \in SUBSET S, \A x \in T : T \ {x} \in G PROVE T \in G
    <2>1. CASE T = {}
      BY <2>1, AddsAt
    <2>2. CASE T # {}
      <3>1. Pick(T) \in T /\ g[T] = w[Pick(T)] + g[T \ {Pick(T)}] /\ w[Pick(T)] \in Nat
        BY <2>2, AddsAt DEF Weights
      <3>2. g[T \ {Pick(T)}] \in Nat
        BY <3>1, <1>1
      <3> QED BY <3>1, <3>2
    <2> QED BY <2>1, <2>2
  <1> HIDE DEF G
  <1>2. \A T \in SUBSET S : T \in G
    BY <1>1, Subsets
  <1> QED BY <1>2 DEF G

\* A sum over a subset does not depend on the set it is taken from.
LEMMA AddsSame ==
  ASSUME NEW S, IsFiniteSet(S), NEW w, NEW g, Adds(w, S, g),
         NEW R \in SUBSET S, NEW h, Adds(w, R, h)
  PROVE  \A T \in SUBSET R : g[T] = h[T]
  <1> DEFINE G == {T \in SUBSET R : g[T] = h[T]}
  <1>0. IsFiniteSet(R)
    BY FS_Subset
  <1>1. ASSUME NEW T \in SUBSET R, \A x \in T : T \ {x} \in G PROVE T \in G
    <2>0. T \in SUBSET S
      OBVIOUS
    <2>1. CASE T = {}
      <3>1. g[T] = 0
        BY <2>0, <2>1, AddsAt
      <3>2. h[T] = 0
        BY <2>1, AddsAt
      <3> QED BY <3>1, <3>2
    <2>2. CASE T # {}
      <3>1. g[T] = w[Pick(T)] + g[T \ {Pick(T)}] /\ Pick(T) \in T
        BY <2>0, <2>2, AddsAt
      <3>2. h[T] = w[Pick(T)] + h[T \ {Pick(T)}]
        BY <2>2, AddsAt
      <3>3. g[T \ {Pick(T)}] = h[T \ {Pick(T)}]
        BY <3>1, <1>1
      <3> QED BY <3>1, <3>2, <3>3
    <2> QED BY <2>1, <2>2
  <1> HIDE DEF G
  <1>2. \A T \in SUBSET R : T \in G
    BY <1>0, <1>1, Subsets
  <1> QED BY <1>2 DEF G

Total(w, S) == SumFunctionOnSet(w, S)

LEMMA TotalAdds ==
  ASSUME NEW S, IsFiniteSet(S), NEW w, Weights(w, S)
  PROVE  \E g : Adds(w, S, g) /\ \A T \in SUBSET S : Total(w, T) = g[T]
  <1>1. PICK g : Adds(w, S, g)
    BY AddsExist
  <1>2. ASSUME NEW T \in SUBSET S PROVE Total(w, T) = g[T]
    <2>1. IsFiniteSet(T) /\ Weights(w, T)
      BY FS_Subset DEF Weights
    <2> DEFINE h == CHOOSE f : Adds(w, T, f)
    <2>2. \E f : Adds(w, T, f)
      BY <2>1, AddsExist
    <2>3. Adds(w, T, h)
      BY <2>2
    <2>4. Total(w, T) = h[T]
      BY Expanded DEF Total
    <2> HIDE DEF h
    <2>5. g[T] = h[T]
      BY <1>1, <2>3, AddsSame
    <2> QED BY <2>4, <2>5
  <1> QED BY <1>1, <1>2

\* The sum of a set, by any of its members.
LEMMA TotalFirst ==
  ASSUME NEW S, IsFiniteSet(S), NEW w, Weights(w, S)
  PROVE  /\ Total(w, {}) = 0
         /\ \A T \in SUBSET S : Total(w, T) \in Nat
         /\ \A T \in SUBSET S : T # {} => /\ Pick(T) \in T
                                          /\ Total(w, T) = w[Pick(T)] + Total(w, T \ {Pick(T)})
  <1>1. PICK g : Adds(w, S, g) /\ \A T \in SUBSET S : Total(w, T) = g[T]
    BY TotalAdds
  <1>2. Total(w, {}) = 0
    <2>1. {} \in SUBSET S
      OBVIOUS
    <2>2. g[{}] = 0
      BY <1>1, <2>1 DEF Adds
    <2> QED BY <1>1, <2>1, <2>2
  <1>3. \A T \in SUBSET S : Total(w, T) \in Nat
    BY <1>1, AddsNat
  <1>4. ASSUME NEW T \in SUBSET S, T # {}
        PROVE  Pick(T) \in T /\ Total(w, T) = w[Pick(T)] + Total(w, T \ {Pick(T)})
    <2>1. /\ Pick(T) \in T /\ T \ {Pick(T)} \in SUBSET S
          /\ g[T] = w[Pick(T)] + g[T \ {Pick(T)}]
      BY <1>1, <1>4, AddsAt
    <2>2. Total(w, T) = g[T] /\ Total(w, T \ {Pick(T)}) = g[T \ {Pick(T)}]
      BY <1>1, <2>1
    <2> QED BY <2>1, <2>2
  <1> QED BY <1>2, <1>3, <1>4

LEMMA TotalTakes ==
  ASSUME NEW S, IsFiniteSet(S), NEW w, Weights(w, S)
  PROVE  \A T \in SUBSET S : \A x \in T : Total(w, T) = w[x] + Total(w, T \ {x})
  <1> DEFINE G == {T \in SUBSET S : \A x \in T : Total(w, T) = w[x] + Total(w, T \ {x})}
  <1>1. ASSUME NEW T \in SUBSET S, \A x \in T : T \ {x} \in G PROVE T \in G
    <2>1. ASSUME NEW x \in T PROVE Total(w, T) = w[x] + Total(w, T \ {x})
      <3> DEFINE p == Pick(T)
      <3>1. p \in T /\ Total(w, T) = w[p] + Total(w, T \ {p})
        <4>1. T # {}
          OBVIOUS
        <4>2. \A U \in SUBSET S : U # {} => /\ Pick(U) \in U
                                            /\ Total(w, U) = w[Pick(U)] + Total(w, U \ {Pick(U)})
          BY TotalFirst
        <4> QED BY <4>1, <4>2
      <3> HIDE DEF p
      <3>2. CASE x = p
        BY <3>1, <3>2
      <3>3. CASE x # p
        <4>1. x \in T \ {p} /\ p \in T \ {x} /\ T \ {p} \in G /\ T \ {x} \in G
          BY <3>1, <3>3, <1>1
        <4>2. Total(w, T \ {p}) = w[x] + Total(w, (T \ {p}) \ {x})
          BY <4>1
        <4>3. Total(w, T \ {x}) = w[p] + Total(w, (T \ {x}) \ {p})
          BY <4>1
        <4>4. Total(w, (T \ {p}) \ {x}) = Total(w, (T \ {x}) \ {p})
          <5>1. (T \ {p}) \ {x} = (T \ {x}) \ {p}
            OBVIOUS
          <5> QED BY <5>1
        <4>5. Total(w, (T \ {x}) \ {p}) \in Nat
          <5>1. (T \ {x}) \ {p} \in SUBSET S
            OBVIOUS
          <5> QED BY <5>1, TotalFirst
        <4>6. w[x] \in Nat /\ w[p] \in Nat
          BY <3>1 DEF Weights
        <4> QED BY <3>1, <4>2, <4>3, <4>4, <4>5, <4>6
      <3> QED BY <3>2, <3>3
    <2> QED BY <2>1
  <1> HIDE DEF G
  <1>2. \A T \in SUBSET S : T \in G
    BY <1>1, Subsets
  <1> QED BY <1>2 DEF G

LEMMA TotalOne ==
  ASSUME NEW S, IsFiniteSet(S), NEW w, Weights(w, S), NEW x \in S
  PROVE  /\ Total(w, S) = w[x] + Total(w, S \ {x})
         /\ Total(w, S) \in Nat /\ Total(w, S \ {x}) \in Nat /\ w[x] \in Nat
  <1>1. Total(w, S) = w[x] + Total(w, S \ {x})
    BY TotalTakes
  <1>2. S \in SUBSET S /\ S \ {x} \in SUBSET S
    OBVIOUS
  <1>3. Total(w, S) \in Nat /\ Total(w, S \ {x}) \in Nat
    BY <1>2, TotalFirst
  <1> QED BY <1>1, <1>3 DEF Weights

\* The sum is never less for larger weights.
LEMMA TotalLess ==
  ASSUME NEW S, IsFiniteSet(S), NEW w, Weights(w, S), NEW v, Weights(v, S),
         \A x \in S : w[x] <= v[x]
  PROVE  /\ Total(w, S) <= Total(v, S)
         /\ Total(w, S) \in Nat /\ Total(v, S) \in Nat
  <1> DEFINE G == {T \in SUBSET S : Total(w, T) <= Total(v, T)}
  <1>1. ASSUME NEW T \in SUBSET S, \A x \in T : T \ {x} \in G PROVE T \in G
    <2>1. CASE T = {}
      <3>1. Total(w, {}) = 0 /\ Total(v, {}) = 0
        BY TotalFirst
      <3> QED BY <2>1, <3>1
    <2>2. CASE T # {}
      <3>1. PICK x \in T : TRUE
        BY <2>2
      <3>2. Total(w, T) = w[x] + Total(w, T \ {x})
        BY TotalTakes
      <3>3. Total(v, T) = v[x] + Total(v, T \ {x})
        BY TotalTakes
      <3>4. T \ {x} \in SUBSET S /\ w[x] \in Nat /\ v[x] \in Nat /\ w[x] <= v[x]
        BY DEF Weights
      <3>5. Total(w, T \ {x}) \in Nat /\ Total(v, T \ {x}) \in Nat
        BY <3>4, TotalFirst
      <3>6. Total(w, T \ {x}) <= Total(v, T \ {x})
        BY <1>1
      <3> QED BY <3>2, <3>3, <3>4, <3>5, <3>6
    <2> QED BY <2>1, <2>2
  <1> HIDE DEF G
  <1>2. \A T \in SUBSET S : T \in G
    BY <1>1, Subsets
  <1>3. Total(w, S) \in Nat /\ Total(v, S) \in Nat
    BY TotalFirst
  <1> QED BY <1>2, <1>3 DEF G

LEMMA TotalSame ==
  ASSUME NEW S, IsFiniteSet(S), NEW w, Weights(w, S), NEW v, \A x \in S : w[x] = v[x]
  PROVE  Total(w, S) = Total(v, S) /\ Total(w, S) \in Nat
  <1>1. Weights(v, S) /\ \A x \in S : w[x] <= v[x] /\ v[x] <= w[x]
    BY DEF Weights
  <1>2. Total(w, S) <= Total(v, S) /\ Total(w, S) \in Nat /\ Total(v, S) \in Nat
    BY <1>1, TotalLess
  <1>3. Total(v, S) <= Total(w, S)
    BY <1>1, TotalLess
  <1> QED BY <1>2, <1>3

\* What the sum becomes when one weight changes.
LEMMA TotalChanged ==
  ASSUME NEW S, IsFiniteSet(S), NEW w, Weights(w, S), NEW v, Weights(v, S), NEW x \in S,
         \A y \in S \ {x} : w[y] = v[y]
  PROVE  /\ Total(v, S) + w[x] = Total(w, S) + v[x]
         /\ Total(w, S) \in Nat /\ Total(v, S) \in Nat
  <1>1. Total(w, S) = w[x] + Total(w, S \ {x}) /\ Total(w, S) \in Nat /\ Total(w, S \ {x}) \in Nat
    BY TotalOne
  <1>2. Total(v, S) = v[x] + Total(v, S \ {x}) /\ Total(v, S) \in Nat
    BY TotalOne
  <1>3. IsFiniteSet(S \ {x}) /\ Weights(w, S \ {x})
    BY FS_RemoveElement DEF Weights
  <1>4. Total(w, S \ {x}) = Total(v, S \ {x})
    BY <1>3, TotalSame
  <1> QED BY <1>1, <1>2, <1>4 DEF Weights

\* The sum of sums.
LEMMA TotalPlus ==
  ASSUME NEW S, IsFiniteSet(S), NEW w, Weights(w, S), NEW v, Weights(v, S), NEW u,
         \A x \in S : u[x] = w[x] + v[x]
  PROVE  Total(u, S) = Total(w, S) + Total(v, S)
  <1> DEFINE G == {T \in SUBSET S : Total(u, T) = Total(w, T) + Total(v, T)}
  <1>0. Weights(u, S)
    BY DEF Weights
  <1>1. ASSUME NEW T \in SUBSET S, \A x \in T : T \ {x} \in G PROVE T \in G
    <2>1. CASE T = {}
      <3>1. Total(w, {}) = 0 /\ Total(v, {}) = 0 /\ Total(u, {}) = 0
        BY <1>0, TotalFirst
      <3> QED BY <2>1, <3>1
    <2>2. CASE T # {}
      <3>1. PICK x \in T : TRUE
        BY <2>2
      <3>2. /\ Total(w, T) = w[x] + Total(w, T \ {x})
            /\ Total(v, T) = v[x] + Total(v, T \ {x})
            /\ Total(u, T) = u[x] + Total(u, T \ {x})
        BY <1>0, TotalTakes
      <3>4. T \ {x} \in SUBSET S /\ w[x] \in Nat /\ v[x] \in Nat /\ u[x] = w[x] + v[x]
        BY DEF Weights
      <3>5. Total(w, T \ {x}) \in Nat /\ Total(v, T \ {x}) \in Nat
        BY <3>4, TotalFirst
      <3>6. Total(u, T \ {x}) = Total(w, T \ {x}) + Total(v, T \ {x})
        BY <1>1
      <3> QED BY <3>2, <3>4, <3>5, <3>6
    <2> QED BY <2>1, <2>2
  <1> HIDE DEF G
  <1>2. \A T \in SUBSET S : T \in G
    BY <1>1, Subsets
  <1> QED BY <1>2 DEF G

\* The sum over a part of a set is the sum over the set with the rest at nothing.
LEMMA TotalWithin ==
  ASSUME NEW S, IsFiniteSet(S), NEW R \in SUBSET S, NEW w, Weights(w, R), NEW v,
         \A x \in S : v[x] = IF x \in R THEN w[x] ELSE 0
  PROVE  Total(v, S) = Total(w, R)
  <1> DEFINE G == {T \in SUBSET S : Total(v, T) = Total(w, T \cap R)}
  <1>0. IsFiniteSet(R) /\ Weights(v, S)
    BY FS_Subset DEF Weights
  <1>1. ASSUME NEW T \in SUBSET S, \A x \in T : T \ {x} \in G PROVE T \in G
    <2>1. CASE T = {}
      <3>1. Total(w, {}) = 0 /\ Total(v, {}) = 0
        BY <1>0, TotalFirst
      <3>2. T \cap R = {}
        BY <2>1
      <3> QED BY <2>1, <3>1, <3>2
    <2>2. CASE T # {}
      <3>1. PICK x \in T : TRUE
        BY <2>2
      <3>2. Total(v, T) = v[x] + Total(v, T \ {x})
        BY <1>0, TotalTakes
      <3>3. Total(v, T \ {x}) = Total(w, (T \ {x}) \cap R)
        BY <1>1
      <3>4. CASE x \in R
        <4>1. T \cap R \in SUBSET R /\ x \in T \cap R /\ (T \cap R) \ {x} = (T \ {x}) \cap R
          BY <3>4
        <4>2. Total(w, T \cap R) = w[x] + Total(w, (T \cap R) \ {x})
          BY <4>1, <1>0, TotalTakes
        <4> QED BY <3>2, <3>3, <4>1, <4>2, <3>4
      <3>5. CASE x \notin R
        <4>1. T \cap R = (T \ {x}) \cap R /\ (T \cap R) \in SUBSET R /\ v[x] = 0
          BY <3>5
        <4>2. Total(w, T \cap R) \in Nat
          BY <4>1, <1>0, TotalFirst
        <4>3. Total(w, T \cap R) = Total(w, (T \ {x}) \cap R)
          BY <4>1
        <4>4. Total(v, T) = Total(w, T \cap R)
          BY <3>2, <3>3, <4>1, <4>2, <4>3
        <4> QED BY <4>4
      <3> QED BY <3>4, <3>5
    <2> QED BY <2>1, <2>2
  <1> HIDE DEF G
  <1>2. \A T \in SUBSET S : T \in G
    BY <1>1, Subsets
  <1>3. S \cap R = R
    OBVIOUS
  <1> QED BY <1>2, <1>3 DEF G

-----------------------------------------------------------------------------
(* The inductive invariant of the terms. *)

\* Terms are finitely many and end some time; no two have one id.
Bounded   == \E b \in Nat : \A t \in terms : t.end <= b
UniqueIds == \A s, t \in terms : s.id = t.id => s = t

\* A paid subscription has its term, and no other order has one.
OrdersHaveTerms == \A o \in Orders : (\E t \in terms : t.id = o) <=> PaidSub(o)

TermsOK == terms \subseteq Term /\ IsFiniteSet(terms) /\ Bounded /\ UniqueIds /\ TermsDisjoint
\* The ledger of allowances: finitely many entries, and the balance is their sum.
Booked == IsFiniteSet(grants) /\ AllowanceOnce
\* What was cancelled was cancelled by now.
CancelsPast == \A t \in terms : t.cancelled = Never \/ t.cancelled <= now
TermInv == SubTypeOK /\ TermsOK /\ OrdersHaveTerms /\ Booked /\ CancelsPast

LEMMA NeverFact == Never \in Nat /\ MaxTime \in Nat /\ Never \notin 0 .. MaxTime
                   /\ 0 .. MaxTime \subseteq 0 .. Never /\ Never \in 0 .. Never
                   /\ 0 .. MaxTime \subseteq Nat
  BY SubscriptionsAssumption DEF Never

LEMMA TermFact ==
  ASSUME NEW t \in Term
  PROVE  t.id \in TermIds /\ t.plan \in Plans /\ t.start \in Nat /\ t.end \in Nat
         /\ t.cancelled \in 0 .. Never
  BY DEF Term

\* A new term starts after everything that is left.
LEMMA NextStartFact ==
  ASSUME TermInv
  PROVE  /\ NextStart(terms) \in Nat /\ now <= NextStart(terms)
         /\ \A t \in Live(terms) : t.end <= NextStart(terms)
  <1> DEFINE S == Ends(terms) \cup {now}
  <1>1. now \in Nat /\ terms \subseteq Term
    BY NeverFact DEF TermInv, SubTypeOK
  <1>2. PICK b \in Nat : \A t \in terms : t.end <= b
    BY DEF TermInv, TermsOK, Bounded
  <1>3. S \in SUBSET Nat /\ S # {}
    BY <1>1, TermFact DEF Ends, Live
  <1>4. \A k \in S : k \in Nat /\ k <= b + now
    <2>1. ASSUME NEW k \in Ends(terms) PROVE k \in Nat /\ k <= b
      BY <1>1, <1>2, <2>1, TermFact DEF Ends, Live
    <2> QED
      BY <1>1, <1>2, <2>1
  <1>5. \E m \in S : \A k \in S : m >= k
    <2> HIDE DEF S
    <2>1. b + now \in Nat
      BY <1>1
    <2> QED BY <1>3, <1>4, <2>1, Greatest
  <1>6. NextStart(terms) = CHOOSE m \in S : \A k \in S : m >= k
    BY DEF NextStart, Max
  <1>7. NextStart(terms) \in S /\ \A k \in S : NextStart(terms) >= k
    <2> HIDE DEF S
    <2> QED BY <1>5, <1>6
  <1>8. ASSUME NEW t \in Live(terms) PROVE t.end <= NextStart(terms)
    <2>1. t.end \in S /\ t.end \in Nat /\ NextStart(terms) \in Nat
      BY <1>1, <1>3, <1>7, TermFact DEF Ends, Live
    <2> QED
      BY <1>7, <2>1
  <1>9. now <= NextStart(terms)
    BY <1>1, <1>3, <1>7
  <1> QED
    BY <1>3, <1>7, <1>8, <1>9

LEMMA NewTermFact ==
  ASSUME TermInv, NEW id \in TermIds, NEW plan \in Plans, NEW n \in Cycles
  PROVE  LET t == NewTerm(id, plan, n) IN
         /\ t \in Term /\ t.id = id /\ t.cancelled = Never /\ t.start = NextStart(terms)
         /\ t.end = NextStart(terms) + n
  <1>1. NextStart(terms) \in Nat /\ n \in Nat /\ NextStart(terms) + n \in Nat
        /\ Never \in 0 .. Never
    BY NextStartFact, NeverFact, SubscriptionsAssumption
  <1> QED
    BY <1>1 DEF NewTerm, Term

\* A term is added.
LEMMA AddTerm ==
  ASSUME TermInv, NEW t \in Term, \A u \in terms : u.id # t.id,
         \A u \in Live(terms) : u.end <= t.start, terms' = terms \cup {t}
  PROVE  TermsOK'
  <1>1. terms \subseteq Term /\ IsFiniteSet(terms) /\ UniqueIds /\ TermsDisjoint
    BY DEF TermInv, TermsOK
  <1>2. terms' \subseteq Term /\ IsFiniteSet(terms')
    BY <1>1, FS_AddElement
  <1>3. Bounded'
    <2>1. PICK b \in Nat : \A u \in terms : u.end <= b
      BY DEF TermInv, TermsOK, Bounded
    <2>2. t.end \in Nat /\ b + t.end \in Nat
      BY TermFact
    <2>3. ASSUME NEW u \in terms' PROVE u.end <= b + t.end
      <3>1. u.end \in Nat /\ (u.end <= b \/ u = t)
        BY <1>2, <2>1, TermFact
      <3> QED
        BY <2>1, <2>2, <3>1
    <2> QED
      BY <2>2, <2>3 DEF Bounded
  <1>4. UniqueIds'
    BY <1>1 DEF UniqueIds
  <1>5. TermsDisjoint'
    BY <1>1 DEF TermsDisjoint, Live
  <1> QED
    BY <1>2, <1>3, <1>4, <1>5 DEF TermsOK

\* A term is rewritten.
LEMMA RewriteTerm ==
  ASSUME TermInv, NEW t \in terms, NEW u \in Term, u.id = t.id,
         u.cancelled = Never =>
           \A v \in Live(terms) : v.id # t.id => u.end <= v.start \/ v.end <= u.start,
         terms' = Rewrite(t, u)
  PROVE  TermsOK' /\ Cardinality(terms') <= Cardinality(terms)
  <1>1. terms \subseteq Term /\ IsFiniteSet(terms) /\ UniqueIds /\ TermsDisjoint
    BY DEF TermInv, TermsOK
  <1> DEFINE rest == {v \in terms : v.id # t.id}
  <1>2. terms' = rest \cup {u} /\ rest \subseteq terms \ {t}
    BY DEF Rewrite
  <1>3. /\ IsFiniteSet(terms \ {t}) /\ Cardinality(terms \ {t}) = Cardinality(terms) - 1
        /\ Cardinality(terms) \in Nat
    BY <1>1, FS_RemoveElement, FS_CardinalityType
  <1>4. IsFiniteSet(rest) /\ Cardinality(rest) <= Cardinality(terms \ {t}) /\ Cardinality(rest) \in Nat
    BY <1>2, <1>3, FS_Subset, FS_CardinalityType
  <1>5. IsFiniteSet(rest \cup {u}) /\ Cardinality(rest \cup {u}) <= Cardinality(rest) + 1
        /\ Cardinality(rest \cup {u}) \in Nat
    BY <1>4, FS_AddElement, FS_CardinalityType
  <1>6. terms' \subseteq Term /\ IsFiniteSet(terms') /\ Cardinality(terms') <= Cardinality(terms)
    BY <1>1, <1>2, <1>3, <1>4, <1>5
  <1>7. Bounded'
    <2>1. PICK b \in Nat : \A v \in terms : v.end <= b
      BY DEF TermInv, TermsOK, Bounded
    <2>2. u.end \in Nat /\ b + u.end \in Nat
      BY TermFact
    <2>3. ASSUME NEW v \in terms' PROVE v.end <= b + u.end
      <3>1. v.end \in Nat /\ (v.end <= b \/ v = u)
        BY <1>2, <1>6, <2>1, TermFact
      <3> QED
        BY <2>1, <2>2, <3>1
    <2> QED
      BY <2>2, <2>3 DEF Bounded
  <1>8. UniqueIds'
    BY <1>1, <1>2 DEF UniqueIds
  <1>9. TermsDisjoint'
    <2> SUFFICES ASSUME NEW x \in terms', NEW y \in terms', x.cancelled = Never,
                        y.cancelled = Never, x.id # y.id
                 PROVE  x.end <= y.start \/ y.end <= x.start
      BY DEF TermsDisjoint, Live
    <2>1. CASE x \in rest /\ y \in rest
      BY <1>1, <2>1 DEF TermsDisjoint, Live
    <2>2. CASE x = u /\ y \in rest
      BY <2>2 DEF Live
    <2>3. CASE y = u /\ x \in rest
      BY <2>3 DEF Live
    <2> QED
      BY <1>2, <2>1, <2>2, <2>3
  <1> QED
    BY <1>6, <1>7, <1>8, <1>9 DEF TermsOK

-----------------------------------------------------------------------------
(* The allowance. *)

LEMMA ActivePlanFact ==
  ASSUME NEW T \in SUBSET Term, NEW when \in Nat
  PROVE  ActivePlan(T, when) \in Plans \cup {Free}
  <1> DEFINE A == ActiveTerms(T, when)
             S == {t.start : t \in A}
             Latest(t) == \A u \in A : u.start <= t.start
  <1>1. A \subseteq Term /\ \A t \in A : t.start \in Nat /\ t.start <= when
    BY TermFact DEF ActiveTerms
  <1>2. CASE A = {}
    BY <1>2 DEF ActivePlan
  <1>3. CASE A # {}
    <2>1. S \in SUBSET Nat /\ S # {} /\ \A k \in S : k <= when
      BY <1>1, <1>3
    <2>2. \E m \in S : \A k \in S : m >= k
      <3> HIDE DEF S, A
      <3> QED BY <2>1, Greatest
    <2>3. \E t \in A : Latest(t)
      BY <1>1, <2>2
    <2>4. ActivePlan(T, when) = (CHOOSE t \in A : Latest(t)).plan
      BY <1>3 DEF ActivePlan
    <2> HIDE DEF Latest, A
    <2>5. (CHOOSE t \in A : Latest(t)) \in A
      BY <2>3
    <2> QED
      BY <1>1, <2>4, <2>5, TermFact
  <1> QED
    BY <1>2, <1>3

LEMMA PeriodFact ==
  ASSUME NEW when \in 0 .. MaxTime
  PROVE  PeriodOf(when) \in 0 .. MaxTime
  BY SubscriptionsAssumption DEF PeriodOf

Granted == /\ grants \subseteq [plan : Plans \cup {Free}, period : 0 .. MaxTime]
           /\ balance \in Nat /\ Booked

LEMMA BookedTotal ==
  /\ AllowanceOnce <=> balance = Total([g \in grants |-> Credits[g.plan]], grants)
  /\ AllowanceOnce' <=> balance' = Total([g \in grants' |-> Credits[g.plan]], grants')
  BY DEF AllowanceOnce, Total, SumFunction

LEMMA BookedStays == Booked /\ UNCHANGED <<grants, balance>> => Booked'
  BY BookedTotal DEF Booked

\* A new key is one entry more, with the credits of its plan.
LEMMA BookedStep ==
  ASSUME Granted, NEW key \in [plan : Plans \cup {Free}, period : 0 .. MaxTime], key \notin grants,
         grants' = grants \cup {key}, balance' = balance + Credits[key.plan]
  PROVE  Booked'
  <1> DEFINE w == [g \in grants |-> Credits[g.plan]]
             v == [g \in grants \cup {key} |-> Credits[g.plan]]
             S == grants \cup {key}
  <1>1. IsFiniteSet(grants) /\ IsFiniteSet(S) /\ key \in S /\ S \ {key} = grants
    BY FS_AddElement DEF Granted, Booked
  <1>2. Weights(w, grants) /\ Weights(v, S) /\ (\A g \in grants : w[g] = v[g]) /\ v[key] = Credits[key.plan]
    <2>1. \A g \in S : g.plan \in Plans \cup {Free}
      BY DEF Granted
    <2>2. \A g \in S : Credits[g.plan] \in Nat
      BY <2>1, SubscriptionsAssumption
    <2> QED BY <2>2 DEF Weights
  <1>3. balance = Total(w, grants) /\ balance \in Nat
    BY BookedTotal DEF Granted, Booked
  <1> HIDE DEF w, v
  <1>4. Total(v, S) = v[key] + Total(v, S \ {key}) /\ v[key] \in Nat
    <2> HIDE DEF S
    <2> QED BY <1>1, <1>2, TotalOne
  <1>5. Total(w, grants) = Total(v, grants)
    BY <1>1, <1>2, TotalSame
  <1>6. Total(v, S \ {key}) = Total(v, grants)
    BY <1>1
  <1>7. balance' = Total(v, S)
    BY <1>2, <1>3, <1>4, <1>5, <1>6
  <1>8. AllowanceOnce'
    BY <1>7, BookedTotal DEF v
  <1> QED BY <1>1, <1>8 DEF Booked

LEMMA AllowanceStep ==
  ASSUME Granted, now \in 0 .. MaxTime, NEW T \in SUBSET Term,
         EnsureAllowance(T) \/ UNCHANGED <<grants, balance>>
  PROVE  Granted'
  <1> DEFINE key == AllowanceKey(T, now)
  <1>1. now \in Nat
    BY NeverFact
  <1>2. key \in [plan : Plans \cup {Free}, period : 0 .. MaxTime] /\ key.plan \in Plans \cup {Free}
    BY <1>1, ActivePlanFact, PeriodFact DEF AllowanceKey
  <1>3. Credits[key.plan] \in Nat
    BY <1>2, SubscriptionsAssumption
  <1>4. CASE UNCHANGED <<grants, balance>>
    BY <1>4, BookedStays DEF Granted
  <1>5. CASE /\ key \notin grants
             /\ grants' = grants \cup {key} /\ balance' = balance + Credits[key.plan]
    <2> HIDE DEF key
    <2>1. Booked'
      BY <1>2, <1>5, BookedStep
    <2> QED BY <1>2, <1>3, <1>5, <2>1 DEF Granted
  <1> QED
    BY <1>4, <1>5 DEF EnsureAllowance

-----------------------------------------------------------------------------
(* Every step on the terms. *)

\* What a step may do to the terms: see PrepaidKept.
KeepsPrepaid ==
  \/ OperatorRewrites
  \/ \A t \in terms : \A x \in t.start .. t.end :
        ActivePlan(terms, x) # Free => ActivePlan(terms', x) = ActivePlan(terms, x)

Seeing == seen \in [Operators -> Term \cup {NoTerm}]

\* The ids of orders among the terms.
SameOrderTerms == \A o \in Orders : (\E t \in terms' : t.id = o) <=> (\E t \in terms : t.id = o)

TermsGoOn ==
  /\ now' \in 0 .. MaxTime /\ Granted' /\ Seeing' /\ paidOff' \in BOOLEAN
  /\ TermsOK' /\ CancelsPast' /\ KeepsPrepaid

LEMMA SubFacts ==
  ASSUME TermInv
  PROVE  /\ now \in 0 .. MaxTime /\ Granted /\ Seeing /\ paidOff \in BOOLEAN
         /\ terms \subseteq Term /\ UniqueIds /\ TermsOK /\ CancelsPast
  BY DEF TermInv, SubTypeOK, Granted, Seeing, TermsOK, UniqueIds

LEMMA SameTermsOK ==
  ASSUME TermInv, terms' = terms, now' = now \/ now' = now + 1
  PROVE  TermsOK' /\ CancelsPast' /\ KeepsPrepaid /\ SameOrderTerms
  <1>1. CancelsPast'
    <2> SUFFICES ASSUME NEW t \in terms, t.cancelled # Never PROVE t.cancelled <= now'
      BY DEF CancelsPast
    <2>1. t.cancelled <= now /\ t.cancelled \in Nat /\ now \in Nat
      BY SubFacts, TermFact, NeverFact DEF CancelsPast
    <2> QED BY <2>1
  <1>2. KeepsPrepaid /\ SameOrderTerms
    BY DEF KeepsPrepaid, SameOrderTerms
  <1>3. TermsOK'
    BY DEF TermInv, TermsOK, Bounded, UniqueIds, TermsDisjoint, Live
  <1> QED
    BY <1>1, <1>2, <1>3

\* A term that starts when everything else has ended changes no instant of theirs.
LEMMA AddKeeps ==
  ASSUME TermInv, NEW t \in Term, t.cancelled = Never, t.start = NextStart(terms),
         terms' = terms \cup {t}, now' = now
  PROVE  KeepsPrepaid /\ CancelsPast'
  <1>1. CancelsPast'
    BY SubFacts DEF CancelsPast
  <1>2. ASSUME NEW x \in Nat, ActivePlan(terms, x) # Free
        PROVE  ActivePlan(terms', x) = ActivePlan(terms, x)
    <2>1. PICK u \in terms : x < u.end /\ x < u.cancelled
      BY <1>2 DEF ActivePlan, ActiveTerms
    <2>2. /\ u.end \in Nat /\ u.cancelled \in Nat /\ now \in Nat /\ t.start \in Nat
          /\ now <= t.start
      BY SubFacts, TermFact, NeverFact, NextStartFact
    <2>3. x < t.start
      <3>1. CASE u.cancelled = Never
        <4>1. u.end <= t.start
          BY <3>1, NextStartFact DEF Live
        <4> QED BY <2>1, <2>2, <4>1
      <3>2. CASE u.cancelled # Never
        <4>1. u.cancelled <= now
          BY <3>2, SubFacts DEF CancelsPast
        <4> QED BY <2>1, <2>2, <4>1
      <3> QED BY <3>1, <3>2
    <2>4. ActiveTerms(terms', x) = ActiveTerms(terms, x)
      BY <2>2, <2>3 DEF ActiveTerms
    <2> DEFINE Plan(A) == IF A = {} THEN Free
                          ELSE (CHOOSE v \in A : \A y \in A : y.start <= v.start).plan
    <2>5. /\ ActivePlan(terms, x) = Plan(ActiveTerms(terms, x))
          /\ ActivePlan(terms', x) = Plan(ActiveTerms(terms', x))
      BY DEF ActivePlan
    <2> HIDE DEF Plan
    <2> QED BY <2>4, <2>5
  <1>3. \A u \in terms : u.start .. u.end \subseteq Nat
    BY SubFacts, TermFact
  <1> QED BY <1>1, <1>2, <1>3 DEF KeepsPrepaid

LEMMA BuyTerm ==
  ASSUME TermInv, NEW o \in TermIds, NEW plan \in Plans, NEW n \in Cycles,
         \A u \in terms : u.id # o, ApplySubscription(o, plan, n)
  PROVE  /\ TermsGoOn
         /\ \E t \in Term : t.id = o /\ terms' = terms \cup {t}
  <1> DEFINE t == NewTerm(o, plan, n)
  <1>1. t \in Term /\ t.id = o /\ t.start = NextStart(terms) /\ t.cancelled = Never
    BY NewTermFact
  <1>2. terms' = terms \cup {t} /\ now' = now /\ seen' = seen
        /\ AllowanceIfStarted(terms', t.start)
        /\ paidOff' = (t.start <= now => balance' > balance)
    BY DEF ApplySubscription
  <1> HIDE DEF t
  <1>3. TermsOK'
    BY <1>1, <1>2, NextStartFact, AddTerm
  <1>4. KeepsPrepaid /\ CancelsPast'
    BY <1>1, <1>2, AddKeeps
  <1>5. Granted'
    <2>1. EnsureAllowance(terms') \/ UNCHANGED <<grants, balance>>
      BY <1>2 DEF AllowanceIfStarted
    <2>2. terms' \in SUBSET Term
      BY <1>3 DEF TermsOK
    <2> QED
      BY <2>1, <2>2, SubFacts, AllowanceStep
  <1>6. paidOff' \in BOOLEAN
    BY <1>2
  <1> QED
    BY <1>1, <1>2, <1>3, <1>4, <1>5, <1>6, SubFacts DEF TermsGoOn, Seeing

LEMMA GrantStep ==
  ASSUME TermInv, NEW id \in TermIds \ Orders, NEW plan \in Plans, NEW n \in Cycles,
         AdminGrant(id, plan, n)
  PROVE  TermsGoOn /\ SameOrderTerms
  <1> DEFINE t == NewTerm(id, plan, n)
  <1>1. t \in Term /\ t.id = id /\ t.start = NextStart(terms) /\ t.cancelled = Never
    BY NewTermFact
  <1>2. terms' = terms \cup {t} /\ now' = now /\ seen' = seen /\ paidOff' = paidOff
        /\ AllowanceIfStarted(terms', t.start) /\ \A u \in terms : u.id # id
    BY DEF AdminGrant
  <1> HIDE DEF t
  <1>3. TermsOK'
    BY <1>1, <1>2, NextStartFact, AddTerm
  <1>4. KeepsPrepaid /\ CancelsPast' /\ SameOrderTerms
    BY <1>1, <1>2, AddKeeps DEF SameOrderTerms
  <1>5. Granted'
    <2>1. EnsureAllowance(terms') \/ UNCHANGED <<grants, balance>>
      BY <1>2 DEF AllowanceIfStarted
    <2>2. terms' \in SUBSET Term
      BY <1>3 DEF TermsOK
    <2> QED
      BY <2>1, <2>2, SubFacts, AllowanceStep
  <1> QED
    BY <1>2, <1>3, <1>4, <1>5, SubFacts DEF TermsGoOn, Seeing

\* An operator rewrites one term, under its id.
LEMMA RewriteKeeps ==
  ASSUME TermInv, NEW t \in terms, NEW u, u.id = t.id, u.cancelled = Never \/ u.cancelled <= now,
         terms' = Rewrite(t, u), now' = now
  PROVE  CancelsPast' /\ SameOrderTerms
  <1>1. terms' = {v \in terms : v.id # t.id} \cup {u}
    BY DEF Rewrite
  <1> QED
    BY <1>1, SubFacts DEF CancelsPast, SameOrderTerms

LEMMA ChangeStep ==
  ASSUME TermInv, NEW a \in Operators, NEW plan \in Plans,
         NEW end \in 1 .. (MaxTime + Horizon), AdminChange(a, plan, end)
  PROVE  TermsGoOn /\ SameOrderTerms
  <1> DEFINE t == seen[a]
             u == [t EXCEPT !.plan = plan, !.end = end]
  <1>1. t \in terms /\ t.cancelled = Never /\ ~Overlaps(t, end) /\ terms' = Rewrite(t, u)
        /\ AllowanceIfStarted(terms', t.start) /\ UNCHANGED <<now, seen, paidOff>>
    BY DEF AdminChange, Changeable
  <1>2. t \in Term /\ end \in Nat
    BY <1>1, SubFacts, SubscriptionsAssumption
  <1>3. u \in Term /\ u.id = t.id /\ u.start = t.start /\ u.end = end /\ u.cancelled = Never
    BY <1>1, <1>2 DEF Term
  <1>4. \A v \in Live(terms) : v.id # t.id => u.end <= v.start \/ v.end <= u.start
    <2> SUFFICES ASSUME NEW v \in Live(terms), v.id # t.id
                 PROVE  end <= v.start \/ v.end <= t.start
      BY <1>3
    <2>1. v.start \in Nat /\ v.end \in Nat /\ t.start \in Nat
      BY <1>2, SubFacts, TermFact DEF Live
    <2>2. ~(v.start < end /\ t.start < v.end)
      BY <1>1 DEF Overlaps
    <2> QED
      BY <1>2, <2>1, <2>2
  <1> HIDE DEF t, u
  <1>5. TermsOK' /\ Cardinality(terms') <= Cardinality(terms)
    BY <1>1, <1>3, <1>4, RewriteTerm
  <1>6. KeepsPrepaid
    BY DEF KeepsPrepaid, OperatorRewrites
  <1>7. CancelsPast' /\ SameOrderTerms
    BY <1>1, <1>3, RewriteKeeps
  <1>8. Granted'
    <2>1. EnsureAllowance(terms') \/ UNCHANGED <<grants, balance>>
      BY <1>1 DEF AllowanceIfStarted
    <2>2. terms' \in SUBSET Term
      BY <1>5 DEF TermsOK
    <2> QED
      BY <2>1, <2>2, SubFacts, AllowanceStep
  <1> QED
    BY <1>1, <1>5, <1>6, <1>7, <1>8, SubFacts DEF TermsGoOn, Seeing

LEMMA AdminCancelStep ==
  ASSUME TermInv, NEW a \in Operators, AdminCancel(a)
  PROVE  TermsGoOn /\ SameOrderTerms
  <1> DEFINE t == seen[a]
             u == [t EXCEPT !.cancelled = now]
  <1>1. t \in terms /\ t.cancelled = Never /\ terms' = Rewrite(t, u)
        /\ UNCHANGED <<now, grants, balance, seen, paidOff>>
    BY DEF AdminCancel, Changeable
  <1>2. t \in Term /\ now \in 0 .. MaxTime /\ now \in 0 .. Never /\ now # Never
    BY <1>1, SubFacts, NeverFact
  <1>3. u \in Term /\ u.id = t.id /\ u.cancelled # Never /\ u.cancelled <= now
    BY <1>2, NeverFact DEF Term
  <1> HIDE DEF t, u
  <1>5. TermsOK' /\ Cardinality(terms') <= Cardinality(terms)
    BY <1>1, <1>3, RewriteTerm
  <1>6. KeepsPrepaid
    BY DEF KeepsPrepaid, OperatorRewrites
  <1>7. CancelsPast' /\ SameOrderTerms
    BY <1>1, <1>3, RewriteKeeps
  <1> QED
    BY <1>1, <1>5, <1>6, <1>7, SubFacts, BookedStays DEF TermsGoOn, Seeing, Granted

LEMMA OtherSteps ==
  ASSUME TermInv, Touch \/ Tick \/ \E a \in Operators, t \in terms : AdminOpen(a, t)
  PROVE  TermsGoOn /\ SameOrderTerms
  <1>1. terms' = terms /\ paidOff' = paidOff
    BY DEF Touch, Tick, AdminOpen
  <1>2. now' \in 0 .. MaxTime /\ (now' = now \/ now' = now + 1)
    BY SubFacts, SubscriptionsAssumption DEF Touch, Tick, AdminOpen
  <1>3. Granted'
    <2>1. EnsureAllowance(terms) \/ UNCHANGED <<grants, balance>>
      BY DEF Touch, Tick, AdminOpen
    <2> QED
      BY <2>1, SubFacts, AllowanceStep
  <1>4. Seeing'
    BY SubFacts DEF Touch, Tick, AdminOpen, Seeing
  <1> QED
    BY <1>1, <1>2, <1>3, <1>4, SubFacts, SameTermsOK DEF TermsGoOn

LEMMA OperatingStep ==
  ASSUME TermInv, Operating
  PROVE  TermsGoOn /\ SameOrderTerms
  BY GrantStep, ChangeStep, AdminCancelStep, OtherSteps DEF Operating

LEMMA TermInitially == Init => TermInv
  <1> SUFFICES ASSUME Init PROVE TermInv
    OBVIOUS
  <1>1. /\ now = 0 /\ terms = {} /\ grants = {} /\ balance = 0
        /\ seen = [a \in Operators |-> NoTerm] /\ paidOff = TRUE
    BY DEF Init, SubInit
  <1>2. 0 \in 0 .. MaxTime
    BY SubscriptionsAssumption
  <1>3. SubTypeOK
    BY <1>1, <1>2 DEF SubTypeOK
  <1>4. TermsOK
    BY <1>1, FS_EmptySet DEF TermsOK, Bounded, UniqueIds, TermsDisjoint, Live
  <1>5. OrdersHaveTerms
    BY <1>1 DEF OrdersHaveTerms, PaidSub, Status, Init, PayInit
  <1>6. Booked
    <2> DEFINE z == [g \in grants |-> Credits[g.plan]]
    <2>1. IsFiniteSet(grants) /\ grants = {} /\ Weights(z, {})
      BY <1>1, FS_EmptySet DEF Weights
    <2> HIDE DEF z
    <2>2. Total(z, {}) = 0
      BY <2>1, FS_EmptySet, TotalFirst
    <2>3. Total(z, grants) = 0
      BY <2>1, <2>2
    <2> QED BY <1>1, <2>1, <2>3, BookedTotal DEF Booked, z
  <1>7. CancelsPast
    BY <1>1 DEF CancelsPast
  <1> QED
    BY <1>3, <1>4, <1>5, <1>6, <1>7 DEF TermInv

LEMMA TypedTerms ==
  ASSUME TermsGoOn
  PROVE  SubTypeOK'
  BY DEF TermsGoOn, TermsOK, Granted, Seeing, UniqueIds, SubTypeOK

\* Nothing is done to the terms.
LEMMA TermsStay ==
  ASSUME TermInv, UNCHANGED subVars
  PROVE  TermsGoOn /\ SameOrderTerms
  <1>1. UNCHANGED <<now, terms, grants, balance, seen, paidOff>>
    BY DEF subVars
  <1> QED
    BY <1>1, SubFacts, SameTermsOK, BookedStays DEF TermsGoOn, Granted, Seeing

\* Terms and paid orders stay together.
LEMMA Together ==
  ASSUME TermInv, SameOrderTerms, \A o \in Orders : PaidSub(o)' <=> PaidSub(o)
  PROVE  OrdersHaveTerms'
  BY DEF TermInv, OrdersHaveTerms, SameOrderTerms

LEMMA BuyStep ==
  ASSUME TermInv, NEW o \in Orders, Buys(o)
  PROVE  TermsGoOn /\ OrdersHaveTerms'
  <1>1. o \in TermIds /\ order[o].product \in Plans /\ order[o].product # TopUp
    BY SubscriptionsAssumption, PaymentsAssumption DEF Buys
  <1>2. \A u \in terms : u.id # o
    BY DEF Buys, TermInv, OrdersHaveTerms, PaidSub
  <1>3. PICK n \in Cycles : ApplySubscription(o, order[o].product, n)
    BY DEF Buys
  <1>4. TermsGoOn /\ \E t \in Term : t.id = o /\ terms' = terms \cup {t}
    BY <1>1, <1>2, <1>3, BuyTerm
  <1>5. PICK t \in Term : t.id = o /\ terms' = terms \cup {t}
    BY <1>4
  <1>6. order'[o].status = "paid" /\ order'[o].product = order[o].product
        /\ \A q \in Orders \ {o} : order'[q] = order[q]
    BY DEF Buys
  <1>7. ASSUME NEW q \in Orders
        PROVE  (\E u \in terms' : u.id = q) <=> PaidSub(q)'
    <2>1. CASE q = o
      BY <2>1, <1>1, <1>5, <1>6 DEF PaidSub, Status
    <2>2. CASE q # o
      <3>1. PaidSub(q)' <=> PaidSub(q)
        BY <2>2, <1>6 DEF PaidSub, Status
      <3>2. (\E u \in terms' : u.id = q) <=> (\E u \in terms : u.id = q)
        BY <2>2, <1>5
      <3> QED
        BY <3>1, <3>2 DEF TermInv, OrdersHaveTerms
    <2> QED
      BY <2>1, <2>2
  <1> QED
    BY <1>4, <1>7 DEF OrdersHaveTerms

LEMMA TermInductive ==
  ASSUME PayInv, TermInv, [WholeNext]_vars
  PROVE  TermInv' /\ KeepsPrepaid
  <1>1. TermsGoOn /\ OrdersHaveTerms'
    <2>1. CASE Next
      <3>1. TermsFollow
        BY <2>1, EveryPayStep DEF PayStep
      <3> QED
        BY <3>1, TermsStay, Together, BuyStep DEF TermsFollow
    <2>2. CASE Operating /\ UNCHANGED payVars
      <3>1. \A o \in Orders : PaidSub(o)' <=> PaidSub(o)
        BY <2>2 DEF payVars, PaidSub, Status
      <3> QED
        BY <2>2, <3>1, OperatingStep, Together
    <2>3. CASE UNCHANGED vars
      <3>1. UNCHANGED subVars /\ order' = order
        BY <2>3 DEF vars, payVars
      <3>2. \A o \in Orders : PaidSub(o)' <=> PaidSub(o)
        BY <3>1 DEF PaidSub, Status
      <3> QED
        BY <3>1, <3>2, TermsStay, Together
    <2> QED
      BY <2>1, <2>2, <2>3 DEF WholeNext
  <1> QED
    BY <1>1, TypedTerms DEF TermInv, TermsGoOn, Granted

LEMMA OrderMonotone ==
  ASSUME PayInv, [WholeNext]_vars, NEW o \in Orders
  PROVE  /\ Status(o) = "paid" => order'[o].status = "paid"
         /\ Status(o) = "cancelled" => order'[o].status # "pending"
  <1>1. CASE Next
    BY <1>1, EveryPayStep, StatusKept DEF PayStep, PayGoesOn
  <1>2. CASE UNCHANGED payVars
    BY <1>2 DEF payVars, Status
  <1> QED
    BY <1>1, <1>2 DEF WholeNext, vars

-----------------------------------------------------------------------------
\* Terms that were not cancelled follow one another without overlap, and the
\* terms of orders are exactly those of the paid orders for a plan: nobody pays
\* twice for the same time, and what is paid for is there (apply_subscription,
\* manage_billing), for any number of purchases, grants, changes and operators.
\* The allowance of a plan is booked once for each period it was touched in.
THEOREM TermsSafe ==
  WholeSpec => [](SubTypeOK /\ TermsDisjoint /\ OrdersHaveTerms /\ AllowanceOnce)
  <1>1. Init => PayInv /\ TermInv
    BY PayInitially, TermInitially
  <1>2. (PayInv /\ TermInv) /\ [WholeNext]_vars => (PayInv /\ TermInv)'
    BY PayInductive, TermInductive
  <1>3. TermInv => SubTypeOK /\ TermsDisjoint /\ OrdersHaveTerms /\ AllowanceOnce
    BY DEF TermInv, TermsOK, Booked
  <1> QED
    BY <1>1, <1>2, <1>3, PTL DEF WholeSpec

\* The same with the scenes of the run: operators act in the scene of terms only.
TermsNext == /\ Next \/ (scene = "terms" /\ Operating /\ UNCHANGED payVars)
             /\ UNCHANGED scene
TermsSpec == Init /\ [][TermsNext]_<<vars, scene>>

NoGrants == scene # "terms" => \A t \in terms : t.id \in Orders

LEMMA NoGrantsKept ==
  ASSUME PayInv, TermInv, NoGrants, [TermsNext]_<<vars, scene>>
  PROVE  NoGrants'
  <1>1. CASE scene # "terms" /\ Next /\ UNCHANGED scene
    <2>1. TermsFollow
      BY <1>1, EveryPayStep DEF PayStep
    <2>2. CASE UNCHANGED subVars
      BY <1>1, <2>2 DEF subVars, NoGrants
    <2>3. ASSUME NEW o \in Orders, Buys(o) PROVE NoGrants'
      <3>1. PICK n \in Cycles : ApplySubscription(o, order[o].product, n)
        BY <2>3 DEF Buys
      <3>2. NewTerm(o, order[o].product, n).id = o
        BY DEF NewTerm
      <3>3. terms' = terms \cup {NewTerm(o, order[o].product, n)}
        BY <3>1 DEF ApplySubscription
      <3> QED BY <1>1, <3>2, <3>3 DEF NoGrants
    <2> QED BY <2>1, <2>2, <2>3 DEF TermsFollow
  <1>2. CASE UNCHANGED <<vars, scene>>
    BY <1>2 DEF vars, subVars, NoGrants
  <1>3. CASE scene = "terms" /\ UNCHANGED scene
    BY <1>3 DEF NoGrants
  <1> QED BY <1>1, <1>2, <1>3 DEF TermsNext

\* Terms follow one another, each with its order, and the allowance of each
\* period is granted once (apply_subscription, ensure_period_allowance).
THEOREM TermsKeptAlways == TermsSpec => []TermsKept
  <1>1. Init => PayInv /\ TermInv /\ NoGrants
    <2>1. Init => NoGrants
      BY DEF Init, SubInit, NoGrants
    <2> QED BY <2>1, PayInitially, TermInitially
  <1>2. (PayInv /\ TermInv /\ NoGrants) /\ [TermsNext]_<<vars, scene>> => (PayInv /\ TermInv /\ NoGrants)'
    <2> SUFFICES ASSUME PayInv, TermInv, NoGrants, [TermsNext]_<<vars, scene>>
                 PROVE  PayInv' /\ TermInv' /\ NoGrants'
      OBVIOUS
    <2>1. [WholeNext]_vars
      BY DEF TermsNext, WholeNext
    <2> QED BY <2>1, PayInductive, TermInductive, NoGrantsKept
  <1>3. TermInv /\ NoGrants => TermsKept
    <2> SUFFICES ASSUME TermInv, NoGrants PROVE TermsKept
      OBVIOUS
    <2>1. SubTypeOK /\ TermsDisjoint /\ AllowanceOnce
      BY DEF TermInv, TermsOK, Booked
    <2>2. scene # "terms" => PaidHasTerm
      BY <2>1 DEF TermInv, NoGrants, OrdersHaveTerms, PaidSub, PaidHasTerm
    <2> QED BY <2>1, <2>2 DEF TermsKept
  <1> QED
    BY <1>1, <1>2, <1>3, PTL DEF TermsSpec

\* No late write reopens an order (settle_payment, cancel_order and the answers
\* that arrive after them), and no purchase, grant or late settlement alters the
\* plan of an instant that a term holds: "Prepaid time is never replaced by a later
\* purchase, including a plan switch" (apply_subscription); only an operator's change
\* or cancellation does (manage_billing).
THEOREM BackSafe == WholeSpec => NothingTakenBack
  <1> DEFINE Mono == \A o \in Orders : /\ Status(o) = "paid" => order'[o].status = "paid"
                                       /\ Status(o) = "cancelled" => order'[o].status # "pending"
  <1>1. Init => PayInv /\ TermInv
    BY PayInitially, TermInitially
  <1>2. (PayInv /\ TermInv) /\ [WholeNext]_vars => (PayInv /\ TermInv)'
    BY PayInductive, TermInductive
  <1>3. (PayInv /\ TermInv) /\ [WholeNext]_vars => [Mono]_vars
    BY OrderMonotone
  <1>4. (PayInv /\ TermInv) /\ [WholeNext]_vars => [KeepsPrepaid]_subVars
    BY TermInductive
  <1>5. WholeSpec => [][Mono]_vars /\ [][KeepsPrepaid]_subVars
    BY <1>1, <1>2, <1>3, <1>4, PTL DEF WholeSpec
  <1> QED
    BY <1>5 DEF NothingTakenBack, StatusMonotone, PrepaidKept, KeepsPrepaid

-----------------------------------------------------------------------------
(* The consumer of the paid terms, DesktopActivation.                       *)

\* Where a worker may be, and the shape of the state.
Places == {"idle", "read", "release", "failed", "assign", "begin", "list", "allocate",
           "begin_new", "intent", "buy", "bought", "bind", "clear", "describe", "renew",
           "extend", "extended", "start", "grant", "granted", "finish", "maintain",
           "find", "keep", "inspect", "revoke", "revoked", "suspended"}
StepNames == {"queued", "working", "connecting", "suspending", "suspended", "ready"}
StateNames == {"none", "queued", "working", "retrying", "needs_attention", "ready", "suspended"}
Intents == {"none", "create", "renew"}
Ident == [row : BOOLEAN, id : All \cup {None}, attempt : Attempts \cup {None},
          assigning : BOOLEAN]
Job == [state : StateNames, step : StepNames, kind : Intents, base : Nat, lease : Workers \cup {None}]
Desk == [row : BOOLEAN, id : All \cup {None}, attempt : Attempts \cup {None},
         assigning : BOOLEAN, up : BOOLEAN, paidTo : Nat]
WorkerView == [kind : Intents, base : Nat, step : StepNames, desk : Ident,
               got : All \cup {None}, paidTo : Nat]
CloudRequest == [who : Workers \cup {None}, op : {"create", "renew", "grant", "revoke"},
                 m : All \cup {None}]

\* The constants are as DesktopActivation assumes, and the state has its shape.
Typed ==
  /\ ActivationConstants
  /\ month \in 0..MaxMonths /\ paidUntil \in 0..MaxMonths
  /\ act \in Job /\ desk \in Desk /\ cloud \in [All -> Machine]
  /\ at \in [Workers -> Places] /\ see \in [Workers -> WorkerView]
  /\ sent \subseteq CloudRequest

\* The place a worker waits at for the answer to its request.
WaitsAt(op) == CASE op = "create" -> "bought" [] op = "renew" -> "extended"
                 [] op = "grant" -> "granted" [] op = "revoke" -> "revoked"

\* A request is waited for by its sender or by nobody; there is one purchase and one
\* extension under way at most, and all but a purchase are about the machine on the row.
Requests ==
  /\ \A f \in sent : f.who # None => at[f.who] = WaitsAt(f.op)
  /\ \A f, g \in sent : f.who = g.who /\ f.who # None => f = g
  /\ \A f, g \in sent : f.op = g.op /\ f.op \in {"create", "renew"} => f = g
  /\ \A f \in sent : f.op # "create" => f.m = desk.id /\ f.m # None

\* Machines of the workspace.
Ours == {m \in All : cloud[m].there /\ (m \in Machines \/ cloud[m].tagged)}

\* What a worker has read of the row, by where it is.
RowRead(w) ==
  /\ at[w] \in {"clear", "describe", "renew", "extend", "extended", "start", "grant",
                "granted", "finish", "inspect", "revoke", "revoked"} => see[w].desk.id # None
  /\ at[w] \in {"list", "allocate", "intent", "buy", "bought", "bind", "find", "keep"} =>
       see[w].desk.id = None
  /\ at[w] \in {"begin_new", "intent", "buy", "bought", "bind", "find", "keep"} =>
       see[w].desk.row
  /\ at[w] = "allocate" => ~see[w].desk.row
  /\ see[w].desk.id # None => see[w].desk.id = desk.id
  /\ see[w].desk.row => desk.row
\* The machine it has found.
Found(w) ==
  /\ at[w] \in {"assign", "begin", "list"} => see[w].got = None
  /\ at[w] \in {"bind", "keep"} => see[w].got \in Ours
  /\ at[w] = "allocate" => see[w].got \in Ours \cup {None}
  /\ at[w] = "bought" /\ (\A f \in sent : f.who # w) => see[w].got \in Ours
\* The holder of the lease knows the intent on record.
Holder(w) ==
  act.lease = w =>
    /\ at[w] \in {"assign", "begin", "list", "maintain"} => see[w].kind = act.kind /\ see[w].base = act.base
    /\ at[w] \in {"begin_new", "intent"} => act.kind = "none"
    /\ at[w] \in {"buy", "bought", "bind", "clear", "renew"} => act.kind # "renew"
    /\ at[w] = "describe" => \/ act.kind = "none"
                             \/ see[w].kind = act.kind /\ see[w].base = act.base
    /\ at[w] = "renew" => cloud[desk.id].shownTo = see[w].paidTo /\ see[w].paidTo <= month
    /\ at[w] \in {"extend", "extended"} => act.kind = "renew" /\ act.base = see[w].paidTo

\* A machine on the row exists.
RowShape ==
  /\ ~desk.row => desk.id = None /\ act.kind = "none"
  /\ desk.id # None => cloud[desk.id].there
  /\ \A m \in All : cloud[m].tagged => cloud[m].there

\* Without a machine on the row and an intent to buy one, none was bought; whoever is
\* about to buy is alone in that, and no purchase is under way.
OnePurchase ==
  /\ desk.id = None /\ act.kind # "create" => Ours = {}
  /\ desk.id # None => Ours \subseteq {desk.id}
  /\ \A m, n \in Ours : m = n
  /\ \A f \in sent : f.op = "create" => desk.id = None /\ act.kind = "create" /\ Ours = {}
  /\ \A w \in Workers : at[w] = "buy" =>
       /\ desk.id = None /\ act.kind = "create" /\ Ours = {}
       /\ \A f \in sent : f.op # "create"
       /\ \A v \in Workers : at[v] = "buy" => v = w

\* The same for months: an intent to renew has bought the month after its base or not
\* yet, and what the cloud shows is one of the two.
OneMonth ==
  /\ \A m \in All : /\ cloud[m].paidTo <= month + 1
                    /\ m # desk.id \/ act.kind # "renew" => cloud[m].shownTo = cloud[m].paidTo
  /\ act.kind = "renew" =>
       /\ desk.id # None /\ act.base <= month
       /\ cloud[desk.id].paidTo \in {act.base, act.base + 1}
       /\ cloud[desk.id].shownTo \in {act.base, cloud[desk.id].paidTo}
  /\ \A f \in sent : f.op = "renew" => act.kind = "renew" /\ cloud[desk.id].paidTo = act.base
  /\ \A w \in Workers : at[w] = "extend" =>
       /\ act.kind = "renew" /\ cloud[desk.id].paidTo = act.base
       /\ \A f \in sent : f.op # "renew"
       /\ \A v \in Workers : at[v] = "extend" => v = w

\* The inductive invariant of purchases.
ActInv ==
  /\ Typed /\ Requests /\ RowShape /\ OnePurchase /\ OneMonth
  /\ \A w \in Workers : RowRead(w) /\ Found(w) /\ Holder(w)

LEMMA ConstantsFact ==
  ASSUME ActInv
  PROVE  /\ None \notin Workers \cup Machines \cup Pooled \cup Attempts
         /\ Machines \cap Pooled = {}
         /\ IsFiniteSet(Workers) /\ IsFiniteSet(Attempts)
         /\ Cardinality(Attempts) > Cardinality(Workers) + 1
         /\ MaxMonths \in Nat
  BY DEF ActInv, Typed, ActivationConstants

\* What any step leaves to a worker that does not take it.
Spared(w) ==
  /\ at'[w] = at[w] /\ see'[w] = see[w]
  /\ desk.id # None => desk'.id = desk.id
  /\ desk.row => desk'.row
  /\ Ours \subseteq Ours'
  /\ month <= month'
  /\ act'.lease = w => act.lease = w /\ act'.kind = act.kind /\ act'.base = act.base
  /\ (act.lease = w /\ at[w] = "renew") => cloud'[desk.id].shownTo = cloud[desk.id].shownTo
  /\ (\A f \in sent' : f.who # w) => (\A f \in sent : f.who # w)

LEMMA SparedKeeps ==
  ASSUME ActInv, Typed', NEW w \in Workers, Spared(w)
  PROVE  RowRead(w)' /\ Found(w)' /\ Holder(w)'
  <1>1. RowRead(w)'
    BY DEF ActInv, RowRead, Spared
  <1>2. Found(w)'
    BY DEF ActInv, Found, Spared
  <1>3. Holder(w)'
    <2> SUFFICES ASSUME act'.lease = w PROVE Holder(w)'
      BY DEF Holder
    <2>1. act.lease = w /\ act'.kind = act.kind /\ act'.base = act.base /\ at'[w] = at[w]
          /\ see'[w] = see[w] /\ Holder(w) /\ RowRead(w)
      BY DEF Spared, ActInv
    <2>2. at[w] = "renew" => cloud'[desk'.id].shownTo = see[w].paidTo /\ see[w].paidTo <= month'
      <3> SUFFICES ASSUME at[w] = "renew" PROVE cloud'[desk'.id].shownTo = see[w].paidTo /\ see[w].paidTo <= month'
        OBVIOUS
      <3>1. desk.id # None
        BY <2>1 DEF RowRead
      <3>2. cloud[desk.id].shownTo = see[w].paidTo /\ see[w].paidTo <= month
        BY <2>1 DEF Holder
      <3>3. see[w].paidTo \in Nat /\ month \in Nat /\ month' \in Nat
        BY DEF ActInv, Typed, WorkerView
      <3> QED BY <2>1, <3>1, <3>2, <3>3 DEF Spared
    <2> QED BY <2>1, <2>2 DEF Holder
  <1> QED BY <1>1, <1>2, <1>3

\* A step that leaves the purchases alone.
Calm ==
  /\ act'.kind = act.kind /\ act'.base = act.base
  /\ desk'.id = desk.id /\ desk'.row = desk.row
  /\ month <= month'
  /\ \A m \in All :
       /\ cloud'[m].there = cloud[m].there /\ cloud'[m].paidTo = cloud[m].paidTo
       /\ cloud'[m].shownTo \in {cloud[m].shownTo, cloud[m].paidTo}
       /\ cloud[m].tagged => cloud'[m].tagged
       /\ cloud'[m].tagged => cloud[m].tagged \/ m = desk.id
  /\ \A v \in Workers : at'[v] \in {"buy", "extend"} => at'[v] = at[v]
  /\ \A f \in sent' : f.op \in {"create", "renew"} => \E g \in sent : g.op = f.op

LEMMA CalmOurs ==
  ASSUME ActInv, Calm PROVE Ours \subseteq Ours' /\ (desk.id = None => Ours' = Ours)
    /\ (desk.id # None => Ours' \subseteq {desk.id})
  <1>1. \A m \in All : m # None
    BY ConstantsFact DEF All
  <1> QED BY <1>1 DEF ActInv, Typed, RowShape, OnePurchase, Calm, Ours

LEMMA CalmKeeps ==
  ASSUME ActInv, Typed', Calm
  PROVE  RowShape' /\ OnePurchase' /\ OneMonth'
  <1>1. Ours \subseteq Ours' /\ (desk.id = None => Ours' = Ours)
        /\ (desk.id # None => Ours' \subseteq {desk.id})
    BY CalmOurs
  <1>2. RowShape'
    <2>1. \A m \in All : m # None
      BY ConstantsFact DEF All
    <2>2. desk.id # None => desk.id \in All
      BY DEF ActInv, Typed, Desk
    <2> QED BY <2>1, <2>2 DEF ActInv, RowShape, Calm
  <1>3. OnePurchase'
    <2>1. desk.id # None => Ours' \subseteq {desk.id}
      BY <1>1
    <2> QED BY <1>1, <2>1 DEF ActInv, OnePurchase, Calm
  <1>4. OneMonth'
    <2>1. month \in Nat /\ month' \in Nat /\ act.base \in Nat
          /\ \A m \in All : cloud[m].paidTo \in Nat /\ cloud[m].shownTo \in Nat
      BY DEF ActInv, Typed, Job, Machine
    <2>2. desk.id # None => desk.id \in All
      BY DEF ActInv, Typed, Desk
    <2> QED BY <2>1, <2>2 DEF ActInv, OneMonth, Calm
  <1> QED BY <1>2, <1>3, <1>4

\* Statements of x that neither send nor settle anything.
Quiet(x) ==
  /\ Calm /\ sent' = sent
  /\ \A v \in Workers \ {x} : at'[v] = at[v] /\ see'[v] = see[v]
  /\ \A f \in sent : f.who # x
  /\ act'.lease \in {act.lease, x, None}
  /\ \A m \in All : cloud'[m].shownTo = cloud[m].shownTo

LEMMA QuietKeeps ==
  ASSUME ActInv, Typed', NEW x \in Workers, Quiet(x), RowRead(x)', Found(x)', Holder(x)'
  PROVE  ActInv'
  <1>1. RowShape' /\ OnePurchase' /\ OneMonth'
    BY CalmKeeps DEF Quiet
  <1>2. Requests'
    BY DEF ActInv, Requests, Quiet, Calm, Typed, CloudRequest
  <1>3. ASSUME NEW w \in Workers, w # x PROVE Spared(w)
    <2>1. desk.id # None => desk.id \in All
      BY DEF ActInv, Typed, Desk
    <2>2. (act.lease = w /\ at[w] = "renew") => desk.id # None
      BY DEF ActInv, RowRead
    <2>3. w # None
      BY ConstantsFact
    <2> QED BY <1>3, <2>1, <2>2, <2>3, CalmOurs DEF Quiet, Calm, Spared
  <1>4. \A w \in Workers : RowRead(w)' /\ Found(w)' /\ Holder(w)'
    BY <1>3, SparedKeeps
  <1> QED BY <1>1, <1>2, <1>4 DEF ActInv

LEMMA FreshIn == ASSUME ActInv PROVE Fresh \in Attempts
  <1> DEFINE read == [w \in Workers |-> see[w].desk.attempt]
             T == {see[w].desk.attempt : w \in Workers}
             U == T \cup {desk.attempt}
  <1>1. read \in Surjection(Workers, T)
    BY DEF Surjection
  <1>2. IsFiniteSet(T) /\ Cardinality(T) <= Cardinality(Workers)
    BY <1>1, FS_Surjection, ConstantsFact
  <1>3. IsFiniteSet(U) /\ Cardinality(U) <= Cardinality(T) + 1
    <2>1. Cardinality(T) \in Nat
      BY <1>2, FS_CardinalityType
    <2>2. IsFiniteSet(U) /\ Cardinality(U) = IF desk.attempt \in T THEN Cardinality(T) ELSE Cardinality(T) + 1
      BY <1>2, FS_AddElement
    <2> QED BY <2>1, <2>2
  <1>4. Cardinality(U) \in Nat /\ Cardinality(T) \in Nat /\ Cardinality(Workers) \in Nat
        /\ Cardinality(Attempts) \in Nat
    BY <1>2, <1>3, FS_CardinalityType, ConstantsFact
  <1>5. Cardinality(Attempts) > Cardinality(U)
    BY <1>2, <1>3, <1>4, ConstantsFact
  <1>6. ~(Attempts \subseteq U)
    <2> SUFFICES ASSUME Attempts \subseteq U PROVE FALSE
      OBVIOUS
    <2>1. Cardinality(Attempts) <= Cardinality(U)
      BY <1>3, FS_Subset
    <2> QED BY <2>1, <1>4, <1>5
  <1>7. \E a \in Attempts : a # desk.attempt /\ \A w \in Workers : a # see[w].desk.attempt
    BY <1>6
  <1> QED BY <1>7 DEF Fresh

LEMMA ActInit == ActivationInit => ActInv
  <1> SUFFICES ASSUME ActivationInit PROVE ActInv
    OBVIOUS
  <1> ActivationConstants
    BY ActivationAssumption
  <1>0. PICK stock \in SUBSET Pooled :
          cloud = [m \in All |->
           [there |-> m \in stock, shown |-> m \in stock, tagged |-> FALSE,
            granted |-> FALSE, on |-> m \in stock,
            paidTo |-> IF m \in stock THEN 1 ELSE 0,
            shownTo |-> IF m \in stock THEN 1 ELSE 0]]
    BY DEF ActivationInit
  <1>1. Typed
    <2>1. cloud \in [All -> Machine]
      BY <1>0 DEF Machine
    <2>2. act \in Job /\ desk \in Desk
      BY DEF ActivationInit, Job, Desk, NoDesk, StateNames, StepNames, Intents
    <2>3. Blank \in WorkerView
      BY DEF Blank, WorkerView, Ident, StepNames, Intents
    <2>4. month \in 0..MaxMonths /\ paidUntil \in 0..MaxMonths
      BY DEF ActivationConstants, ActivationInit
    <2>5. at \in [Workers -> Places]
      BY DEF ActivationInit, Places
    <2> QED BY <2>1, <2>2, <2>3, <2>4, <2>5 DEF ActivationInit, Typed
  <1>2. Ours = {}
    BY <1>0 DEF ActivationConstants, Ours, All
  <1>3. \A w \in Workers : at[w] = "idle" /\ see[w] = Blank
    BY DEF ActivationInit
  <1>4. Requests /\ RowShape
    BY <1>0 DEF ActivationInit, Requests, RowShape, NoDesk
  <1>5. OnePurchase
    BY <1>2, <1>3 DEF ActivationInit, OnePurchase, NoDesk
  <1>6. OneMonth
    BY <1>0, <1>3 DEF ActivationInit, OneMonth, NoDesk
  <1>7. \A w \in Workers : RowRead(w) /\ Found(w) /\ Holder(w)
    <2>1. None \notin Workers
      BY DEF ActivationConstants
    <2> QED BY <1>3, <2>1 DEF RowRead, Found, Holder, Blank, ActivationInit
  <1> QED BY <1>1, <1>4, <1>5, <1>6, <1>7 DEF ActInv

\* The passing of time, and the cloud by itself.
LEMMA TimeStep ==
  ASSUME ActInv, Pay \/ MonthPasses \/ Cancel \/ \E m \in All : Show(m) \/ Stop(m)
  PROVE  ActInv'
  <1>0. month \in 0..MaxMonths /\ paidUntil \in 0..MaxMonths /\ act \in Job
        /\ cloud \in [All -> Machine]
    BY DEF ActInv, Typed
  <1>p. ASSUME Pay \/ MonthPasses \/ Cancel
        PROVE  /\ month' \in 0..MaxMonths /\ paidUntil' \in 0..MaxMonths /\ act' \in Job
               /\ sent' = sent /\ at' = at /\ see' = see /\ desk' = desk /\ cloud' = cloud
               /\ month <= month' /\ act'.lease = act.lease /\ act'.kind = act.kind /\ act'.base = act.base
    <2>1. CASE Pay
      <3>1. paidUntil' \in 0..MaxMonths
        BY <1>0, <2>1, ConstantsFact DEF Pay, Paid
      <3>2. act' \in Job /\ act'.lease = act.lease /\ act'.kind = act.kind /\ act'.base = act.base
        BY <1>0, <2>1 DEF Pay, Enqueue, Job, StateNames, StepNames
      <3> QED BY <1>0, <2>1, <3>1, <3>2 DEF Pay
    <2>2. CASE MonthPasses
      BY <1>0, <2>2, ConstantsFact DEF MonthPasses
    <2>3. CASE Cancel
      BY <1>0, <2>3, ConstantsFact DEF Cancel
    <2> QED BY <1>p, <2>1, <2>2, <2>3
  <1>c. ASSUME NEW n \in All, Show(n) \/ Stop(n)
        PROVE  /\ month' = month /\ paidUntil' = paidUntil /\ act' = act /\ sent' = sent /\ at' = at
               /\ see' = see /\ desk' = desk /\ cloud' \in [All -> Machine]
               /\ \A m \in All :
                    /\ cloud'[m].there = cloud[m].there /\ cloud'[m].paidTo = cloud[m].paidTo
                    /\ cloud'[m].shownTo \in {cloud[m].shownTo, cloud[m].paidTo}
                    /\ cloud'[m].tagged = cloud[m].tagged
    <2>1. CASE Show(n)
      <3>1. cloud' = [cloud EXCEPT ![n].shown = TRUE, ![n].shownTo = cloud[n].paidTo]
        BY <2>1 DEF Show
      <3>2. cloud' \in [All -> Machine]
        BY <1>0, <3>1 DEF Machine
      <3>3. \A m \in All : m # n => cloud'[m] = cloud[m]
        BY <1>0, <3>1
      <3>4. /\ cloud'[n].there = cloud[n].there /\ cloud'[n].paidTo = cloud[n].paidTo
            /\ cloud'[n].shownTo = cloud[n].paidTo /\ cloud'[n].tagged = cloud[n].tagged
        BY <1>0, <3>1 DEF Machine
      <3> QED BY <2>1, <3>2, <3>3, <3>4 DEF Show
    <2>2. CASE Stop(n)
      <3>1. cloud' = [cloud EXCEPT ![n].on = FALSE]
        BY <2>2 DEF Stop
      <3>2. cloud' \in [All -> Machine]
        BY <1>0, <3>1 DEF Machine
      <3>3. \A m \in All : m # n => cloud'[m] = cloud[m]
        BY <1>0, <3>1
      <3>4. /\ cloud'[n].there = cloud[n].there /\ cloud'[n].paidTo = cloud[n].paidTo
            /\ cloud'[n].shownTo = cloud[n].shownTo /\ cloud'[n].tagged = cloud[n].tagged
        BY <1>0, <3>1 DEF Machine
      <3> QED BY <2>2, <3>2, <3>3, <3>4 DEF Stop
    <2> QED BY <1>c, <2>1, <2>2
  <1>2. /\ sent' = sent /\ at' = at /\ see' = see /\ desk' = desk
        /\ month <= month' /\ act'.lease = act.lease /\ act'.kind = act.kind /\ act'.base = act.base
    BY <1>0, <1>p, <1>c
  <1>3. \A m \in All :
       /\ cloud'[m].there = cloud[m].there /\ cloud'[m].paidTo = cloud[m].paidTo
       /\ cloud'[m].shownTo \in {cloud[m].shownTo, cloud[m].paidTo}
       /\ cloud'[m].tagged = cloud[m].tagged
    BY <1>p, <1>c
  <1>1. Typed'
    <2>1. month' \in 0..MaxMonths /\ paidUntil' \in 0..MaxMonths /\ act' \in Job
          /\ cloud' \in [All -> Machine]
      BY <1>0, <1>p, <1>c
    <2> QED BY <2>1, <1>2 DEF ActInv, Typed
  <1>4. Calm
    BY <1>2, <1>3 DEF Calm
  <1>5. RowShape' /\ OnePurchase' /\ OneMonth'
    BY <1>1, <1>4, CalmKeeps
  <1>6. Requests'
    BY <1>2 DEF ActInv, Requests
  <1>7. ASSUME NEW w \in Workers PROVE Spared(w)
    <2>1. Ours \subseteq Ours'
      BY <1>4, CalmOurs
    <2>2. (act.lease = w /\ at[w] = "renew") => cloud'[desk.id].shownTo = cloud[desk.id].shownTo
      <3> SUFFICES ASSUME act.lease = w, at[w] = "renew"
                   PROVE  cloud'[desk.id].shownTo = cloud[desk.id].shownTo
        OBVIOUS
      <3>1. desk.id \in All /\ act.kind # "renew"
        BY DEF ActInv, RowRead, Holder, Typed, Desk
      <3>2. cloud[desk.id].shownTo = cloud[desk.id].paidTo
        BY <3>1 DEF ActInv, OneMonth
      <3> QED BY <3>1, <3>2, <1>3
    <2> QED BY <1>2, <2>1, <2>2 DEF Spared
  <1> QED BY <1>1, <1>5, <1>6, <1>7, SparedKeeps DEF ActInv

\* The lease: claimed, given back, lost.
LEMMA ViewFact == Blank \in WorkerView /\ \A d \in Desk : Identity(d) \in Ident
  BY DEF Blank, WorkerView, Ident, StepNames, Intents, Identity, Desk

\* Whoever does not wait has nothing under way.
LEMMA NothingSent ==
  ASSUME ActInv, NEW x \in Workers, at[x] \notin {"bought", "extended", "granted", "revoked"}
  PROVE  \A f \in sent : f.who # x
  <1> SUFFICES ASSUME NEW f \in sent, f.who = x PROVE FALSE
    OBVIOUS
  <1>1. f.op \in {"create", "renew", "grant", "revoke"}
    BY DEF ActInv, Typed, CloudRequest
  <1>2. at[x] = WaitsAt(f.op)
    BY ConstantsFact DEF ActInv, Requests
  <1> QED BY <1>1, <1>2 DEF WaitsAt

LEMMA LeaseStep ==
  ASSUME ActInv, NEW x \in Workers, Claim(x) \/ Release(x) \/ Retry(x) \/ ReadRow(x)
  PROVE  ActInv'
  <1>0. x # None /\ see[x] \in WorkerView /\ act \in Job /\ desk \in Desk /\ at[x] \in Places
    BY ConstantsFact DEF ActInv, Typed
  <1>1. Typed'
    <2>1. act' \in Job
      BY <1>0 DEF Claim, Release, Retry, ReadRow, Ended, Owns, Job, StateNames, StepNames
    <2>2. at' \in [Workers -> Places]
      BY DEF ActInv, Typed, Claim, Release, Retry, ReadRow, Ended, Go, Places
    <2>3. see' \in [Workers -> WorkerView]
      <3>1. [kind |-> act.kind, base |-> act.base, step |-> act.step, desk |-> Identity(desk),
             got |-> None, paidTo |-> 0] \in WorkerView
        BY <1>0, ViewFact DEF WorkerView, Job
      <3> QED BY <3>1, ViewFact DEF ActInv, Typed, Claim, Release, Retry, ReadRow
    <2> QED BY <2>1, <2>2, <2>3 DEF ActInv, Typed, Claim, Release, Retry, ReadRow
  <1>2. \A f \in sent : f.who # x
    <2>1. at[x] \in {"idle", "release", "failed", "read"}
      BY DEF Claim, Release, Retry, ReadRow
    <2> QED BY <2>1, NothingSent
  <1>3. /\ act'.kind = act.kind /\ act'.base = act.base /\ act'.lease \in {act.lease, x, None}
        /\ at'[x] \in {"idle", "read", "release", "assign", "maintain"}
        /\ \A v \in Workers \ {x} : at'[v] = at[v] /\ see'[v] = see[v]
    BY <1>0 DEF ActInv, Typed, Claim, Release, Retry, ReadRow, Ended, Go, Owns, Job
  <1>4. Quiet(x)
    <2>1. month <= month' /\ month' = month /\ desk' = desk /\ cloud' = cloud /\ sent' = sent
      BY DEF Claim, Release, Retry, ReadRow, ActInv, Typed
    <2>2. Calm
      BY <2>1, <1>3 DEF Calm
    <2> QED BY <2>1, <2>2, <1>2, <1>3 DEF Quiet
  <1>5. RowRead(x)'
    <2>1. CASE ReadRow(x)
      <3>1. see'[x].desk = Identity(desk) /\ desk' = desk
        BY <2>1 DEF ReadRow, ActInv, Typed
      <3> QED BY <3>1, <1>3 DEF RowRead, Identity
    <2>2. CASE Release(x)
      BY <2>2, <1>3 DEF Release, RowRead, Blank, ActInv, Typed
    <2>3. CASE Claim(x) \/ Retry(x)
      BY <2>3, <1>3 DEF Claim, Retry, RowRead, ActInv
    <2> QED BY <2>1, <2>2, <2>3
  <1>6. Found(x)' /\ Holder(x)'
    <2>1. CASE ReadRow(x)
      <3>1. /\ see'[x].got = None /\ see'[x].kind = act.kind /\ see'[x].base = act.base
            /\ act' = act
        BY <2>1 DEF ReadRow, ActInv, Typed
      <3>2. at'[x] \in {"release", "assign", "maintain"}
        BY <2>1 DEF ReadRow, Go, ActInv, Typed
      <3> QED BY <3>1, <3>2 DEF Found, Holder
    <2>2. CASE ~ReadRow(x)
      <3>1. at'[x] \in {"idle", "read", "release"}
        BY <2>2 DEF Claim, Release, Retry, Ended, Go, ActInv, Typed
      <3> QED BY <3>1 DEF Found, Holder
    <2> QED BY <2>1, <2>2
  <1> QED BY <1>1, <1>4, <1>5, <1>6, QuietKeeps

\* The statements of an activation and a suspension that touch no purchase.
Placid(x) ==
  /\ month' = month /\ paidUntil' = paidUntil /\ sent' = sent
  /\ act' \in Job /\ act'.kind = act.kind /\ act'.base = act.base /\ act'.lease = act.lease
  /\ desk' \in Desk /\ desk'.id = desk.id /\ desk'.row = desk.row
  /\ cloud' \in [All -> Machine]
  /\ \A m \in All :
       /\ cloud'[m].there = cloud[m].there /\ cloud'[m].paidTo = cloud[m].paidTo
       /\ cloud'[m].shownTo = cloud[m].shownTo
       /\ cloud[m].tagged => cloud'[m].tagged
       /\ cloud'[m].tagged => cloud[m].tagged \/ m = desk.id
  /\ at' = [at EXCEPT ![x] = at'[x]] /\ at'[x] \in Places \ {"buy", "extend"}
  /\ see' = [see EXCEPT ![x] = see'[x]] /\ see'[x] \in WorkerView
  /\ \A f \in sent : f.who # x

LEMMA PlacidKeeps ==
  ASSUME ActInv, NEW x \in Workers, Placid(x), RowRead(x)', Found(x)', Holder(x)'
  PROVE  ActInv'
  <1>1. Typed'
    <2>1. at' \in [Workers -> Places] /\ see' \in [Workers -> WorkerView]
      BY DEF ActInv, Typed, Placid
    <2> QED BY <2>1 DEF ActInv, Typed, Placid
  <1>2. /\ \A v \in Workers \ {x} : at'[v] = at[v] /\ see'[v] = see[v]
        /\ \A v \in Workers : at'[v] \in {"buy", "extend"} => at'[v] = at[v]
    BY DEF ActInv, Typed, Placid
  <1>3. Calm
    <2>1. month <= month'
      BY DEF ActInv, Typed, Placid
    <2> QED BY <1>2, <2>1 DEF Calm, Placid
  <1>4. Quiet(x)
    BY <1>2, <1>3 DEF Quiet, Placid
  <1> QED BY <1>1, <1>4, QuietKeeps

LEMMA PlaceFact ==
  ASSUME ActInv, NEW x \in Workers
  PROVE  /\ x # None /\ see[x] \in WorkerView /\ see[x].desk \in Ident /\ act \in Job /\ desk \in Desk
         /\ cloud \in [All -> Machine] /\ at \in [Workers -> Places] /\ see \in [Workers -> WorkerView]
         /\ RowRead(x) /\ Found(x) /\ Holder(x)
         /\ see[x] = [see EXCEPT ![x] = see[x]][x] /\ see = [see EXCEPT ![x] = see[x]]
         /\ \A m \in All : m # None
         /\ month \in Nat /\ desk.row \in BOOLEAN
         /\ (desk.id # None => desk.id \in All)
  <1>1. see \in [Workers -> WorkerView] /\ see[x] \in WorkerView
    BY DEF ActInv, Typed
  <1>2. see[x].desk \in Ident
    BY <1>1 DEF WorkerView
  <1>3. desk.row \in BOOLEAN /\ (desk.id # None => desk.id \in All)
    BY DEF ActInv, Typed, Desk
  <1>4. month \in Nat
    BY ConstantsFact DEF ActInv, Typed
  <1> QED BY <1>1, <1>2, <1>3, <1>4, ConstantsFact DEF ActInv, Typed, All

\* An outcome changes the state and the step of the row only.
LEMMA EndedFact ==
  ASSUME ActInv, NEW x \in Workers, NEW s \in StateNames, NEW t \in StepNames, Ended(x, s, t)
  PROVE  /\ act' \in Job /\ act'.kind = act.kind /\ act'.base = act.base
         /\ act'.lease = act.lease
         /\ at' = [at EXCEPT ![x] = "release"] /\ at'[x] = "release"
  BY DEF ActInv, Typed, Ended, Go, Job

\* A worker that stops: nothing but the outcome and the desktop's health.
LEMMA StopKeeps ==
  ASSUME ActInv, NEW x \in Workers, at' = [at EXCEPT ![x] = "release"],
         month' = month, paidUntil' = paidUntil, sent' = sent, cloud' = cloud,
         act' \in Job, act'.kind = act.kind, act'.base = act.base, act'.lease = act.lease,
         desk' \in Desk, desk'.id = desk.id, desk'.row = desk.row,
         see' = [see EXCEPT ![x] = see'[x]], see'[x] \in WorkerView, see'[x].desk = see[x].desk,
         \A f \in sent : f.who # x
  PROVE  ActInv'
  <1>1. at'[x] = "release" /\ "release" \in Places \ {"buy", "extend"}
    BY DEF ActInv, Typed, Places
  <1>2. Placid(x)
    BY <1>1, PlaceFact DEF Placid
  <1>3. RowRead(x)' /\ Found(x)' /\ Holder(x)'
    BY <1>1, PlaceFact DEF RowRead, Found, Holder
  <1> QED BY <1>2, <1>3, PlacidKeeps

LEMMA StopStep ==
  ASSUME ActInv, NEW x \in Workers,
         Denied(x) \/ Outdated(x) \/ Reprieved(x) \/ Suspended(x)
  PROVE  ActInv'
  <1>1. /\ month' = month /\ paidUntil' = paidUntil /\ sent' = sent /\ cloud' = cloud /\ desk' = desk
        /\ see' = see
    BY DEF Denied, Outdated, Reprieved, Suspended
  <1>2. \A f \in sent : f.who # x
    <2>1. CASE Denied(x) \/ Reprieved(x)
      BY <2>1 DEF Denied, Reprieved, Answered
    <2>2. CASE Outdated(x) \/ Suspended(x)
      BY <2>2, NothingSent DEF Outdated, Suspended
    <2> QED BY <2>1, <2>2
  <1>3. /\ act' \in Job /\ act'.kind = act.kind /\ act'.base = act.base
        /\ act'.lease = act.lease /\ at' = [at EXCEPT ![x] = "release"]
    <2>1. "queued" \in StateNames /\ "needs_attention" \in StateNames /\ "suspended" \in StateNames
          /\ "suspending" \in StepNames /\ "connecting" \in StepNames /\ "suspended" \in StepNames
      BY DEF StateNames, StepNames
    <2>2. \/ Go(x, "release") /\ UNCHANGED act
          \/ Ended(x, "queued", "suspending")
          \/ Ended(x, "needs_attention", "connecting")
          \/ Ended(x, "suspended", "suspended")
      BY DEF Denied, Outdated, Reprieved, Suspended
    <2> QED BY <2>1, <2>2, EndedFact, PlaceFact DEF Go
  <1>4. see' = [see EXCEPT ![x] = see'[x]] /\ see'[x] \in WorkerView /\ see'[x].desk = see[x].desk
        /\ desk' \in Desk
    BY <1>1, PlaceFact
  <1> QED BY <1>1, <1>2, <1>3, <1>4, StopKeeps

\* A statement that goes on with the row it knows.
LEMMA GoOn ==
  ASSUME ActInv, NEW x \in Workers, NEW p \in Places \ {"buy", "extend"}, Go(x, p),
         month' = month, paidUntil' = paidUntil, sent' = sent, \A f \in sent : f.who # x,
         act' \in Job, act'.kind = act.kind, act'.base = act.base, act'.lease = act.lease,
         desk' \in Desk, desk'.id = desk.id, desk'.row = desk.row,
         cloud' \in [All -> Machine],
         \A m \in All :
           /\ cloud'[m].there = cloud[m].there /\ cloud'[m].paidTo = cloud[m].paidTo
           /\ cloud'[m].shownTo = cloud[m].shownTo
           /\ cloud[m].tagged => cloud'[m].tagged
           /\ cloud'[m].tagged => cloud[m].tagged \/ m = desk.id,
         see' = [see EXCEPT ![x] = see'[x]], see'[x] \in WorkerView,
         RowRead(x)', Found(x)', Holder(x)'
  PROVE  ActInv'
  <1>1. at' = [at EXCEPT ![x] = at'[x]] /\ at'[x] = p
    BY DEF Go, ActInv, Typed
  <1>2. Placid(x)
    BY <1>1 DEF Placid
  <1> QED BY <1>2, PlacidKeeps

LEMMA StageFact ==
  ASSUME ActInv, Stage
  PROVE  act' \in Job /\ act'.kind = act.kind /\ act'.base = act.base /\ act'.lease = act.lease
  BY DEF ActInv, Typed, Stage, Job, StateNames, StepNames

LEMMA AssignStep == ASSUME ActInv, NEW x \in Workers, Assign(x) PROVE ActInv'
  <1>0. PICK p \in {"begin", "list"} : Go(x, p) /\ (p = "list" => ~see[x].desk.row)
    BY DEF Assign
  <1>1. /\ month' = month /\ paidUntil' = paidUntil /\ sent' = sent /\ cloud' = cloud /\ desk' = desk
        /\ see' = see /\ see[x].desk = Identity(desk)
    BY DEF Assign, Authorised, Current
  <1>2. \A f \in sent : f.who # x
    BY NothingSent DEF Assign
  <1>3. act' \in Job /\ act'.kind = act.kind /\ act'.base = act.base /\ act'.lease = act.lease
    BY StageFact DEF Assign
  <1>4. at'[x] = p /\ p \in Places \ {"buy", "extend"}
    BY <1>0, PlaceFact DEF Go, Places
  <1>5. p = "list" => see[x].desk.id = None
    BY <1>0, <1>1 DEF Identity, ActInv, RowShape
  <1>6. RowRead(x)' /\ Found(x)' /\ Holder(x)'
    BY <1>0, <1>1, <1>3, <1>4, <1>5, PlaceFact DEF RowRead, Found, Holder, Assign
  <1> QED BY <1>0, <1>1, <1>2, <1>3, <1>4, <1>6, PlaceFact, GoOn

\* A row with a new attempt, as the worker that claimed it sees it.
LEMMA AttemptFact ==
  ASSUME ActInv, NEW x \in Workers, NEW d \in Desk, d.id = desk.id, d.row = desk.row, Seen(x, d)
  PROVE  /\ see' = [see EXCEPT ![x] = see'[x]] /\ see'[x] \in WorkerView
         /\ see'[x].desk.id = desk.id /\ see'[x].desk.row = desk.row
         /\ see'[x].kind = see[x].kind /\ see'[x].base = see[x].base
         /\ see'[x].got = see[x].got /\ see'[x].paidTo = see[x].paidTo
         /\ see'[x].desk = Identity(d)
  <1>1. Identity(d) \in Ident /\ Identity(d).id = desk.id /\ Identity(d).row = desk.row
    BY ViewFact DEF Identity
  <1>2. see' = [see EXCEPT ![x].desk = Identity(d)]
    BY DEF Seen
  <1> QED BY <1>1, <1>2, PlaceFact DEF WorkerView

LEMMA FreshDesk ==
  ASSUME ActInv
  PROVE  LET d == [desk EXCEPT !.attempt = Fresh] IN
         d \in Desk /\ d.id = desk.id /\ d.row = desk.row /\ d.assigning = desk.assigning
  BY FreshIn DEF ActInv, Typed, Desk

LEMMA BeginStep ==
  ASSUME ActInv, NEW x \in Workers, BeginActivation(x) \/ BeginNew(x) \/ Maintain(x)
  PROVE  ActInv'
  <1>0. desk' \in Desk /\ desk'.id = desk.id /\ desk'.row = desk.row /\ Seen(x, desk')
    BY FreshDesk, PlaceFact DEF BeginActivation, BeginNew, Maintain
  <1>1. /\ month' = month /\ paidUntil' = paidUntil /\ sent' = sent /\ cloud' = cloud /\ act' = act
        /\ see[x].desk = Identity(desk)
    BY DEF BeginActivation, BeginNew, Maintain, Current, MaySuspend
  <1>2. \A f \in sent : f.who # x
    BY NothingSent DEF BeginActivation, BeginNew, Maintain
  <1>3. /\ see' = [see EXCEPT ![x] = see'[x]] /\ see'[x] \in WorkerView
        /\ see'[x].desk.id = desk.id /\ see'[x].desk.row = desk.row
        /\ see'[x].kind = see[x].kind /\ see'[x].base = see[x].base
        /\ see'[x].got = see[x].got
    BY <1>0, AttemptFact
  <1>4. see[x].desk.row = desk.row /\ see[x].desk.id = desk.id
    BY <1>1 DEF Identity
  <1>5. CASE BeginActivation(x)
    <2>1. PICK p \in {"list", "describe"} : Go(x, p) /\ (p = "list" <=> desk.id = None)
      BY <1>5 DEF BeginActivation
    <2>2. at'[x] = p /\ p \in Places \ {"buy", "extend"} /\ at[x] = "begin"
      BY <1>5, <2>1, PlaceFact DEF Go, Places, BeginActivation
    <2>3. RowRead(x)' /\ Found(x)' /\ Holder(x)'
      BY <1>0, <1>1, <1>3, <2>1, <2>2, PlaceFact DEF RowRead, Found, Holder
    <2> QED BY <1>0, <1>1, <1>2, <1>3, <2>1, <2>2, <2>3, PlaceFact, GoOn
  <1>6. CASE BeginNew(x)
    <2>1. PICK p \in {"intent", "clear", "describe"} : Go(x, p) /\ (p = "intent" <=> desk.id = None)
      BY <1>6 DEF BeginNew
    <2>2. at'[x] = p /\ p \in Places \ {"buy", "extend"} /\ at[x] = "begin_new"
      BY <1>6, <2>1, PlaceFact DEF Go, Places, BeginNew
    <2>3. RowRead(x)' /\ Found(x)' /\ Holder(x)'
      BY <1>0, <1>1, <1>3, <1>4, <2>1, <2>2, PlaceFact DEF RowRead, Found, Holder
    <2> QED BY <1>0, <1>1, <1>2, <1>3, <2>1, <2>2, <2>3, PlaceFact, GoOn
  <1>7. CASE Maintain(x)
    <2>1. PICK p \in {"find", "inspect", "suspended"} :
            /\ Go(x, p) /\ (p = "find" => desk.row /\ desk.id = None)
            /\ (p = "inspect" => desk.id # None)
      BY <1>7 DEF Maintain, NeedsRevoke
    <2>2. at'[x] = p /\ p \in Places \ {"buy", "extend"}
      BY <2>1, PlaceFact DEF Go, Places
    <2>3. RowRead(x)' /\ Found(x)' /\ Holder(x)'
      BY <1>0, <1>1, <1>3, <2>1, <2>2, PlaceFact DEF RowRead, Found, Holder
    <2> QED BY <1>0, <1>1, <1>2, <1>3, <2>1, <2>2, <2>3, PlaceFact, GoOn
  <1> QED BY <1>5, <1>6, <1>7

\* What the inventory shows is the workspace's.
LEMMA ListedOurs == ASSUME ActInv, NEW m \in Listed PROVE m \in Ours /\ m \in All
  BY DEF ActInv, RowShape, Listed, Ours

LEMMA GotFact ==
  ASSUME ActInv, NEW x \in Workers, NEW m \in All, see' = [see EXCEPT ![x].got = m]
  PROVE  /\ see' = [see EXCEPT ![x] = see'[x]] /\ see'[x] \in WorkerView
         /\ see'[x].desk = see[x].desk /\ see'[x].kind = see[x].kind
         /\ see'[x].base = see[x].base /\ see'[x].paidTo = see[x].paidTo /\ see'[x].got = m
  BY PlaceFact DEF WorkerView

LEMMA ListStep ==
  ASSUME ActInv, NEW x \in Workers, List(x) \/ Find(x)
  PROVE  ActInv'
  <1>1. /\ month' = month /\ paidUntil' = paidUntil /\ sent' = sent /\ cloud' = cloud /\ desk' = desk
        /\ see[x].desk = Identity(desk) /\ act.lease = x
    BY DEF List, Find, Authorised, MaySuspend, Current, Owns
  <1>2. \A f \in sent : f.who # x
    BY NothingSent DEF List, Find
  <1>3. see[x].desk.id = None /\ desk.id = None
    BY <1>1, PlaceFact DEF List, Find, RowRead, Identity
  <1>4. act.kind # "renew"
    BY <1>3 DEF ActInv, OneMonth
  <1>5. Ours' = Ours
    BY <1>1 DEF Ours
  <1>6. ASSUME NEW m \in Listed, NEW p \in {"bind", "allocate", "keep"}, Go(x, p), act' = act,
               see' = [see EXCEPT ![x].got = m],
               p \in {"bind", "keep"} => see[x].desk.row, p = "allocate" => ~see[x].desk.row
        PROVE  ActInv'
    <2>1. m \in Ours /\ m \in All
      BY <1>6, ListedOurs
    <2>2. /\ see' = [see EXCEPT ![x] = see'[x]] /\ see'[x] \in WorkerView
          /\ see'[x].desk = see[x].desk /\ see'[x].got = m
      BY <1>6, <2>1, GotFact
    <2>3. at'[x] = p /\ p \in Places \ {"buy", "extend"}
      BY <1>6, PlaceFact DEF Go, Places
    <2>4. RowRead(x)' /\ Found(x)' /\ Holder(x)'
      BY <1>1, <1>3, <1>4, <1>5, <1>6, <2>1, <2>2, <2>3, PlaceFact DEF RowRead, Found, Holder
    <2> QED BY <1>1, <1>2, <1>6, <2>2, <2>3, <2>4, PlaceFact, GoOn
  <1>7. CASE List(x)
    <2>1. CASE Uncertain(x) /\ see' = see
      <3>1. "needs_attention" \in StateNames /\ act.step \in StepNames
        BY PlaceFact DEF StateNames, Job
      <3>2. /\ act' \in Job /\ act'.kind = act.kind /\ act'.base = act.base
            /\ act'.lease = act.lease /\ at' = [at EXCEPT ![x] = "release"]
        BY <2>1, <3>1, EndedFact DEF Uncertain
      <3> QED BY <1>1, <1>2, <2>1, <3>2, PlaceFact, StopKeeps
    <2>2. ASSUME NEW m \in Listed, see' = [see EXCEPT ![x].got = m], act' = act,
                 Go(x, IF see[x].desk.row THEN "bind" ELSE "allocate")
          PROVE  ActInv'
      <3>1. PICK p \in {"bind", "allocate"} : Go(x, p) /\ (p = "bind" <=> see[x].desk.row)
        BY <2>2
      <3> QED BY <1>6, <2>2, <3>1
    <2>3. CASE /\ Listed = {} /\ see[x].kind = "none" /\ see' = see /\ act' = act
               /\ Go(x, IF see[x].desk.row THEN "intent" ELSE "allocate")
      <3>1. PICK p \in {"intent", "allocate"} : Go(x, p) /\ (p = "intent" <=> see[x].desk.row)
        BY <2>3
      <3>2. at'[x] = p /\ p \in Places \ {"buy", "extend"} /\ at[x] = "list"
        BY <1>7, <3>1, PlaceFact DEF Go, Places, List
      <3>3. RowRead(x)' /\ Found(x)' /\ Holder(x)'
        BY <1>1, <1>3, <1>4, <2>3, <3>1, <3>2, PlaceFact DEF RowRead, Found, Holder
      <3> QED BY <1>1, <1>2, <2>3, <3>1, <3>2, <3>3, PlaceFact, GoOn
    <2> QED BY <1>7, <2>1, <2>2, <2>3 DEF List
  <1>8. CASE Find(x)
    <2>1. act' = act /\ see[x].desk.row
      BY <1>8, PlaceFact DEF Find, RowRead
    <2>2. ASSUME NEW m \in Listed, see' = [see EXCEPT ![x].got = m], Go(x, "keep")
          PROVE  ActInv'
      BY <2>1, <2>2, <1>6
    <2>3. CASE Go(x, "suspended") /\ see' = see
      <3>1. at'[x] = "suspended" /\ "suspended" \in Places \ {"buy", "extend"}
        BY <2>3, PlaceFact DEF Go, Places
      <3>2. RowRead(x)' /\ Found(x)' /\ Holder(x)'
        BY <1>1, <2>3, <3>1, PlaceFact DEF RowRead, Found, Holder
      <3> QED BY <1>1, <1>2, <2>1, <2>3, <3>1, <3>2, PlaceFact, GoOn
    <2> QED BY <1>8, <2>2, <2>3 DEF Find
  <1> QED BY <1>7, <1>8

\* The statements after the purchases.
LEMMA ServeStep ==
  ASSUME ActInv, NEW x \in Workers,
         Bought(x) \/ StartMachine(x) \/ Connect(x) \/ FinishActivation(x) \/ Inspect(x) \/ Revoked(x)
  PROVE  ActInv'
  <1>0. /\ month' = month /\ paidUntil' = paidUntil /\ sent' = sent /\ see' = see
    BY DEF Bought, StartMachine, Connect, FinishActivation, Inspect, Revoked
  <1>1. see[x].desk = Identity(desk) /\ act.lease = x
    BY DEF Bought, StartMachine, Connect, FinishActivation, Inspect, Revoked, Authorised, MaySuspend, Current, Owns
  <1>2. \A f \in sent : f.who # x
    <2>1. CASE Bought(x) \/ Connect(x) \/ Revoked(x)
      BY <2>1 DEF Bought, Connect, Revoked, Answered
    <2>2. CASE StartMachine(x) \/ FinishActivation(x) \/ Inspect(x)
      BY <2>2, NothingSent DEF StartMachine, FinishActivation, Inspect
    <2> QED BY <2>1, <2>2
  <1>3. see[x].desk.id = desk.id
    BY <1>1 DEF Identity
  <1>4. CASE Bought(x)
    <2>1. at'[x] = "bind" /\ "bind" \in Places \ {"buy", "extend"} /\ at[x] = "bought"
          /\ desk' = desk /\ act' = act /\ cloud' = cloud
      BY <1>4, PlaceFact DEF Bought, Go, Places
    <2>2. see[x].got \in Ours /\ Ours' = Ours
      BY <1>2, <2>1, PlaceFact DEF Found, Ours
    <2>3. RowRead(x)' /\ Found(x)' /\ Holder(x)'
      BY <1>0, <2>1, <2>2, PlaceFact DEF RowRead, Found, Holder
    <2> QED BY <1>0, <1>2, <1>4, <2>1, <2>3, PlaceFact, GoOn DEF Bought
  <1>5. CASE StartMachine(x)
    <2>1. desk' = desk /\ at[x] = "start" /\ desk.id # None
      BY <1>3, <1>5, PlaceFact DEF StartMachine, RowRead
    <2>2. PICK p \in {"grant", "failed"} : Go(x, p)
      BY <1>5 DEF StartMachine
    <2>3. at'[x] = p /\ p \in Places \ {"buy", "extend"}
      BY <2>2, PlaceFact DEF Go, Places
    <2>4. act' \in Job /\ act'.kind = act.kind /\ act'.base = act.base /\ act'.lease = act.lease
      BY <1>5, StageFact DEF StartMachine
    <2>5. /\ cloud' \in [All -> Machine]
          /\ \A m \in All : /\ cloud'[m].there = cloud[m].there /\ cloud'[m].paidTo = cloud[m].paidTo
                            /\ cloud'[m].shownTo = cloud[m].shownTo
                            /\ cloud'[m].tagged = cloud[m].tagged
      <3>1. cloud' = cloud \/ cloud' = [cloud EXCEPT ![desk.id].on = TRUE]
        BY <1>5 DEF StartMachine
      <3>2. cloud \in [All -> Machine]
        BY PlaceFact
      <3>3. CASE cloud' = cloud
        BY <3>2, <3>3
      <3>4. CASE cloud' = [cloud EXCEPT ![desk.id].on = TRUE]
        BY <3>2, <3>4 DEF Machine
      <3> QED BY <3>1, <3>3, <3>4
    <2>6. RowRead(x)' /\ Found(x)' /\ Holder(x)'
      BY <1>0, <2>1, <2>2, <2>3, PlaceFact DEF RowRead, Found, Holder
    <2> QED BY <1>0, <1>2, <2>1, <2>2, <2>3, <2>4, <2>5, <2>6, PlaceFact, GoOn
  <1>6. CASE Connect(x)
    <2>1. desk' = desk /\ at[x] = "granted" /\ desk.id # None
      BY <1>3, <1>6, PlaceFact DEF Connect, RowRead
    <2>2. PICK p \in {"finish", "failed"} : Go(x, p)
      BY <1>6 DEF Connect
    <2>3. at'[x] = p /\ p \in Places \ {"buy", "extend"}
      BY <2>2, PlaceFact DEF Go, Places
    <2>4. act' \in Job /\ act'.kind = act.kind /\ act'.base = act.base /\ act'.lease = act.lease
      BY <1>6, StageFact DEF Connect
    <2>5. /\ cloud' \in [All -> Machine]
          /\ \A m \in All : /\ cloud'[m].there = cloud[m].there /\ cloud'[m].paidTo = cloud[m].paidTo
                            /\ cloud'[m].shownTo = cloud[m].shownTo
                            /\ cloud[m].tagged => cloud'[m].tagged
                            /\ cloud'[m].tagged => cloud[m].tagged \/ m = desk.id
      <3>1. cloud' = cloud \/ cloud' = [cloud EXCEPT ![desk.id].tagged = TRUE]
        BY <1>6 DEF Connect
      <3>2. cloud \in [All -> Machine]
        BY PlaceFact
      <3>3. CASE cloud' = cloud
        BY <3>2, <3>3
      <3>4. CASE cloud' = [cloud EXCEPT ![desk.id].tagged = TRUE]
        BY <3>2, <3>4 DEF Machine
      <3> QED BY <3>1, <3>3, <3>4
    <2>6. RowRead(x)' /\ Found(x)' /\ Holder(x)'
      BY <1>0, <2>1, <2>2, <2>3, PlaceFact DEF RowRead, Found, Holder
    <2> QED BY <1>0, <1>2, <2>1, <2>2, <2>3, <2>4, <2>5, <2>6, PlaceFact, GoOn
  <1>7. CASE FinishActivation(x)
    <2>1. desk' \in Desk /\ desk'.id = desk.id /\ desk'.row = desk.row /\ cloud' = cloud
      BY <1>7, PlaceFact DEF FinishActivation, Desk
    <2>2. "ready" \in StateNames /\ "ready" \in StepNames
      BY DEF StateNames, StepNames
    <2>3. /\ act' \in Job /\ act'.kind = act.kind /\ act'.base = act.base
          /\ act'.lease = act.lease /\ at' = [at EXCEPT ![x] = "release"]
      BY <1>7, <2>2, EndedFact DEF FinishActivation
    <2> QED BY <1>0, <1>2, <2>1, <2>3, PlaceFact, StopKeeps
  <1>8. CASE Inspect(x)
    <2>0. desk' = desk /\ cloud' = cloud /\ at[x] = "inspect"
      BY <1>8 DEF Inspect
    <2>1. CASE Ended(x, "suspended", "suspending")
      <3>1. "suspended" \in StateNames /\ "suspending" \in StepNames
        BY DEF StateNames, StepNames
      <3>2. /\ act' \in Job /\ act'.kind = act.kind /\ act'.base = act.base
            /\ act'.lease = act.lease /\ at' = [at EXCEPT ![x] = "release"]
        BY <2>1, <3>1, EndedFact
      <3> QED BY <1>0, <1>2, <2>0, <3>2, PlaceFact, StopKeeps
    <2>2. ASSUME NEW p \in {"revoke", "suspended"}, Go(x, p),
                 act' = [act EXCEPT !.state = "working", !.step = "suspending"]
          PROVE  ActInv'
      <3>1. at'[x] = p /\ p \in Places \ {"buy", "extend"}
        BY <2>2, PlaceFact DEF Go, Places
      <3>2. act' \in Job /\ act'.kind = act.kind /\ act'.base = act.base /\ act'.lease = act.lease
        BY <2>2, PlaceFact DEF Job, StateNames, StepNames
      <3>3. RowRead(x)' /\ Found(x)' /\ Holder(x)'
        BY <1>0, <2>0, <2>2, <3>1, PlaceFact DEF RowRead, Found, Holder
      <3> QED BY <1>0, <1>2, <2>0, <2>2, <3>1, <3>2, <3>3, PlaceFact, GoOn
    <2> QED BY <1>8, <2>1, <2>2 DEF Inspect
  <1>9. CASE Revoked(x)
    <2>1. at'[x] = "suspended" /\ "suspended" \in Places \ {"buy", "extend"}
          /\ desk' = desk /\ act' = act /\ cloud' = cloud
      BY <1>9, PlaceFact DEF Revoked, Go, Places
    <2>2. RowRead(x)' /\ Found(x)' /\ Holder(x)'
      BY <1>0, <2>1, PlaceFact DEF RowRead, Found, Holder
    <2> QED BY <1>0, <1>2, <1>9, <2>1, <2>2, PlaceFact, GoOn DEF Revoked
  <1> QED BY <1>4, <1>5, <1>6, <1>7, <1>8, <1>9

\* A step of x that may touch purchases: its own part and the shared one.
LEMMA StepKeeps ==
  ASSUME ActInv, NEW x \in Workers, Typed', Requests', RowShape', OnePurchase', OneMonth',
         \A w \in Workers : w # x => Spared(w), RowRead(x)', Found(x)', Holder(x)'
  PROVE  ActInv'
  BY SparedKeeps DEF ActInv

\* A worker that is cancelled or gone leaves its request behind.
LEMMA OrphanStep ==
  ASSUME ActInv, NEW x \in Workers, Heartbeat(x) \/ Crash(x) \/ Cancelled(x)
  PROVE  ActInv'
  <1>0. /\ month' = month /\ paidUntil' = paidUntil /\ act' = act /\ desk' = desk /\ cloud' = cloud
        /\ Orphaned(x)
    BY DEF Heartbeat, Crash, Cancelled
  <1>1. PICK p \in {"idle", "release"} : at' = [at EXCEPT ![x] = p]
    BY DEF Heartbeat, Crash, Cancelled, Go
  <1>2. /\ \A v \in Workers \ {x} : at'[v] = at[v] /\ see'[v] = see[v]
        /\ at'[x] = p /\ (see'[x] = see[x] \/ see'[x] = Blank)
        /\ see' \in [Workers -> WorkerView] /\ at' \in [Workers -> Places]
    BY <1>1, PlaceFact, ViewFact DEF Heartbeat, Crash, Cancelled, Places
  <1>3. /\ \A f \in sent' : f \in CloudRequest /\ f.who # x /\ \E g \in sent : f.op = g.op /\ f.m = g.m
             /\ (f.who # None => f = g) /\ f = IF g.who = x THEN [g EXCEPT !.who = None] ELSE g
        /\ \A g \in sent : g.who # x => g \in sent'
    BY <1>0, PlaceFact DEF Orphaned, ActInv, Typed, CloudRequest
  <1>4. Typed'
    BY <1>0, <1>2, <1>3 DEF ActInv, Typed
  <1>5. Requests'
    <2>1. \A f \in sent' : f.who # None => at'[f.who] = WaitsAt(f.op)
      BY <1>2, <1>3 DEF ActInv, Typed, CloudRequest, Requests
    <2>2. \A f, g \in sent' : f.who = g.who /\ f.who # None => f = g
      BY <1>3 DEF ActInv, Requests
    <2>3. \A f, g \in sent' : f.op = g.op /\ f.op \in {"create", "renew"} => f = g
      BY <1>3 DEF ActInv, Requests
    <2>4. \A f \in sent' : f.op # "create" => f.m = desk'.id /\ f.m # None
      BY <1>0, <1>3 DEF ActInv, Requests
    <2> QED BY <2>1, <2>2, <2>3, <2>4 DEF Requests
  <1>6. Calm
    BY <1>0, <1>2, <1>3, PlaceFact DEF Calm
  <1>7. RowShape' /\ OnePurchase' /\ OneMonth'
    BY <1>4, <1>6, CalmKeeps
  <1>8. \A w \in Workers : w # x => Spared(w)
    <2>1. Ours' = Ours
      BY <1>0 DEF Ours
    <2> QED BY <1>0, <1>2, <1>3, <2>1, PlaceFact DEF Spared
  <1>9. RowRead(x)' /\ Found(x)' /\ Holder(x)'
    BY <1>0, <1>2, PlaceFact DEF RowRead, Found, Holder, Blank
  <1> QED BY <1>4, <1>5, <1>7, <1>8, <1>9, StepKeeps

LEMMA ExpireStep == ASSUME ActInv, NEW x \in Workers, Expire(x) PROVE ActInv'
  <1>1. /\ month' = month /\ paidUntil' = paidUntil /\ desk' = desk /\ cloud' = cloud /\ at' = at /\ see' = see
        /\ sent' = sent /\ act' = [act EXCEPT !.lease = None]
    BY DEF Expire
  <1>2. act' \in Job /\ act'.lease = None /\ act'.kind = act.kind /\ act'.base = act.base
    BY <1>1, PlaceFact DEF Job
  <1>3. Typed' /\ Requests'
    BY <1>1, <1>2 DEF ActInv, Typed, Requests
  <1>4. Calm
    BY <1>1, <1>2, PlaceFact DEF Calm
  <1>5. RowShape' /\ OnePurchase' /\ OneMonth'
    BY <1>3, <1>4, CalmKeeps
  <1>6. \A w \in Workers : RowRead(w)' /\ Found(w)' /\ Holder(w)'
    <2>1. Ours' = Ours
      BY <1>1 DEF Ours
    <2>2. ASSUME NEW w \in Workers PROVE Spared(w)
      BY <1>1, <1>2, <2>1, PlaceFact DEF Spared
    <2> QED BY <1>3, <2>2, SparedKeeps
  <1> QED BY <1>3, <1>5, <1>6 DEF ActInv

\* A request leaves.
LEMMA SendFact ==
  ASSUME ActInv, NEW x \in Workers, NEW op \in {"create", "renew", "grant", "revoke"},
         NEW m \in All \cup {None}, Sent(x, op, m), Go(x, WaitsAt(op)), desk' = desk,
         \A f \in sent : f.who # x,
         op # "create" => m = desk.id /\ m # None,
         op \in {"create", "renew"} => \A f \in sent : f.op # op
  PROVE  /\ Requests' /\ sent' \subseteq CloudRequest /\ at' \in [Workers -> Places]
         /\ at'[x] = WaitsAt(op) /\ \A v \in Workers \ {x} : at'[v] = at[v]
         /\ \A f \in sent' : f \in sent \/ f.op = op
         /\ ~\A f \in sent' : f.who # x
         /\ \A w \in Workers : (\A f \in sent' : f.who # w) => (\A f \in sent : f.who # w)
  <1> DEFINE r == [who |-> x, op |-> op, m |-> m]
  <1>1. sent' = sent \cup {r} /\ r \in CloudRequest /\ r.who = x /\ r.op = op /\ r.m = m
    BY DEF Sent, CloudRequest
  <1> HIDE DEF r
  <1>2. WaitsAt(op) \in Places
    BY DEF WaitsAt, Places
  <1>3. at' \in [Workers -> Places] /\ at'[x] = WaitsAt(op) /\ \A v \in Workers \ {x} : at'[v] = at[v]
    BY <1>2, PlaceFact DEF Go
  <1>4. Requests'
    <2>1. \A f \in sent' : f.who # None => at'[f.who] = WaitsAt(f.op)
      BY <1>1, <1>3 DEF ActInv, Typed, CloudRequest, Requests
    <2>2. \A f, g \in sent' : f.who = g.who /\ f.who # None => f = g
      BY <1>1 DEF ActInv, Requests
    <2>3. \A f, g \in sent' : f.op = g.op /\ f.op \in {"create", "renew"} => f = g
      BY <1>1 DEF ActInv, Requests
    <2>4. \A f \in sent' : f.op # "create" => f.m = desk'.id /\ f.m # None
      BY <1>1 DEF ActInv, Requests
    <2> QED BY <2>1, <2>2, <2>3, <2>4 DEF Requests
  <1> QED BY <1>1, <1>3, <1>4 DEF ActInv, Typed

LEMMA EntitleStep ==
  ASSUME ActInv, NEW x \in Workers, Grant(x) \/ (Revoke(x) /\ Verified(desk.id)) PROVE ActInv'
  <1>1. /\ month' = month /\ paidUntil' = paidUntil /\ desk' = desk /\ cloud' = cloud /\ see' = see /\ act' = act
    BY DEF Grant, Revoke
  <1>2. PICK op \in {"grant", "revoke"} : Sent(x, op, desk.id) /\ Go(x, WaitsAt(op))
    BY DEF Grant, Revoke, WaitsAt
  <1>3. \A f \in sent : f.who # x
    BY NothingSent DEF Grant, Revoke
  <1>4. desk.id # None /\ desk.id \in All
    BY PlaceFact DEF Grant, Revoke, RowRead
  <1>5. /\ Requests' /\ sent' \subseteq CloudRequest /\ at' \in [Workers -> Places]
        /\ at'[x] = WaitsAt(op) /\ \A v \in Workers \ {x} : at'[v] = at[v]
        /\ \A f \in sent' : f \in sent \/ f.op = op
        /\ \A w \in Workers : (\A f \in sent' : f.who # w) => (\A f \in sent : f.who # w)
    BY <1>1, <1>2, <1>3, <1>4, SendFact
  <1>6. at'[x] \in {"granted", "revoked"}
    BY <1>5 DEF WaitsAt
  <1>7. Typed'
    BY <1>1, <1>5 DEF ActInv, Typed
  <1>8. Calm
    BY <1>1, <1>5, <1>6, PlaceFact DEF Calm
  <1>9. RowShape' /\ OnePurchase' /\ OneMonth'
    BY <1>7, <1>8, CalmKeeps
  <1>10. \A w \in Workers : w # x => Spared(w)
    <2>1. Ours' = Ours
      BY <1>1 DEF Ours
    <2> QED BY <1>1, <1>5, <2>1, PlaceFact DEF Spared
  <1>11. RowRead(x)' /\ Found(x)' /\ Holder(x)'
    BY <1>1, <1>4, <1>6, PlaceFact DEF RowRead, Found, Holder, Grant, Revoke
  <1> QED BY <1>5, <1>7, <1>9, <1>10, <1>11, StepKeeps

\* A machine that does not carry the tag is left alone.
LEMMA FailedStep ==
  ASSUME ActInv, NEW x \in Workers, Go(x, "failed"), \A f \in sent : f.who # x,
         month' = month, paidUntil' = paidUntil, act' = act, desk' = desk, cloud' = cloud,
         see' = see, sent' = sent
  PROVE  ActInv'
  <1>1. at'[x] = "failed" /\ "failed" \in Places \ {"buy", "extend"}
    BY PlaceFact DEF Go, Places
  <1>2. see' = [see EXCEPT ![x] = see'[x]] /\ see'[x] \in WorkerView
    BY PlaceFact
  <1>3. RowRead(x)' /\ Found(x)' /\ Holder(x)'
    BY <1>1, PlaceFact DEF RowRead, Found, Holder
  <1> QED BY <1>1, <1>2, <1>3, PlaceFact, GoOn

LEMMA RefuseStep == ASSUME ActInv, NEW x \in Workers, Revoke(x), ~Verified(desk.id) PROVE ActInv'
  <1>1. at[x] = "revoke" /\ Go(x, "failed") /\ sent' = sent
    BY DEF Revoke
  <1>2. \A f \in sent : f.who # x
    BY <1>1, NothingSent
  <1> QED BY <1>1, <1>2, FailedStep DEF Revoke

\* Requests stay as they are while their senders do.
LEMMA SameRequests ==
  ASSUME ActInv, NEW x \in Workers, sent' = sent, \A f \in sent : f.who # x,
         \A v \in Workers \ {x} : at'[v] = at[v], desk.id # None => desk'.id = desk.id
  PROVE  Requests'
  BY DEF ActInv, Typed, CloudRequest, Requests

\* The row is made: nothing was bought before.
LEMMA AllocateStep == ASSUME ActInv, NEW x \in Workers, Allocate(x) PROVE ActInv'
  <1>1. /\ month' = month /\ paidUntil' = paidUntil /\ act' = act /\ cloud' = cloud /\ sent' = sent
        /\ see[x].desk = Identity(desk) /\ act.lease = x /\ at[x] = "allocate"
        /\ Seen(x, desk') /\ Go(x, "begin_new")
    BY DEF Allocate, Authorised, Current, Owns
  <1>2. ~desk.row /\ desk.id = None /\ act.kind = "none" /\ Ours = {} /\ Ours' = {}
    <2>1. ~desk.row
      BY <1>1, PlaceFact DEF RowRead, Identity
    <2>2. Ours' = Ours
      BY <1>1 DEF Ours
    <2> QED BY <2>1, <2>2 DEF ActInv, RowShape, OnePurchase
  <1>3. see[x].got = None
    BY <1>1, <1>2, PlaceFact DEF Found
  <1>4. /\ desk' \in Desk /\ desk'.row
        /\ (desk'.id # None => desk'.id \in All /\ cloud[desk'.id].there)
    <2>1. PICK m \in Usable \cup {None}, g \in BOOLEAN : desk' = Row(m, g)
      BY <1>3 DEF Allocate
    <2>2. m # None => m \in All /\ cloud[m].there /\ cloud[m].paidTo \in Nat
      BY <2>1, PlaceFact DEF Usable, All, Machine
    <2> QED BY <2>1, <2>2 DEF Row, NoDesk, Desk
  <1>5. at' \in [Workers -> Places] /\ at'[x] = "begin_new"
        /\ \A v \in Workers \ {x} : at'[v] = at[v]
    BY <1>1, PlaceFact DEF Go, Places
  <1>6. /\ see' \in [Workers -> WorkerView] /\ see'[x].desk.row /\ see'[x].desk.id = desk'.id
        /\ \A v \in Workers \ {x} : see'[v] = see[v]
    <2>1. Identity(desk') \in Ident /\ Identity(desk').id = desk'.id /\ Identity(desk').row
      BY <1>4, ViewFact DEF Identity
    <2>2. see' = [see EXCEPT ![x].desk = Identity(desk')]
      BY <1>1 DEF Seen
    <2> QED BY <2>1, <2>2, PlaceFact DEF WorkerView
  <1>7. Typed'
    BY <1>1, <1>4, <1>5, <1>6 DEF ActInv, Typed
  <1>8. Requests'
    BY <1>1, <1>2, <1>5, SameRequests, NothingSent
  <1>9. RowShape'
    BY <1>1, <1>4 DEF ActInv, RowShape
  <1>10. OnePurchase'
    BY <1>1, <1>2, <1>5 DEF ActInv, OnePurchase
  <1>11. OneMonth'
    BY <1>1, <1>2, <1>5 DEF ActInv, OneMonth
  <1>12. \A w \in Workers : w # x => Spared(w)
    BY <1>1, <1>2, <1>5, <1>6, PlaceFact DEF Spared
  <1>13. RowRead(x)' /\ Found(x)' /\ Holder(x)'
    BY <1>1, <1>2, <1>4, <1>5, <1>6 DEF RowRead, Found, Holder
  <1> QED BY <1>7, <1>8, <1>9, <1>10, <1>11, <1>12, <1>13, StepKeeps

\* The intent to buy is saved when nothing was bought nor can be any more.
LEMMA IntentStep == ASSUME ActInv, NEW x \in Workers, Intent(x) PROVE ActInv'
  <1>1. /\ month' = month /\ paidUntil' = paidUntil /\ desk' = desk /\ cloud' = cloud /\ sent' = sent
        /\ see' = see /\ see[x].desk = Identity(desk) /\ act.lease = x /\ at[x] = "intent"
        /\ act' = [act EXCEPT !.state = "working", !.step = "working", !.kind = "create"]
        /\ Go(x, "buy")
    BY DEF Intent, Authorised, Current, Owns
  <1>2. act' \in Job /\ act'.kind = "create" /\ act'.lease = x /\ act'.base = act.base
    BY <1>1, PlaceFact DEF Job, StateNames, StepNames, Intents
  <1>3. desk.id = None /\ desk.row /\ act.kind = "none"
    BY <1>1, PlaceFact DEF RowRead, Identity, Holder
  <1>4. /\ Ours = {} /\ Ours' = {} /\ \A f \in sent : f.op # "create" /\ f.op # "renew"
        /\ \A v \in Workers : at[v] # "buy" /\ at[v] # "extend"
    BY <1>1, <1>3 DEF ActInv, OnePurchase, OneMonth, Ours
  <1>5. at' \in [Workers -> Places] /\ at'[x] = "buy" /\ \A v \in Workers \ {x} : at'[v] = at[v]
    BY <1>1, PlaceFact DEF Go, Places
  <1>6. Typed'
    BY <1>1, <1>2, <1>5 DEF ActInv, Typed
  <1>7. Requests'
    BY <1>1, <1>3, <1>5, SameRequests, NothingSent
  <1>8. RowShape'
    BY <1>1, <1>3 DEF ActInv, RowShape
  <1>9. OnePurchase'
    BY <1>1, <1>2, <1>3, <1>4, <1>5 DEF OnePurchase
  <1>10. OneMonth'
    BY <1>1, <1>2, <1>3, <1>4, <1>5 DEF ActInv, OneMonth
  <1>11. \A w \in Workers : w # x => Spared(w)
    BY <1>1, <1>2, <1>4, <1>5, PlaceFact DEF Spared
  <1>12. RowRead(x)' /\ Found(x)' /\ Holder(x)'
    BY <1>1, <1>2, <1>5, PlaceFact DEF RowRead, Found, Holder
  <1> QED BY <1>6, <1>7, <1>8, <1>9, <1>10, <1>11, <1>12, StepKeeps

\* The one request to buy is sent, by the holder of the lease or by one that lost it.
LEMMA PurchaseStep == ASSUME ActInv, NEW x \in Workers, Buy(x) PROVE ActInv'
  <1>1. /\ month' = month /\ paidUntil' = paidUntil /\ desk' = desk /\ cloud' = cloud /\ act' = act
        /\ see' = see /\ at[x] = "buy" /\ Sent(x, "create", None) /\ Go(x, WaitsAt("create"))
    BY DEF Buy, WaitsAt
  <1>2. /\ desk.id = None /\ act.kind = "create" /\ Ours = {} /\ Ours' = {}
        /\ \A f \in sent : f.op # "create"
        /\ \A v \in Workers : at[v] = "buy" => v = x
    BY <1>1 DEF ActInv, OnePurchase, Ours
  <1>3. /\ Requests' /\ sent' \subseteq CloudRequest /\ at' \in [Workers -> Places]
        /\ at'[x] = WaitsAt("create") /\ \A v \in Workers \ {x} : at'[v] = at[v]
        /\ \A f \in sent' : f \in sent \/ f.op = "create"
        /\ ~\A f \in sent' : f.who # x
        /\ \A w \in Workers : (\A f \in sent' : f.who # w) => (\A f \in sent : f.who # w)
    BY <1>1, <1>2, NothingSent, SendFact
  <1>4. at'[x] = "bought"
    BY <1>3 DEF WaitsAt
  <1>5. Typed'
    BY <1>1, <1>3 DEF ActInv, Typed
  <1>6. RowShape'
    BY <1>1 DEF ActInv, RowShape
  <1>7. OnePurchase'
    BY <1>1, <1>2, <1>3, <1>4 DEF ActInv, OnePurchase
  <1>8. OneMonth'
    BY <1>1, <1>2, <1>3, <1>4 DEF ActInv, OneMonth
  <1>9. \A w \in Workers : w # x => Spared(w)
    BY <1>1, <1>2, <1>3, PlaceFact DEF Spared
  <1>10. RowRead(x)' /\ Found(x)' /\ Holder(x)'
    BY <1>1, <1>3, <1>4, PlaceFact DEF RowRead, Found, Holder
  <1> QED BY <1>3, <1>5, <1>6, <1>7, <1>8, <1>9, <1>10, StepKeeps

\* The machine found is bound: it is the only one.
LEMMA BindStep == ASSUME ActInv, NEW x \in Workers, Bind(x) \/ Keep(x) PROVE ActInv'
  <1>1. /\ month' = month /\ paidUntil' = paidUntil /\ cloud' = cloud /\ sent' = sent
        /\ see[x].desk = Identity(desk) /\ at[x] \in {"bind", "keep"} /\ Seen(x, desk')
        /\ Ours' = Ours
    BY DEF Bind, Keep, MaySuspend, Current, Ours
  <1>2. desk.id = None /\ desk.row
    BY <1>1, PlaceFact DEF RowRead, Identity
  <1>3. see[x].got \in Ours /\ see[x].got \in All
    BY <1>1, PlaceFact DEF Found, Ours
  <1>4. Ours = {see[x].got} /\ cloud[see[x].got].there
    BY <1>3 DEF ActInv, OnePurchase, Ours
  <1>5. desk' \in Desk /\ desk'.id = see[x].got /\ desk'.row
    <2>1. cloud[see[x].got].shownTo \in Nat
      BY <1>3, PlaceFact DEF Machine
    <2>2. CASE Bind(x)
      BY <1>2, <1>3, <2>1, <2>2, PlaceFact DEF Bind, Desk
    <2>3. CASE Keep(x)
      BY <1>2, <1>3, <2>3, PlaceFact DEF Keep, Desk
    <2> QED BY <2>2, <2>3
  <1>6. /\ act' \in Job /\ act'.kind # "renew" /\ act'.lease = act.lease /\ act'.base = act.base
        /\ (act.lease # x => act' = act)
    <2>1. act.kind # "renew"
      BY <1>2 DEF ActInv, OneMonth
    <2> QED BY <2>1, PlaceFact DEF Bind, Keep, MaySuspend, Owns, Job, Intents
  <1>7. at' \in [Workers -> Places] /\ at'[x] \in {"clear", "inspect"}
        /\ \A v \in Workers \ {x} : at'[v] = at[v]
    BY PlaceFact DEF Go, Places, Bind, Keep
  <1>8. /\ see' \in [Workers -> WorkerView] /\ see'[x].desk.row /\ see'[x].desk.id = desk'.id
        /\ \A v \in Workers \ {x} : see'[v] = see[v]
    <2>1. Identity(desk') \in Ident /\ Identity(desk').id = desk'.id /\ Identity(desk').row
      BY <1>5, ViewFact DEF Identity
    <2>2. see' = [see EXCEPT ![x].desk = Identity(desk')]
      BY <1>1 DEF Seen
    <2> QED BY <2>1, <2>2, PlaceFact DEF WorkerView
  <1>9. Typed'
    BY <1>1, <1>5, <1>6, <1>7, <1>8 DEF ActInv, Typed
  <1>10. /\ \A f \in sent : f.op # "create" /\ f.op # "renew"
         /\ \A v \in Workers : at[v] # "buy" /\ at[v] # "extend"
    BY <1>2, <1>4 DEF ActInv, OnePurchase, OneMonth
  <1>11. Requests'
    BY <1>1, <1>2, <1>7, SameRequests, NothingSent
  <1>12. RowShape'
    BY <1>1, <1>4, <1>5 DEF ActInv, RowShape
  <1>a. desk'.id # None
    BY <1>3, <1>5, PlaceFact
  <1>13. OnePurchase'
    <2>1. \A v \in Workers : at'[v] # "buy"
      BY <1>7, <1>10
    <2> QED BY <1>1, <1>4, <1>5, <1>a, <1>10, <2>1 DEF OnePurchase
  <1>14. OneMonth'
    BY <1>1, <1>2, <1>6, <1>7, <1>10 DEF ActInv, OneMonth
  <1>15. \A w \in Workers : w # x => Spared(w)
    BY <1>1, <1>2, <1>5, <1>6, <1>7, <1>8, PlaceFact DEF Spared
  <1>16. RowRead(x)' /\ Found(x)' /\ Holder(x)'
    <2>1. Holder(x)'
      BY <1>6, <1>7 DEF Holder
    <2> QED BY <1>5, <1>a, <1>7, <1>8, <2>1 DEF RowRead, Found
  <1> QED BY <1>9, <1>11, <1>12, <1>13, <1>14, <1>15, <1>16, StepKeeps

\* An intent that is settled is cleared, by the holder of the lease.
LEMMA ClearStep ==
  ASSUME ActInv, NEW x \in Workers, act.lease = x, desk.id # None, NEW p \in Places,
         p \in {"describe", "renew", "start"}, Go(x, p), act' = Cleared,
         month' = month, paidUntil' = paidUntil, cloud' = cloud, sent' = sent, \A f \in sent : f.who # x,
         desk' \in Desk, desk'.id = desk.id, desk'.row = desk.row,
         see' = [see EXCEPT ![x] = see'[x]], see'[x] \in WorkerView, see'[x].desk = see[x].desk,
         see[x].desk.id # None,
         p = "renew" => cloud[desk.id].shownTo = see'[x].paidTo /\ see'[x].paidTo <= month,
         act.kind = "renew" => cloud[desk.id].shownTo > act.base
  PROVE  ActInv'
  <1>1. act' \in Job /\ act'.kind = "none" /\ act'.lease = x
    BY PlaceFact DEF Cleared, Job, Intents
  <1>2. at' \in [Workers -> Places] /\ at'[x] = p /\ \A v \in Workers \ {x} : at'[v] = at[v]
    BY PlaceFact DEF Go
  <1>3. see' \in [Workers -> WorkerView] /\ \A v \in Workers \ {x} : see'[v] = see[v]
    BY PlaceFact
  <1>4. Typed'
    BY <1>1, <1>2, <1>3 DEF ActInv, Typed
  <1>5. Requests'
    BY <1>2, SameRequests
  <1>6. desk.row /\ desk.id \in All /\ act.base \in Nat /\ cloud[desk.id].paidTo \in Nat
        /\ cloud[desk.id].shownTo \in Nat
    BY PlaceFact DEF ActInv, RowShape, Job, Machine
  <1>7. RowShape'
    BY <1>6 DEF ActInv, RowShape
  <1>8. Ours' = Ours
    BY DEF Ours
  <1>9. OnePurchase'
    BY <1>2, <1>8 DEF ActInv, OnePurchase
  <1>10. /\ cloud[desk.id].shownTo = cloud[desk.id].paidTo
         /\ \A f \in sent : f.op # "renew"
         /\ \A v \in Workers : at[v] # "extend"
    BY <1>6 DEF ActInv, OneMonth
  <1>11. OneMonth'
    BY <1>1, <1>2, <1>10 DEF ActInv, OneMonth
  <1>12. \A w \in Workers : w # x => Spared(w)
    BY <1>1, <1>2, <1>3, <1>8, PlaceFact DEF Spared
  <1>13. RowRead(x)' /\ Found(x)' /\ Holder(x)'
    BY <1>1, <1>2, PlaceFact DEF RowRead, Found, Holder
  <1> QED BY <1>4, <1>5, <1>7, <1>9, <1>11, <1>12, <1>13, StepKeeps

LEMMA ClearAction == ASSUME ActInv, NEW x \in Workers, Clear(x) PROVE ActInv'
  <1>1. /\ month' = month /\ paidUntil' = paidUntil /\ cloud' = cloud /\ sent' = sent /\ desk' = desk
        /\ see' = see /\ see[x].desk = Identity(desk) /\ act.lease = x /\ at[x] = "clear"
        /\ act' = Cleared /\ Go(x, "describe")
    BY DEF Clear, Authorised, Current, Owns
  <1>2. see[x].desk.id # None /\ desk.id # None /\ act.kind # "renew"
    BY <1>1, PlaceFact DEF RowRead, Identity, Holder
  <1>3. "describe" \in Places
    BY DEF Places
  <1> QED BY <1>1, <1>2, <1>3, PlaceFact, NothingSent, ClearStep

LEMMA DescribeStep == ASSUME ActInv, NEW x \in Workers, Describe(x) PROVE ActInv'
  <1>1. /\ month' = month /\ paidUntil' = paidUntil /\ cloud' = cloud /\ sent' = sent
        /\ see[x].desk = Identity(desk) /\ act.lease = x /\ at[x] = "describe"
    BY DEF Describe, Authorised, Current, Owns
  <1>2. see[x].desk.id # None /\ desk.id # None /\ desk.id \in All
    BY <1>1, PlaceFact DEF RowRead, Identity
  <1>3. cloud[desk.id].shownTo \in Nat
    BY <1>2, PlaceFact DEF Machine
  <1>4. \A f \in sent : f.who # x
    BY <1>1, NothingSent
  <1>5. CASE Uncertain(x) /\ desk' = desk /\ see' = see
    <2>1. "needs_attention" \in StateNames /\ act.step \in StepNames
      BY PlaceFact DEF StateNames, Job
    <2>2. /\ act' \in Job /\ act'.kind = act.kind /\ act'.base = act.base
          /\ act'.lease = act.lease /\ at' = [at EXCEPT ![x] = "release"]
      BY <1>5, <2>1, EndedFact DEF Uncertain
    <2> QED BY <1>1, <1>4, <1>5, <2>2, PlaceFact, StopKeeps
  <1>6. ASSUME desk' = [desk EXCEPT !.paidTo = cloud[desk.id].shownTo],
               see' = [see EXCEPT ![x].paidTo = cloud[desk.id].shownTo],
               IF ~RenewalSettled(x, desk.id) THEN Uncertain(x)
               ELSE /\ act' = IF see[x].kind = "renew" THEN Cleared ELSE act
                    /\ Go(x, IF RenewalDue(desk.id) THEN "renew" ELSE "start")
        PROVE  ActInv'
    <2>1. desk' \in Desk /\ desk'.id = desk.id /\ desk'.row = desk.row
      BY <1>3, <1>6, PlaceFact DEF Desk
    <2>2. /\ see' = [see EXCEPT ![x] = see'[x]] /\ see'[x] \in WorkerView
          /\ see'[x].desk = see[x].desk /\ see'[x].paidTo = cloud[desk.id].shownTo
          /\ see'[x].kind = see[x].kind /\ see'[x].base = see[x].base
      <3>1. see[x] \in WorkerView /\ see \in [Workers -> WorkerView]
        BY PlaceFact
      <3>2. see'[x] = [see[x] EXCEPT !.paidTo = cloud[desk.id].shownTo]
            /\ see' = [see EXCEPT ![x] = see'[x]]
        BY <1>6, <3>1
      <3> QED BY <1>3, <3>1, <3>2 DEF WorkerView
    <2>3. CASE Uncertain(x)
      <3>1. "needs_attention" \in StateNames /\ act.step \in StepNames
        BY PlaceFact DEF StateNames, Job
      <3>2. /\ act' \in Job /\ act'.kind = act.kind /\ act'.base = act.base
            /\ act'.lease = act.lease /\ at' = [at EXCEPT ![x] = "release"]
        BY <2>3, <3>1, EndedFact DEF Uncertain
      <3> QED BY <1>1, <1>4, <2>1, <2>2, <3>2, StopKeeps
    <2>4. CASE RenewalSettled(x, desk.id) /\ ~Uncertain(x)
      <3>1. PICK p \in {"renew", "start"} :
              Go(x, p) /\ (p = "renew" => cloud[desk.id].shownTo <= month)
        BY <1>6, <2>4 DEF RenewalDue
      <3>2. p \in Places \ {"buy", "extend"} /\ at'[x] = p
        BY <3>1, PlaceFact DEF Go, Places
      <3>3. CASE see[x].kind = "renew"
        <4>1. act' = Cleared
          BY <1>6, <2>4, <3>3
        <4>2. act.kind = "renew" => cloud[desk.id].shownTo > act.base
          BY <1>1, <2>4, <3>3, PlaceFact DEF RenewalSettled, Holder
        <4> QED BY <1>1, <1>2, <1>4, <2>1, <2>2, <3>1, <3>2, <4>1, <4>2, ClearStep
      <3>4. CASE see[x].kind # "renew"
        <4>1. act' = act /\ act.kind # "renew"
          BY <1>1, <1>6, <2>4, <3>4, PlaceFact DEF Holder
        <4>2. RowRead(x)' /\ Found(x)' /\ Holder(x)'
          BY <1>1, <1>2, <2>1, <2>2, <3>1, <3>2, <4>1, PlaceFact DEF RowRead, Found, Holder
        <4> QED BY <1>1, <1>4, <2>1, <2>2, <3>1, <3>2, <4>1, <4>2, PlaceFact, GoOn
      <3> QED BY <3>3, <3>4
    <2> QED BY <1>6, <2>3, <2>4
  <1>7. CASE Go(x, "failed") /\ UNCHANGED <<act, desk, see>>
    BY <1>1, <1>4, <1>7, FailedStep
  <1> QED BY <1>5, <1>6, <1>7 DEF Describe

\* The intent to renew names the month the machine is really paid to.
LEMMA RenewIntentStep == ASSUME ActInv, NEW x \in Workers, RenewIntent(x) PROVE ActInv'
  <1>1. /\ month' = month /\ paidUntil' = paidUntil /\ desk' = desk /\ cloud' = cloud /\ sent' = sent
        /\ see' = see /\ see[x].desk = Identity(desk) /\ act.lease = x /\ at[x] = "renew"
        /\ act' = [act EXCEPT !.state = "working", !.step = "working",
                              !.kind = "renew", !.base = see[x].paidTo]
        /\ Go(x, "extend")
    BY DEF RenewIntent, Authorised, Current, Owns
  <1>2. see[x].paidTo \in Nat
    BY PlaceFact DEF WorkerView
  <1>3. act' \in Job /\ act'.kind = "renew" /\ act'.lease = x /\ act'.base = see[x].paidTo
    BY <1>1, <1>2, PlaceFact DEF Job, StateNames, StepNames, Intents
  <1>4. /\ desk.id # None /\ desk.id \in All /\ desk.row /\ act.kind # "renew"
        /\ cloud[desk.id].shownTo = see[x].paidTo /\ see[x].paidTo <= month
    BY <1>1, PlaceFact DEF RowRead, Identity, Holder, ActInv, RowShape
  <1>5. /\ \A f \in sent : f.op # "renew"
        /\ \A v \in Workers : at[v] # "extend"
        /\ cloud[desk.id].paidTo = see[x].paidTo
    BY <1>4 DEF ActInv, OneMonth
  <1>6. at' \in [Workers -> Places] /\ at'[x] = "extend" /\ \A v \in Workers \ {x} : at'[v] = at[v]
    BY <1>1, PlaceFact DEF Go, Places
  <1>7. Typed'
    BY <1>1, <1>3, <1>6 DEF ActInv, Typed
  <1>8. Requests'
    BY <1>1, <1>6, SameRequests, NothingSent
  <1>9. RowShape'
    BY <1>1, <1>4 DEF ActInv, RowShape
  <1>10. Ours' = Ours
    BY <1>1 DEF Ours
  <1>11. OnePurchase'
    BY <1>1, <1>4, <1>6, <1>10 DEF ActInv, OnePurchase
  <1>12. OneMonth'
    BY <1>1, <1>3, <1>4, <1>5, <1>6 DEF ActInv, OneMonth
  <1>13. \A w \in Workers : w # x => Spared(w)
    BY <1>1, <1>3, <1>6, <1>10, PlaceFact DEF Spared
  <1>14. RowRead(x)' /\ Found(x)' /\ Holder(x)'
    BY <1>1, <1>3, <1>6, PlaceFact DEF RowRead, Found, Holder
  <1> QED BY <1>7, <1>8, <1>9, <1>11, <1>12, <1>13, <1>14, StepKeeps

LEMMA ExtendStep == ASSUME ActInv, NEW x \in Workers, Extend(x) PROVE ActInv'
  <1>1. /\ month' = month /\ paidUntil' = paidUntil /\ desk' = desk /\ cloud' = cloud /\ act' = act
        /\ see' = see /\ at[x] = "extend" /\ Sent(x, "renew", desk.id) /\ Go(x, WaitsAt("renew"))
    BY DEF Extend, WaitsAt
  <1>2. /\ act.kind = "renew" /\ cloud[desk.id].paidTo = act.base
        /\ \A f \in sent : f.op # "renew"
        /\ \A v \in Workers : at[v] = "extend" => v = x
        /\ desk.id # None /\ desk.id \in All
    BY <1>1, PlaceFact DEF ActInv, OneMonth
  <1>3. /\ Requests' /\ sent' \subseteq CloudRequest /\ at' \in [Workers -> Places]
        /\ at'[x] = WaitsAt("renew") /\ \A v \in Workers \ {x} : at'[v] = at[v]
        /\ \A f \in sent' : f \in sent \/ f.op = "renew"
        /\ \A w \in Workers : (\A f \in sent' : f.who # w) => (\A f \in sent : f.who # w)
    BY <1>1, <1>2, NothingSent, SendFact
  <1>4. at'[x] = "extended" /\ Ours' = Ours
    BY <1>1, <1>3 DEF WaitsAt, Ours
  <1>5. Typed'
    BY <1>1, <1>3 DEF ActInv, Typed
  <1>6. RowShape'
    BY <1>1 DEF ActInv, RowShape
  <1>7. OnePurchase'
    BY <1>1, <1>2, <1>3, <1>4 DEF ActInv, OnePurchase
  <1>8. OneMonth'
    BY <1>1, <1>2, <1>3, <1>4 DEF ActInv, OneMonth
  <1>9. \A w \in Workers : w # x => Spared(w)
    BY <1>1, <1>3, <1>4, PlaceFact DEF Spared
  <1>10. RowRead(x)' /\ Found(x)' /\ Holder(x)'
    BY <1>1, <1>3, <1>4, PlaceFact DEF RowRead, Found, Holder
  <1> QED BY <1>3, <1>5, <1>6, <1>7, <1>8, <1>9, <1>10, StepKeeps

LEMMA ExtendedStep == ASSUME ActInv, NEW x \in Workers, Extended(x) PROVE ActInv'
  <1>1. /\ month' = month /\ paidUntil' = paidUntil /\ cloud' = cloud /\ sent' = sent /\ see' = see
        /\ see[x].desk = Identity(desk) /\ act.lease = x /\ at[x] = "extended"
        /\ \A f \in sent : f.who # x
    BY DEF Extended, Authorised, Current, Owns, Answered
  <1>2. see[x].desk.id # None /\ desk.id # None /\ desk.id \in All /\ act.base = see[x].paidTo
    BY <1>1, PlaceFact DEF RowRead, Identity, Holder
  <1>3. CASE /\ cloud[desk.id].shownTo > see[x].paidTo /\ act' = Cleared
             /\ desk' = [desk EXCEPT !.paidTo = cloud[desk.id].shownTo] /\ Go(x, "start")
    <2>1. cloud[desk.id].shownTo \in Nat
      BY <1>2, PlaceFact DEF Machine
    <2>2. desk' \in Desk /\ desk'.id = desk.id /\ desk'.row = desk.row
      BY <1>3, <2>1, PlaceFact DEF Desk
    <2>3. "start" \in Places
      BY DEF Places
    <2> QED BY <1>1, <1>2, <1>3, <2>2, <2>3, PlaceFact, ClearStep
  <1>4. CASE Uncertain(x) /\ desk' = desk
    <2>1. "needs_attention" \in StateNames /\ act.step \in StepNames
      BY PlaceFact DEF StateNames, Job
    <2>2. /\ act' \in Job /\ act'.kind = act.kind /\ act'.base = act.base
          /\ act'.lease = act.lease /\ at' = [at EXCEPT ![x] = "release"]
      BY <1>4, <2>1, EndedFact DEF Uncertain
    <2> QED BY <1>1, <1>4, <2>2, PlaceFact, StopKeeps
  <1> QED BY <1>3, <1>4 DEF Extended

\* What a request does to the cloud, and what that leaves of the purchases.
LEMMA EffectFact ==
  ASSUME ActInv, NEW f \in sent, NEW m \in Target(f), cloud' = Effect(f, m),
         sent' = sent \ {f}, month' = month, act' = act, desk' = desk,
         \A v \in Workers : at'[v] \in {"buy", "extend"} => at'[v] = at[v]
  PROVE  /\ m \in All /\ cloud' \in [All -> Machine] /\ RowShape' /\ OnePurchase' /\ OneMonth'
         /\ Ours \subseteq Ours' /\ (f.op = "create" => m \in Ours')
         /\ \A n \in All : n # m \/ f.op # "create" => cloud'[n].shownTo = cloud[n].shownTo
         /\ f.op = "create" => desk.id = None
  <1>0. f \in CloudRequest /\ f.op \in {"create", "renew", "grant", "revoke"}
    BY DEF ActInv, Typed, CloudRequest
  <1>1. cloud \in [All -> Machine] /\ month \in Nat /\ \A n \in All : n # None
    BY ConstantsFact DEF ActInv, Typed, All
  <1>2. CASE f.op = "create"
    <2>1. m \in Machines /\ m \in All /\ ~cloud[m].there
      BY <1>2 DEF Target, All
    <2>2. cloud' = [cloud EXCEPT ![m] = [there |-> TRUE, shown |-> FALSE, tagged |-> TRUE,
              granted |-> TRUE, on |-> TRUE, paidTo |-> month + 1, shownTo |-> month + 1]]
      BY <1>2 DEF Effect
    <2>3. /\ cloud' \in [All -> Machine] /\ \A n \in All : n # m => cloud'[n] = cloud[n]
          /\ cloud'[m].there /\ cloud'[m].paidTo = month + 1 /\ cloud'[m].shownTo = month + 1
      BY <1>1, <2>1, <2>2 DEF Machine
    <2>4. /\ desk.id = None /\ act.kind = "create" /\ Ours = {}
          /\ \A g \in sent' : g.op # "create"
          /\ \A v \in Workers : at'[v] # "buy"
      BY <1>2 DEF ActInv, OnePurchase, Requests
    <2>5. Ours' = {m}
      BY <2>1, <2>3, <2>4 DEF Ours
    <2>6. RowShape'
      BY <2>3, <2>4 DEF ActInv, RowShape
    <2>7. OnePurchase'
      BY <2>4, <2>5 DEF OnePurchase
    <2>8. OneMonth'
      BY <1>1, <2>3, <2>4 DEF ActInv, OneMonth
    <2> QED BY <1>2, <2>1, <2>3, <2>4, <2>5, <2>6, <2>7, <2>8
  <1>3. CASE f.op = "renew"
    <2>1. m = desk.id /\ m # None /\ m \in All
      BY <1>0, <1>3 DEF ActInv, Requests, CloudRequest, Target
    <2>2. cloud' = [cloud EXCEPT ![m].paidTo = @ + 1]
      BY <1>3 DEF Effect
    <2>3. /\ cloud' \in [All -> Machine] /\ \A n \in All : n # m => cloud'[n] = cloud[n]
          /\ cloud'[m].paidTo = cloud[m].paidTo + 1 /\ cloud'[m].shownTo = cloud[m].shownTo
          /\ cloud'[m].there = cloud[m].there /\ cloud'[m].tagged = cloud[m].tagged
      BY <1>1, <2>1, <2>2 DEF Machine
    <2>4. /\ act.kind = "renew" /\ cloud[m].paidTo = act.base
          /\ \A g \in sent' : g.op # "renew"
          /\ \A v \in Workers : at'[v] # "extend"
      BY <1>3, <2>1 DEF ActInv, OneMonth, Requests
    <2>5. Ours' = Ours
      BY <2>3 DEF Ours
    <2>6. RowShape'
      BY <2>1, <2>3 DEF ActInv, RowShape
    <2>7. OnePurchase'
      BY <2>5 DEF ActInv, OnePurchase
    <2>8. act.base \in Nat
      BY DEF ActInv, Typed, Job
    <2>9. OneMonth'
      BY <1>1, <2>1, <2>3, <2>4, <2>8 DEF ActInv, OneMonth
    <2> QED BY <1>3, <2>1, <2>3, <2>5, <2>6, <2>7, <2>9
  <1>4. CASE f.op \in {"grant", "revoke"}
    <2>1. m = desk.id /\ m # None /\ m \in All
      BY <1>0, <1>4 DEF ActInv, Requests, CloudRequest, Target
    <2>2. PICK b \in BOOLEAN : cloud' = [cloud EXCEPT ![m].granted = b]
      BY <1>4 DEF Effect
    <2>3. /\ cloud' \in [All -> Machine]
          /\ \A n \in All : /\ cloud'[n].paidTo = cloud[n].paidTo /\ cloud'[n].shownTo = cloud[n].shownTo
                            /\ cloud'[n].there = cloud[n].there /\ cloud'[n].tagged = cloud[n].tagged
      BY <1>1, <2>1, <2>2 DEF Machine
    <2>5. Ours' = Ours
      BY <2>3 DEF Ours
    <2>6. RowShape'
      BY <2>3, PlaceFact DEF ActInv, RowShape, Typed, Desk
    <2>7. OnePurchase'
      BY <2>5 DEF ActInv, OnePurchase
    <2>9. OneMonth'
      BY <2>1, <2>3 DEF ActInv, OneMonth
    <2> QED BY <1>4, <2>1, <2>3, <2>5, <2>6, <2>7, <2>9
  <1> QED BY <1>0, <1>2, <1>3, <1>4

\* A request that is done with leaves the others.
LEMMA LessRequests ==
  ASSUME ActInv, NEW f \in sent, sent' = sent \ {f}, desk' = desk,
         \A v \in Workers : v # f.who => at'[v] = at[v]
  PROVE  Requests' /\ sent' \subseteq CloudRequest
         /\ \A v \in Workers : v # f.who =>
              ((\A g \in sent' : g.who # v) => (\A g \in sent : g.who # v))
  BY DEF ActInv, Typed, CloudRequest, Requests

LEMMA LandStep == ASSUME ActInv, NEW f \in sent, Land(f) PROVE ActInv'
  <1>1. PICK m \in Target(f) :
          /\ cloud' = Effect(f, m)
          /\ IF f.who = None THEN see' = see ELSE see' = [see EXCEPT ![f.who].got = m]
    BY DEF Land
  <1>2. /\ sent' = sent \ {f} /\ month' = month /\ paidUntil' = paidUntil /\ act' = act /\ desk' = desk
        /\ at' = at
    BY DEF Land
  <1>3. /\ m \in All /\ cloud' \in [All -> Machine] /\ RowShape' /\ OnePurchase' /\ OneMonth'
        /\ Ours \subseteq Ours' /\ (f.op = "create" => m \in Ours')
        /\ \A n \in All : n # m \/ f.op # "create" => cloud'[n].shownTo = cloud[n].shownTo
        /\ f.op = "create" => desk.id = None
    BY <1>1, <1>2, EffectFact
  <1>4. f \in CloudRequest /\ f.who \in Workers \cup {None}
    BY DEF ActInv, Typed, CloudRequest
  <1>5. Requests' /\ sent' \subseteq CloudRequest
        /\ \A v \in Workers : v # f.who =>
             ((\A g \in sent' : g.who # v) => (\A g \in sent : g.who # v))
    BY <1>2, LessRequests
  <1>6. see' \in [Workers -> WorkerView]
    <2>1. see \in [Workers -> WorkerView]
      BY DEF ActInv, Typed
    <2> QED BY <1>1, <1>3, <1>4, <2>1 DEF WorkerView
  <1>7. Typed'
    BY <1>2, <1>3, <1>5, <1>6 DEF ActInv, Typed
  <1>8. ASSUME NEW w \in Workers, w # f.who PROVE Spared(w)
    <2>1. see'[w] = see[w]
      BY <1>1, <1>4, <1>8, PlaceFact
    <2>2. (act.lease = w /\ at[w] = "renew") => desk.id \in All /\ f.op # "create"
      BY <1>3, PlaceFact DEF RowRead
    <2> QED BY <1>2, <1>3, <1>5, <1>8, <2>1, <2>2, PlaceFact DEF Spared
  <1>9. CASE f.who = None
    BY <1>3, <1>5, <1>7, <1>8, <1>9, ConstantsFact, SparedKeeps DEF ActInv
  <1>10. CASE f.who \in Workers
    <2>1. PICK x \in Workers : x = f.who
      BY <1>10
    <2>2. at[x] = WaitsAt(f.op) /\ x # None
      BY <2>1, ConstantsFact DEF ActInv, Requests
    <2>3. /\ see'[x].desk = see[x].desk /\ see'[x].kind = see[x].kind
          /\ see'[x].base = see[x].base /\ see'[x].paidTo = see[x].paidTo /\ see'[x].got = m
      BY <1>1, <1>3, <2>1, <2>2, GotFact
    <2>4. RowRead(x)'
      BY <1>2, <2>3, PlaceFact DEF RowRead
    <2>5. Found(x)'
      <3>1. at[x] \in {"bought", "extended", "granted", "revoked"} /\ (at[x] = "bought" => f.op = "create")
        BY <1>4, <2>2 DEF WaitsAt, CloudRequest
      <3> QED BY <1>2, <1>3, <2>3, <3>1 DEF Found
    <2>6. Holder(x)'
      <3>1. at[x] \in {"bought", "extended", "granted", "revoked"}
        BY <1>4, <2>2 DEF WaitsAt, CloudRequest
      <3> QED BY <1>2, <2>3, <3>1, PlaceFact DEF Holder
    <2> QED BY <1>3, <1>5, <1>7, <1>8, <2>1, <2>4, <2>5, <2>6, StepKeeps
  <1> QED BY <1>4, <1>9, <1>10

LEMMA FailStep == ASSUME ActInv, NEW f \in sent, RequestFails(f) PROVE ActInv'
  <1>1. /\ sent' = sent \ {f} /\ month' = month /\ paidUntil' = paidUntil /\ act' = act /\ desk' = desk
        /\ see' = see /\ at' = IF f.who = None THEN at ELSE [at EXCEPT ![f.who] = "failed"]
    BY DEF RequestFails
  <1>2. f \in CloudRequest /\ f.who \in Workers \cup {None}
    BY DEF ActInv, Typed, CloudRequest
  <1>3. /\ at' \in [Workers -> Places] /\ \A v \in Workers : v # f.who => at'[v] = at[v]
        /\ (f.who # None => at'[f.who] = "failed")
        /\ \A v \in Workers : at'[v] \in {"buy", "extend"} => at'[v] = at[v]
    <2>1. at \in [Workers -> Places]
      BY DEF ActInv, Typed
    <2> QED BY <1>1, <1>2, <2>1 DEF Places
  <1>4. /\ cloud' \in [All -> Machine] /\ RowShape' /\ OnePurchase' /\ OneMonth'
        /\ Ours \subseteq Ours'
        /\ desk.id # None => cloud'[desk.id].shownTo = cloud[desk.id].shownTo
    <2>1. CASE cloud' = cloud
      <3>1. cloud' \in [All -> Machine] /\ month \in Nat
        BY <2>1, ConstantsFact DEF ActInv, Typed
      <3>2. RowShape'
        BY <1>1, <2>1 DEF ActInv, RowShape
      <3>3. Ours' = Ours
        BY <2>1 DEF Ours
      <3>4. OnePurchase'
        BY <1>1, <1>3, <3>3 DEF ActInv, OnePurchase
      <3>5. OneMonth'
        BY <1>1, <1>3, <2>1 DEF ActInv, OneMonth
      <3> QED BY <2>1, <3>1, <3>2, <3>3, <3>4, <3>5
    <2>2. CASE \E m \in Target(f) : cloud' = Effect(f, m)
      <3>1. desk.id # None => desk.id \in All
        BY DEF ActInv, Typed, Desk
      <3> QED BY <1>1, <1>3, <2>2, <3>1, EffectFact
    <2> QED BY <2>1, <2>2 DEF RequestFails
  <1>5. Requests' /\ sent' \subseteq CloudRequest
        /\ \A v \in Workers : v # f.who =>
             ((\A g \in sent' : g.who # v) => (\A g \in sent : g.who # v))
    BY <1>1, <1>3, LessRequests
  <1>6. Typed'
    BY <1>1, <1>3, <1>4, <1>5 DEF ActInv, Typed
  <1>7. ASSUME NEW w \in Workers, w # f.who PROVE Spared(w)
    <2>1. (act.lease = w /\ at[w] = "renew") => desk.id # None
      BY PlaceFact DEF RowRead
    <2> QED BY <1>1, <1>3, <1>4, <1>5, <1>7, <2>1, PlaceFact DEF Spared
  <1>8. CASE f.who = None
    BY <1>4, <1>5, <1>6, <1>7, <1>8, ConstantsFact, SparedKeeps DEF ActInv
  <1>9. CASE f.who \in Workers
    <2>1. PICK x \in Workers : x = f.who
      BY <1>9
    <2>2. at'[x] = "failed"
      BY <1>3, <2>1, ConstantsFact
    <2>3. RowRead(x)' /\ Found(x)' /\ Holder(x)'
      BY <1>1, <2>2, PlaceFact DEF RowRead, Found, Holder
    <2> QED BY <1>4, <1>5, <1>6, <1>7, <2>1, <2>3, StepKeeps
  <1> QED BY <1>2, <1>8, <1>9

\* Every step keeps the invariant.
LEMMA ActNext == ActInv /\ [ActivationNext]_<<activationVars, world>> => ActInv'
  <1> SUFFICES ASSUME ActInv, [ActivationNext]_<<activationVars, world>> PROVE ActInv'
    OBVIOUS
  <1>1. CASE UNCHANGED <<activationVars, world>>
    BY <1>1 DEF activationVars, ActInv, Typed, Requests, RowShape, OnePurchase, OneMonth, RowRead, Found,
                Holder, Ours
  <1>2. CASE Pay \/ MonthPasses \/ Cancel \/ \E m \in All : Show(m) \/ Stop(m)
    BY <1>2, TimeStep
  <1>3. CASE \E f \in sent : Land(f) \/ RequestFails(f)
    BY <1>3, LandStep, FailStep
  <1>4. ASSUME NEW x \in Workers, Claim(x) \/ Crash(x) \/ Cancelled(x) \/ Expire(x) \/ Step(x) PROVE ActInv'
    <2>1. CASE Claim(x) \/ Release(x) \/ Retry(x) \/ ReadRow(x)
      BY <2>1, LeaseStep
    <2>2. CASE Crash(x) \/ Heartbeat(x) \/ Cancelled(x) \/ Expire(x)
      BY <2>2, OrphanStep, ExpireStep
    <2>3. CASE Denied(x) \/ Outdated(x) \/ Reprieved(x) \/ Suspended(x)
      BY <2>3, StopStep
    <2>4. CASE Assign(x) \/ BeginActivation(x) \/ BeginNew(x) \/ Maintain(x)
      BY <2>4, AssignStep, BeginStep
    <2>5. CASE List(x) \/ Find(x)
      BY <2>5, ListStep
    <2>6. CASE Bought(x) \/ StartMachine(x) \/ Connect(x) \/ FinishActivation(x) \/ Inspect(x) \/ Revoked(x)
      BY <2>6, ServeStep
    <2>7. CASE Grant(x) \/ Revoke(x)
      BY <2>7, EntitleStep, RefuseStep
    <2>8. CASE Allocate(x) \/ Intent(x) \/ Buy(x) \/ Bind(x) \/ Keep(x) \/ Clear(x)
      BY <2>8, AllocateStep, IntentStep, PurchaseStep, BindStep, ClearAction
    <2>9. CASE Describe(x) \/ RenewIntent(x) \/ Extend(x) \/ Extended(x)
      BY <2>9, DescribeStep, RenewIntentStep, ExtendStep, ExtendedStep
    <2> QED BY <1>4, <2>1, <2>2, <2>3, <2>4, <2>5, <2>6, <2>7, <2>8, <2>9 DEF Step
  <1> QED BY <1>1, <1>2, <1>3, <1>4 DEF ActivationNext

\* The invariant gives the property.
LEMMA ActImplies == ActInv => PaidForOnce
  <1> SUFFICES ASSUME ActInv PROVE PaidForOnce
    OBVIOUS
  <1>1. ActivationTypeOK
    <2>1. \A f \in sent : f.who # None =>
            at[f.who] \in {"bought", "extended", "granted", "revoked"}
      BY DEF ActInv, Typed, CloudRequest, Requests, WaitsAt
    <2>2. desk.id \in All \cup {None} /\ desk.attempt \in Attempts \cup {None}
      BY DEF ActInv, Typed, Desk
    <2> QED BY <2>1, <2>2 DEF ActInv, Typed, ActivationTypeOK, Job, StateNames, StepNames, Intents
  <1>2. BoughtOnce
    <2>1. \A m, n \in Ours : m = n
      BY DEF ActInv, OnePurchase
    <2>2. CASE Ours = {}
      BY <2>2, FS_EmptySet DEF BoughtOnce, Ours
    <2>3. CASE Ours # {}
      <3>1. PICK m : Ours = {m}
        BY <2>1, <2>3
      <3>2. Cardinality(Ours) = 1
        BY <3>1, FS_Singleton
      <3> QED BY <3>2 DEF BoughtOnce, Ours
    <2> QED BY <2>2, <2>3
  <1>3. PaidOnce
    BY DEF ActInv, OneMonth, PaidOnce
  <1> QED BY <1>1, <1>2, <1>3 DEF PaidForOnce

\* Whatever crashes, leases that run out, requests that outlive their senders and
\* answers that lag or are lost, a workspace is bought at most one machine and pays
\* for no month twice: the intent saved before every purchase is followed by no
\* other purchase until the cloud has shown what became of it.
THEOREM PaidForOnceAlways == ActivationSpec => []PaidForOnce
  <1>1. ActivationInit => ActInv
    BY ActInit
  <1>2. ActInv /\ [ActivationNext]_<<activationVars, world>> => ActInv'
    BY ActNext
  <1>3. ActInv => PaidForOnce
    BY ActImplies
  <1> QED BY <1>1, <1>2, <1>3, PTL DEF ActivationSpec

\* No step gives a bound row another machine.
LEMMA KeptStep ==
  ASSUME ActInv, [ActivationNext]_<<activationVars, world>>
  PROVE  [desk.id # None => desk'.id = desk.id]_activationVars
  <1>0. CASE desk.id = None \/ desk' = desk
    BY <1>0
  <1>1. CASE desk.id # None /\ desk' # desk
    <2>1. PICK x \in Workers : Step(x)
      BY <1>1 DEF ActivationNext, activationVars, Pay, MonthPasses, Cancel, Land, RequestFails, Show, Stop,
                  Claim, Crash, Cancelled, Expire
    <2>2. CASE BeginActivation(x) \/ BeginNew(x) \/ Maintain(x)
      BY <2>2, FreshDesk DEF BeginActivation, BeginNew, Maintain
    <2>3. CASE Allocate(x) \/ Bind(x) \/ Keep(x)
      <3>1. see[x].desk.id = None /\ see[x].desk = Identity(desk)
        BY <2>3, PlaceFact DEF Allocate, Bind, Keep, Authorised, MaySuspend, Current, RowRead
      <3> QED BY <1>1, <3>1 DEF Identity
    <2>4. CASE Describe(x) \/ Extended(x) \/ FinishActivation(x)
      BY <2>4, PlaceFact DEF Describe, Extended, FinishActivation, Desk
    <2> QED BY <1>1, <2>1, <2>2, <2>3, <2>4
         DEF Step, ReadRow, Release, Retry, Heartbeat, Assign, List, Intent, Buy, Bought, Clear,
             RenewIntent, Extend, StartMachine, Grant, Connect, Denied, Outdated, Find, Inspect, Revoke,
             Revoked, Suspended, Reprieved
  <1> QED BY <1>0, <1>1

\* And the machine on its row is never replaced by another: an activation, a
\* suspension and an adoption bind one only where the row has none.
THEOREM MachineKeptAlways == ActivationSpec => MachineKept
  <1>1. ActivationInit => ActInv
    BY ActInit
  <1>2. ActInv /\ [ActivationNext]_<<activationVars, world>> => ActInv'
    BY ActNext
  <1>3. ActInv /\ [ActivationNext]_<<activationVars, world>> => [desk.id # None => desk'.id = desk.id]_activationVars
    BY KeptStep
  <1> QED BY <1>1, <1>2, <1>3, PTL DEF ActivationSpec, MachineKept

-----------------------------------------------------------------------------
(* Access. *)

\* A machine bought for the workspace carries its tag, and so does the one on
\* record unless it is still being assigned.
Marked ==
  /\ \A m \in Machines : cloud[m].there => cloud[m].tagged
  /\ desk.id # None /\ ~desk.assigning => cloud[desk.id].tagged
  /\ \A w \in Workers : at[w] = "finish" => cloud[desk.id].tagged

\* Requests that change access are under way only while their lease is held.
UnderLease(f) ==
  /\ act.lease # None
  /\ f.who = act.lease \/ (f.who = None /\ at[act.lease] = "idle")

\* A row that says ready, and a worker that is about to say so.
ReadyRow ==
  act.state = "ready" => /\ desk.id # None /\ cloud[desk.id].tagged /\ cloud[desk.id].granted
                         /\ \A f \in sent : f.op # "revoke"
ReadyWork(w) ==
  /\ at[w] = "granted" /\ Answered(w) => cloud[desk.id].granted
  /\ at[w] = "finish" => cloud[desk.id].granted
  /\ at[w] \in {"revoke", "revoked"} => act.state # "ready"
ReadyInv ==
  /\ \A f \in sent : f.op \in {"grant", "revoke"} => UnderLease(f)
  /\ ReadyRow
  /\ \A w \in Workers : act.lease = w => ReadyWork(w)

\* Without a stalled worker, whoever is at work holds the lease.
Sole == \A w \in Workers : at[w] # "idle" => act.lease = w

\* Nobody can enter: nothing was or will be bought, or what was bought is revoked.
Closed ==
  IF act.kind = "create" /\ desk.id = None
  THEN Ours = {} /\ \A f \in sent : f.op # "create"
  ELSE \A m \in All : cloud[m].tagged \/ m = desk.id => ~cloud[m].granted

Activating == {"begin", "list", "allocate", "begin_new", "intent", "buy", "bought", "bind",
               "clear", "describe", "renew", "extend", "extended", "start", "grant",
               "granted", "finish"}

\* A row that says suspended, and a worker that is about to say so.
ClosedRow == act.step = "suspended" => Closed /\ \A f \in sent : f.op # "grant"
ClosedWork(w) ==
  /\ at[w] \in Activating => act.step # "suspended"
  /\ at[w] = "maintain" => see[w].step = act.step
  /\ at[w] = "revoked" /\ Answered(w) => ~cloud[desk.id].granted
  /\ at[w] = "suspended" => Closed
RevokedInv ==
  /\ Sole
  /\ \A f \in sent : UnderLease(f)
  /\ ClosedRow
  /\ \A w \in Workers : ClosedWork(w)

\* No cancelled worker has left a request behind, and none has stalled.
NoneLeft == world = Exact /\ faults.left = 0
Timely == NoneLeft /\ faults.expire = 0
AccessInv == Marked /\ (NoneLeft => ReadyInv) /\ (Timely => RevokedInv)

\* What is counted.
Counted == faults \in [fail : Nat, crash : Nat, expire : Nat, left : Nat]

\* A statement of x that sends nothing and leaves the lease and the grants alone.
Still(x) ==
  /\ at[x] # "idle" /\ (\A f \in sent : f.who # x) /\ sent' = sent
  /\ \A v \in Workers \ {x} : at'[v] = at[v]
  /\ act'.lease = act.lease /\ world' = world
  /\ faults'.expire = faults.expire /\ faults'.left = faults.left
  /\ desk.id # None => desk'.id = desk.id
  /\ \A m \in All : /\ cloud'[m].there = cloud[m].there /\ cloud'[m].granted = cloud[m].granted
                    /\ cloud[m].tagged => cloud'[m].tagged

\* While x is at work and waits for nothing, nothing is under way for its lease.
LEMMA Silence ==
  ASSUME NEW x \in Workers, at[x] # "idle", act.lease = x, NEW f \in sent, UnderLease(f),
         f.who # x
  PROVE  FALSE
  BY DEF UnderLease

LEMMA StillReady ==
  ASSUME ActInv, ActInv', NEW x \in Workers, Still(x), ReadyInv,
         act'.state = "ready" => act.state = "ready" \/ (at[x] = "finish" /\ act.lease = x),
         cloud'[desk'.id].tagged \/ at[x] # "finish",
         act.lease = x => ReadyWork(x)'
  PROVE  ReadyInv'
  <1>1. \A f \in sent' : f.op \in {"grant", "revoke"} => UnderLease(f)'
    <2> SUFFICES ASSUME NEW f \in sent, f.op \in {"grant", "revoke"} PROVE UnderLease(f)'
      BY DEF Still
    <2>1. UnderLease(f) /\ f.who # x
      BY DEF ReadyInv, Still
    <2>2. act.lease # x
      BY <2>1, Silence DEF Still
    <2>3. act.lease \in Workers \cup {None}
      BY DEF ActInv, Typed, Job
    <2> QED BY <2>1, <2>2, <2>3 DEF UnderLease, Still
  <1>2. desk.id # None => /\ desk'.id = desk.id /\ cloud'[desk.id].granted = cloud[desk.id].granted
                          /\ cloud[desk.id].tagged => cloud'[desk.id].tagged
    BY DEF Still, ActInv, Typed, Desk
  <1>3. ReadyRow'
    <2>1. CASE act.state = "ready"
      BY <1>2, <2>1 DEF ReadyInv, ReadyRow, Still
    <2>2. CASE at[x] = "finish" /\ act.lease = x
      <3>1. \A f \in sent : f.op # "revoke"
        BY <2>2, Silence DEF ReadyInv, Still
      <3>2. desk.id # None /\ cloud[desk.id].granted
        BY <2>2, PlaceFact DEF RowRead, ReadyInv, ReadyWork
      <3> QED BY <1>2, <2>2, <3>1, <3>2 DEF ReadyRow, Still
    <2> QED BY <2>1, <2>2 DEF ReadyRow
  <1>4. ASSUME NEW w \in Workers, act'.lease = w PROVE ReadyWork(w)'
    <2>1. CASE w = x
      BY <1>4, <2>1 DEF Still
    <2>2. CASE w # x
      <3>1. ReadyWork(w) /\ at'[w] = at[w] /\ RowRead(w)
        BY <1>4, <2>2 DEF ReadyInv, Still, ActInv
      <3>2. act'.state = "ready" => act.state = "ready"
        BY <1>4, <2>2 DEF Still
      <3> QED BY <1>2, <3>1, <3>2 DEF ReadyWork, RowRead, Answered, Still
    <2> QED BY <2>1, <2>2
  <1> QED BY <1>1, <1>3, <1>4 DEF ReadyInv

LEMMA StillRevoked ==
  ASSUME ActInv, ActInv', NEW x \in Workers, Still(x), RevokedInv,
         act'.step = "suspended" => Closed', ClosedWork(x)'
  PROVE  RevokedInv'
  <1>1. act.lease = x /\ act'.lease = x
    BY DEF Still, RevokedInv, Sole
  <1>2. sent = {} /\ sent' = {}
    BY <1>1, Silence DEF Still, RevokedInv
  <1>3. \A v \in Workers : v # x => at'[v] = "idle"
    BY <1>1 DEF Still, RevokedInv, Sole
  <1>4. \A w \in Workers : ClosedWork(w)'
    BY <1>3 DEF ClosedWork, Activating
  <1> QED BY <1>1, <1>2, <1>3, <1>4 DEF RevokedInv, Sole, ClosedRow

LEMMA StillKeeps ==
  ASSUME ActInv, ActInv', AccessInv, NEW x \in Workers, Still(x),
         desk'.id # None /\ ~desk'.assigning => cloud'[desk'.id].tagged,
         at'[x] = "finish" => cloud'[desk'.id].tagged,
         NoneLeft =>
           /\ act'.state = "ready" => act.state = "ready" \/ (at[x] = "finish" /\ act.lease = x)
           /\ act.lease = x => ReadyWork(x)',
         Timely => (act'.step = "suspended" => Closed') /\ ClosedWork(x)'
  PROVE  AccessInv'
  <1>1. Marked'
    <2>1. \A m \in Machines : cloud'[m].there => cloud'[m].tagged
      BY DEF AccessInv, Marked, Still, All
    <2>2. ASSUME NEW w \in Workers, w # x, at'[w] = "finish" PROVE cloud'[desk'.id].tagged
      <3>1. at[w] = "finish" /\ desk.id # None /\ desk.id \in All
        BY <2>2, PlaceFact DEF RowRead, Still
      <3>2. cloud[desk.id].tagged
        BY <3>1 DEF AccessInv, Marked
      <3> QED BY <3>1, <3>2 DEF Still
    <2> QED BY <2>1, <2>2 DEF Marked
  <1>2. cloud'[desk'.id].tagged \/ at[x] # "finish"
    <2> SUFFICES ASSUME at[x] = "finish" PROVE cloud'[desk'.id].tagged
      OBVIOUS
    <2>1. desk.id # None /\ desk.id \in All /\ cloud[desk.id].tagged
      BY PlaceFact DEF RowRead, AccessInv, Marked
    <2> QED BY <2>1 DEF Still
  <1>3. NoneLeft' => ReadyInv'
    BY <1>2, StillReady DEF AccessInv, NoneLeft, Still
  <1>4. Timely' => RevokedInv'
    BY StillRevoked DEF AccessInv, Timely, NoneLeft, Still
  <1> QED BY <1>1, <1>3, <1>4 DEF AccessInv

LEMMA AccessInit == ASSUME ActivationInit, ActInv PROVE AccessInv
  <1>0. PICK stock \in SUBSET Pooled :
          cloud = [m \in All |->
           [there |-> m \in stock, shown |-> m \in stock, tagged |-> FALSE,
            granted |-> FALSE, on |-> m \in stock,
            paidTo |-> IF m \in stock THEN 1 ELSE 0,
            shownTo |-> IF m \in stock THEN 1 ELSE 0]]
    BY DEF ActivationInit
  <1>1. Marked
    BY <1>0, ConstantsFact DEF ActivationInit, Marked, NoDesk, All
  <1>2. ReadyInv
    BY ConstantsFact DEF ActivationInit, ReadyInv, ReadyRow
  <1>3. RevokedInv
    BY DEF ActivationInit, RevokedInv, Sole, ClosedRow, ClosedWork, Activating
  <1> QED BY <1>1, <1>2, <1>3 DEF AccessInv

\* What the suspension rests on does not change.
LEMMA ClosedSame ==
  ASSUME act'.kind = act.kind, desk'.id = desk.id,
         \A m \in All : /\ cloud'[m].there = cloud[m].there /\ cloud'[m].granted = cloud[m].granted
                       /\ cloud'[m].tagged = cloud[m].tagged,
         \A f \in sent' : f.op = "create" => \E g \in sent : g.op = "create"
  PROVE  Closed => Closed'
  BY DEF Closed, Ours

\* The statements that go on with the desktop as it is.
LEMMA PlainKeeps ==
  ASSUME ActInv, ActInv', AccessInv, world' = world, NEW x \in Workers, at[x] # "idle",
         \A f \in sent : f.who # x, sent' = sent,
         NEW p \in Places \ {"granted", "finish", "revoke", "revoked", "maintain"}, Go(x, p),
         cloud' = cloud, desk'.id = desk.id, desk'.assigning = desk.assigning,
         act'.lease = act.lease, act'.state = "ready" => act.state = "ready",
         faults'.expire = faults.expire, faults'.left = faults.left,
         Timely => /\ p \in Activating => act'.step # "suspended"
                   /\ p = "suspended" => Closed'
                   /\ act'.step = "suspended" => Closed'
  PROVE  AccessInv'
  <1>1. at'[x] = p /\ \A v \in Workers \ {x} : at'[v] = at[v]
    BY PlaceFact DEF Go
  <1>2. Still(x)
    BY <1>1 DEF Still
  <1>3. desk'.id # None /\ ~desk'.assigning => cloud'[desk'.id].tagged
    BY DEF AccessInv, Marked
  <1>4. ReadyWork(x)'
    BY <1>1 DEF ReadyWork
  <1>5. Timely => ClosedWork(x)'
    BY <1>1 DEF ClosedWork
  <1> QED BY <1>1, <1>2, <1>3, <1>4, <1>5, StillKeeps

LEMMA NotSuspended ==
  ASSUME AccessInv, Timely, NEW x \in Workers, at[x] \in Activating
  PROVE  act.step # "suspended"
  BY DEF AccessInv, RevokedInv, ClosedWork

\* An outcome leaves the lease, and names the state and the step.
LEMMA OutcomeFact ==
  ASSUME ActInv, NEW x \in Workers, NEW s, NEW t, Ended(x, s, t)
  PROVE  /\ act'.lease = act.lease /\ act'.kind = act.kind
         /\ act'.state \in {act.state, s} /\ act'.step \in {act.step, t}
         /\ (act.lease = x => act'.step = t) /\ Go(x, "release")
  BY DEF ActInv, Typed, Job, Ended, Owns

LEMMA ActivateAccess ==
  ASSUME ActInv, ActInv', AccessInv, world' = world, NEW x \in Workers,
         \/ Assign(x) \/ BeginActivation(x) \/ List(x) \/ BeginNew(x) \/ Intent(x) \/ Bought(x)
         \/ Clear(x) \/ Describe(x) \/ RenewIntent(x) \/ Extended(x)
  PROVE  AccessInv'
  <1> DEFINE S == (Activating \ {"granted", "finish"}) \cup {"release", "failed"}
  <1>1. at[x] \in Activating \/ Assign(x)
    BY DEF Activating, BeginActivation, List, BeginNew, Intent, Bought, Clear, Describe, RenewIntent, Extended
  <1>2. at[x] # "idle" /\ faults' = faults /\ cloud' = cloud /\ sent' = sent
    BY DEF Assign, BeginActivation, List, BeginNew, Intent, Bought, Clear, Describe, RenewIntent, Extended
  <1>3. \A f \in sent : f.who # x
    <2>1. CASE Bought(x) \/ Extended(x)
      BY <2>1 DEF Bought, Extended, Answered
    <2>2. CASE ~(Bought(x) \/ Extended(x))
      BY <2>2, NothingSent DEF Assign, BeginActivation, List, BeginNew, Intent, Clear, Describe, RenewIntent
    <2> QED BY <2>1, <2>2
  <1>4. desk'.id = desk.id /\ desk'.assigning = desk.assigning
    <2>1. CASE BeginActivation(x) \/ BeginNew(x)
      BY <2>1, FreshDesk DEF BeginActivation, BeginNew
    <2>2. CASE Describe(x) \/ Extended(x)
      BY <2>2, PlaceFact DEF Describe, Extended, Desk
    <2> QED BY <2>1, <2>2 DEF Assign, List, Intent, Bought, Clear, RenewIntent
  <1>5. /\ \E p \in S : Go(x, p)
        /\ act'.lease = act.lease /\ (act'.state = "ready" => act.state = "ready")
        /\ act'.step \in {act.step, "working"} /\ (Assign(x) => act'.step = "working")
    <2>0. act \in Job
      BY PlaceFact
    <2>u. ASSUME Uncertain(x), ~Assign(x)
          PROVE  /\ \E p \in S : Go(x, p)
                 /\ act'.lease = act.lease /\ (act'.state = "ready" => act.state = "ready")
                 /\ act'.step \in {act.step, "working"} /\ (Assign(x) => act'.step = "working")
      BY <2>u, OutcomeFact DEF Uncertain, Activating
    <2>1. CASE Assign(x)
      BY <2>0, <2>1 DEF Assign, Stage, Job, Activating
    <2>2. CASE BeginActivation(x) \/ BeginNew(x) \/ Bought(x)
      <3>1. ~Assign(x)
        BY <2>2 DEF BeginActivation, BeginNew, Bought, Assign
      <3> QED BY <2>0, <2>2, <3>1 DEF BeginActivation, BeginNew, Bought, Activating
    <2>3. CASE List(x)
      <3>1. ~Assign(x)
        BY <2>3 DEF List, Assign
      <3> QED BY <2>u, <2>3, <3>1 DEF List, Activating
    <2>4. CASE Intent(x) \/ RenewIntent(x)
      <3>1. ~Assign(x)
        BY <2>4 DEF Intent, RenewIntent, Assign
      <3> QED BY <2>0, <2>4, <3>1 DEF Intent, RenewIntent, Job, Activating
    <2>5. CASE Clear(x)
      <3>1. ~Assign(x)
        BY <2>5 DEF Clear, Assign
      <3> QED BY <2>0, <2>5, <3>1 DEF Clear, Cleared, Job, Activating
    <2>6. CASE Describe(x)
      <3>1. ~Assign(x)
        BY <2>6 DEF Describe, Assign
      <3>2. Uncertain(x) \/ (act' \in {act, Cleared} /\ \E p \in {"renew", "start", "failed"} : Go(x, p))
        BY <2>6 DEF Describe
      <3> QED BY <2>0, <2>u, <3>1, <3>2 DEF Cleared, Job, Activating
    <2>7. CASE Extended(x)
      <3>1. ~Assign(x)
        BY <2>7 DEF Extended, Assign
      <3>2. Uncertain(x) \/ (act' = Cleared /\ Go(x, "start"))
        BY <2>7 DEF Extended
      <3> QED BY <2>0, <2>u, <3>1, <3>2 DEF Cleared, Job, Activating
    <2> QED BY <2>1, <2>2, <2>3, <2>4, <2>5, <2>6, <2>7
  <1>6. PICK p \in S : Go(x, p)
    BY <1>5
  <1>7. p \in Places \ {"granted", "finish", "revoke", "revoked", "maintain"} /\ p # "suspended"
    BY <1>6 DEF Places, Activating
  <1>8. Timely => act'.step # "suspended"
    BY <1>1, <1>5, NotSuspended
  <1> QED BY <1>2, <1>3, <1>4, <1>5, <1>6, <1>7, <1>8, PlainKeeps

\* The row is made or gets its machine: the machine carries the tag, or is on
\* its way out of the pool.
LEMMA BindAccess ==
  ASSUME ActInv, ActInv', AccessInv, world' = world, NEW x \in Workers,
         Allocate(x) \/ Bind(x) \/ Keep(x)
  PROVE  AccessInv'
  <1>1. /\ at[x] \in {"allocate", "bind", "keep"} /\ faults' = faults /\ cloud' = cloud
        /\ sent' = sent /\ see[x].desk = Identity(desk)
    BY DEF Allocate, Bind, Keep, Authorised, MaySuspend, Current
  <1>2. \A f \in sent : f.who # x
    BY <1>1, NothingSent
  <1>3. desk.id = None
    BY <1>1, PlaceFact DEF RowRead, Identity
  <1>4. act'.lease = act.lease /\ act'.state = act.state /\ act'.step = act.step
    BY PlaceFact DEF Allocate, Bind, Keep, Job
  <1>5. at'[x] \in {"begin_new", "clear", "inspect"} /\ \A v \in Workers \ {x} : at'[v] = at[v]
        /\ (at'[x] = "inspect" => at[x] = "keep")
    BY PlaceFact DEF Allocate, Bind, Keep, Go
  <1>6. Still(x)
    BY <1>1, <1>2, <1>3, <1>4, <1>5 DEF Still
  <1>7. at[x] # "allocate" => see[x].got \in Ours /\ cloud[see[x].got].tagged
    BY <1>1, PlaceFact DEF Found, Ours, AccessInv, Marked
  <1>8. desk'.id # None /\ ~desk'.assigning => cloud'[desk'.id].tagged
    <2>1. CASE Allocate(x)
      <3>1. Ours = {}
        <4>1. ~desk.row
          BY <1>1, <2>1, PlaceFact DEF RowRead, Identity, Allocate
        <4> QED BY <4>1 DEF ActInv, RowShape, OnePurchase
      <3>2. see[x].got = None
        BY <2>1, <3>1, PlaceFact DEF Found, Allocate
      <3> QED BY <2>1, <3>2 DEF Allocate, Row, NoDesk
    <2>2. CASE Bind(x) \/ Keep(x)
      <3>1. desk'.id = see[x].got
        BY <2>2, PlaceFact DEF Bind, Keep, Desk
      <3>2. at[x] # "allocate"
        BY <2>2 DEF Bind, Keep
      <3> QED BY <1>1, <1>7, <3>1, <3>2
    <2> QED BY <2>1, <2>2
  <1>9. Timely => act'.step # "suspended"
    <2>1. CASE at[x] # "keep"
      BY <1>1, <1>4, <2>1, NotSuspended DEF Activating
    <2>2. CASE at[x] = "keep"
      <3> SUFFICES ASSUME Timely, act.step = "suspended" PROVE FALSE
        BY <1>4
      <3>1. Ours # {}
        BY <1>7, <2>2
      <3>2. act.kind = "create"
        BY <1>3, <3>1 DEF ActInv, OnePurchase
      <3> QED BY <1>3, <3>1, <3>2 DEF AccessInv, RevokedInv, ClosedRow, Closed
    <2> QED BY <2>1, <2>2
  <1>10. ReadyWork(x)' /\ (Timely => ClosedWork(x)')
    BY <1>5, <1>9 DEF ReadyWork, ClosedWork
  <1> QED BY <1>4, <1>5, <1>6, <1>8, <1>9, <1>10, StillKeeps

LEMMA ReadAccess ==
  ASSUME ActInv, ActInv', AccessInv, world' = world, NEW x \in Workers, ReadRow(x)
  PROVE  AccessInv'
  <1>1. /\ at[x] = "read" /\ act' = act /\ desk' = desk /\ cloud' = cloud /\ sent' = sent
        /\ faults' = faults
    BY DEF ReadRow
  <1>2. at'[x] \in {"maintain", "release", "assign"} /\ \A v \in Workers \ {x} : at'[v] = at[v]
    BY PlaceFact DEF ReadRow, Go
  <1>3. Still(x)
    BY <1>1, <1>2, NothingSent DEF Still
  <1>4. see'[x].step = act.step
    BY PlaceFact DEF ReadRow
  <1>5. ReadyWork(x)' /\ ClosedWork(x)'
    BY <1>1, <1>2, <1>4 DEF ReadyWork, ClosedWork, Activating
  <1>6. Closed => Closed'
    BY <1>1, ClosedSame
  <1>7. Timely => (act'.step = "suspended" => Closed')
    BY <1>1, <1>6 DEF AccessInv, RevokedInv, ClosedRow
  <1> QED BY <1>1, <1>2, <1>3, <1>5, <1>7, StillKeeps DEF AccessInv, Marked

\* A worker that stops.
LEMMA EndAccess ==
  ASSUME ActInv, ActInv', AccessInv, world' = world, NEW x \in Workers,
         Retry(x) \/ Denied(x) \/ Outdated(x) \/ Reprieved(x)
  PROVE  AccessInv'
  <1>1. /\ at[x] # "idle" /\ desk' = desk /\ cloud' = cloud /\ sent' = sent
        /\ faults' = faults
    BY DEF Retry, Denied, Outdated, Reprieved, Fenced
  <1>2. \A f \in sent : f.who # x
    <2>1. CASE Denied(x) \/ Reprieved(x)
      BY <2>1 DEF Denied, Reprieved, Answered
    <2>2. CASE Retry(x) \/ Outdated(x)
      BY <2>2, NothingSent DEF Retry, Outdated
    <2> QED BY <2>1, <2>2
  <1>3. /\ Go(x, "release") /\ act'.lease = act.lease /\ act'.kind = act.kind
        /\ (act'.state = "ready" => act.state = "ready")
        /\ (act'.step = "suspended" => act.step = "suspended")
    <2>1. \/ Go(x, "release") /\ UNCHANGED act
          \/ Ended(x, "retrying", act.step)
          \/ Ended(x, "queued", "suspending")
          \/ Ended(x, "needs_attention", "connecting")
      BY DEF Retry, Denied, Outdated, Reprieved
    <2> QED BY <2>1, OutcomeFact
  <1>4. Closed => Closed'
    BY <1>1, <1>3, ClosedSame
  <1>5. Timely => (act'.step = "suspended" => Closed')
    BY <1>3, <1>4 DEF AccessInv, RevokedInv, ClosedRow
  <1>6. "release" \in Places \ {"granted", "finish", "revoke", "revoked", "maintain"}
        /\ "release" \notin Activating
    BY DEF Places, Activating
  <1> QED BY <1>1, <1>2, <1>3, <1>5, <1>6, PlainKeeps

\* The machine is started, connected and recorded.
LEMMA ServeAccess ==
  ASSUME ActInv, ActInv', AccessInv, Counted, world' = world, NEW x \in Workers,
         StartMachine(x) \/ Connect(x) \/ FinishActivation(x)
  PROVE  AccessInv'
  <1>0. at[x] \in {"start", "granted", "finish"} /\ sent' = sent /\ act.lease = x
    BY DEF StartMachine, Connect, FinishActivation, Authorised, Owns
  <1>1. desk.id # None /\ desk.id \in All /\ cloud \in [All -> Machine]
    BY <1>0, PlaceFact DEF RowRead
  <1>2. \A f \in sent : f.who # x
    <2>1. CASE Connect(x)
      BY <2>1 DEF Connect, Answered
    <2>2. CASE StartMachine(x) \/ FinishActivation(x)
      BY <2>2, NothingSent DEF StartMachine, FinishActivation
    <2> QED BY <2>1, <2>2
  <1>3. desk'.id = desk.id /\ faults'.expire = faults.expire /\ faults'.left = faults.left
    <2>1. desk'.id = desk.id
      BY PlaceFact DEF StartMachine, Connect, FinishActivation, Desk
    <2>2. faults' = faults \/ faults' = [faults EXCEPT !.fail = @ + 1]
      BY DEF StartMachine, Connect, FinishActivation
    <2> QED BY <2>1, <2>2 DEF Counted
  <1>4. \A m \in All : /\ cloud'[m].there = cloud[m].there /\ cloud'[m].granted = cloud[m].granted
                       /\ cloud[m].tagged => cloud'[m].tagged
    <2>1. \/ cloud' = cloud \/ cloud' = [cloud EXCEPT ![desk.id].on = TRUE]
          \/ cloud' = [cloud EXCEPT ![desk.id].tagged = TRUE]
      BY DEF StartMachine, Connect, FinishActivation
    <2>2. CASE cloud' = cloud
      BY <2>2
    <2>3. CASE cloud' = [cloud EXCEPT ![desk.id].on = TRUE]
      BY <1>1, <2>3 DEF Machine
    <2>4. CASE cloud' = [cloud EXCEPT ![desk.id].tagged = TRUE]
      BY <1>1, <2>4 DEF Machine
    <2> QED BY <2>1, <2>2, <2>3, <2>4
  <1>5. /\ act'.lease = act.lease /\ act'.step \in {"working", "ready"}
        /\ (act'.state = "ready" => at[x] = "finish")
        /\ at'[x] \in {"grant", "failed", "finish", "release"}
        /\ (at'[x] = "finish" => Connect(x))
        /\ \A v \in Workers \ {x} : at'[v] = at[v]
    <2>0. act \in Job /\ at \in [Workers -> Places]
      BY PlaceFact
    <2>1. CASE StartMachine(x)
      BY <2>0, <2>1 DEF StartMachine, Stage, Go, Job
    <2>2. CASE Connect(x)
      BY <2>0, <2>2 DEF Connect, Stage, Go, Job
    <2>3. CASE FinishActivation(x)
      <3>1. at[x] = "finish" /\ Ended(x, "ready", "ready")
        BY <2>3 DEF FinishActivation
      <3> QED BY <1>0, <2>0, <3>1, OutcomeFact DEF Go
    <2> QED BY <2>1, <2>2, <2>3
  <1>6. Still(x)
    BY <1>0, <1>2, <1>3, <1>4, <1>5 DEF Still
  <1>7. Connect(x) => cloud'[desk.id].tagged
    <2> SUFFICES ASSUME Connect(x) PROVE cloud'[desk.id].tagged
      OBVIOUS
    <2>1. CASE desk.assigning
      BY <1>1, <2>1 DEF Connect, Machine
    <2>2. CASE ~desk.assigning
      BY <1>1, <1>4, <2>2 DEF AccessInv, Marked
    <2> QED BY <2>1, <2>2
  <1>8. desk'.id # None /\ ~desk'.assigning => cloud'[desk'.id].tagged
    <2>1. CASE StartMachine(x) \/ Connect(x)
      <3>1. desk' = desk
        BY <2>1 DEF StartMachine, Connect
      <3> QED BY <1>1, <1>4, <3>1 DEF AccessInv, Marked
    <2>2. CASE FinishActivation(x)
      <3>1. at[x] = "finish"
        BY <2>2 DEF FinishActivation
      <3> QED BY <1>1, <1>3, <1>4, <3>1 DEF AccessInv, Marked
    <2> QED BY <2>1, <2>2
  <1>9. NoneLeft => ReadyWork(x)'
    <2> SUFFICES ASSUME NoneLeft, at'[x] = "finish" PROVE cloud'[desk'.id].granted
      BY <1>5 DEF ReadyWork
    <2>1. Connect(x) /\ at[x] = "granted"
      BY <1>5 DEF Connect
    <2>2. cloud[desk.id].granted
      BY <1>0, <1>2, <2>1 DEF AccessInv, ReadyInv, ReadyWork, Answered
    <2> QED BY <1>1, <1>3, <1>4, <2>2
  <1>10. ClosedWork(x)'
    BY <1>5 DEF ClosedWork
  <1> QED BY <1>0, <1>3, <1>5, <1>6, <1>7, <1>8, <1>9, <1>10, StillKeeps

\* A suspension, up to the request and after it.
LEMMA SuspendAccess ==
  ASSUME ActInv, ActInv', AccessInv, world' = world, NEW x \in Workers,
         Maintain(x) \/ Find(x) \/ Inspect(x) \/ Revoked(x) \/ Suspended(x)
  PROVE  AccessInv'
  <1>0. /\ at[x] \in {"maintain", "find", "inspect", "revoked", "suspended"} /\ sent' = sent
        /\ cloud' = cloud /\ act.lease = x /\ faults' = faults /\ see[x].desk = Identity(desk)
    BY DEF Maintain, Find, Inspect, Revoked, Suspended, MaySuspend, Owns, Current
  <1>1. desk'.id = desk.id /\ desk'.assigning = desk.assigning
    <2>1. CASE Maintain(x)
      BY <2>1, FreshDesk DEF Maintain
    <2> QED BY <2>1 DEF Find, Inspect, Revoked, Suspended
  <1>2. \A f \in sent : f.who # x
    <2>1. CASE Revoked(x)
      BY <2>1 DEF Revoked, Answered
    <2>2. CASE ~Revoked(x)
      BY <2>2, NothingSent DEF Maintain, Find, Inspect, Suspended
    <2> QED BY <2>1, <2>2
  <1>3. Timely => sent = {}
    BY <1>0, <1>2, Silence DEF AccessInv, RevokedInv
  <1>4. act' = act => (Closed => Closed')
    BY <1>0, <1>1, ClosedSame
  <1>5. Timely => (act.step = "suspended" => Closed)
    BY DEF AccessInv, RevokedInv, ClosedRow
  <1>6. Ours = {m \in All : cloud[m].tagged}
    BY DEF Ours, ActInv, RowShape, AccessInv, Marked, All
  <1>7. \A p : p \in {"find", "keep", "inspect", "suspended", "release"} =>
          p \in Places \ {"granted", "finish", "revoke", "revoked", "maintain"} /\ p \notin Activating
    BY DEF Places, Activating
  <1>8. CASE Maintain(x)
    <2>1. act' = act
      BY <1>8 DEF Maintain
    <2>2. PICK p \in {"find", "inspect", "suspended"} :
            /\ Go(x, p)
            /\ (p = "suspended" => /\ ~(desk.row /\ desk.id = None /\ see[x].kind = "create")
                                   /\ desk.id = None \/ see[x].step = "suspended")
      BY <1>8 DEF Maintain, NeedsRevoke
    <2>3. ASSUME Timely, p = "suspended" PROVE Closed
      <3>1. see[x].step = act.step
        BY <1>8, <2>3 DEF AccessInv, RevokedInv, ClosedWork, Maintain
      <3>2. CASE desk.id # None
        BY <1>5, <2>2, <2>3, <3>1, <3>2
      <3>3. CASE desk.id = None
        <4>1. CASE act.kind # "create"
          <5>1. Ours = {}
            BY <3>3, <4>1 DEF ActInv, OnePurchase
          <5> QED BY <1>6, <3>3, <4>1, <5>1, ConstantsFact DEF Closed, All
        <4>2. CASE act.kind = "create" /\ act.step = "suspended"
          BY <1>5, <2>3, <4>2
        <4>3. CASE act.kind = "create" /\ act.step # "suspended"
          <5>1. desk.row
            BY <4>3 DEF ActInv, RowShape
          <5>2. see[x].kind = act.kind
            BY <1>0, <1>8 DEF Maintain, ActInv, Holder
          <5> QED BY <2>2, <2>3, <3>3, <4>3, <5>1, <5>2
        <4> QED BY <4>1, <4>2, <4>3
      <3> QED BY <3>2, <3>3
    <2> QED BY <1>0, <1>1, <1>2, <1>4, <1>5, <1>7, <2>1, <2>2, <2>3, PlainKeeps
  <1>9. CASE Find(x)
    <2>1. act' = act
      BY <1>9 DEF Find
    <2>2. desk.id = None
      BY <1>0, <1>9, PlaceFact DEF Find, RowRead, Identity
    <2>3. PICK p \in {"keep", "suspended"} : Go(x, p) /\ (p = "suspended" => Cardinality(Listed) # 1)
      BY <1>9 DEF Find
    <2>4. ASSUME Timely, p = "suspended" PROVE Closed
      <3>1. Listed = Ours
        BY <1>6, <2>4 DEF Listed, Timely, NoneLeft, Exact
      <3>2. Ours = {}
        <4> SUFFICES ASSUME Ours # {} PROVE FALSE
          OBVIOUS
        <4>0. \A m, n \in Ours : m = n
          BY DEF ActInv, OnePurchase
        <4>1. PICK m \in Ours : TRUE
          OBVIOUS
        <4>2. Ours = {m}
          BY <4>0
        <4>3. Cardinality(Ours) = 1
          BY <4>2, FS_Singleton
        <4> QED BY <2>3, <2>4, <3>1, <4>3
      <3> QED BY <1>3, <1>6, <2>2, <2>4, <3>2, ConstantsFact DEF Closed, All
    <2> QED BY <1>0, <1>1, <1>2, <1>4, <1>5, <1>7, <2>1, <2>3, <2>4, PlainKeeps
  <1>10. CASE Inspect(x)
    <2>1. CASE Ended(x, "suspended", "suspending")
      <3>1. /\ act'.lease = act.lease /\ (act'.state # "ready" \/ act.state = "ready")
            /\ act'.step = "suspending" /\ Go(x, "release")
        BY <1>0, <2>1, OutcomeFact
      <3> QED BY <1>0, <1>1, <1>2, <1>7, <2>1, <3>1, OutcomeFact, PlainKeeps
    <2>2. CASE /\ act' = [act EXCEPT !.state = "working", !.step = "suspending"]
               /\ Go(x, IF Known(desk.id) THEN "revoke" ELSE "suspended")
      <3>1. act'.lease = act.lease /\ act'.state = "working" /\ act'.step = "suspending"
        BY <2>2, PlaceFact DEF Job
      <3>2. at'[x] \in {"revoke", "suspended"} /\ (world = Exact => at'[x] = "revoke")
            /\ \A v \in Workers \ {x} : at'[v] = at[v]
        BY <2>2, PlaceFact DEF Go, Known, Exact
      <3>3. Still(x)
        BY <1>0, <1>1, <1>2, <3>1, <3>2 DEF Still
      <3>4. ReadyWork(x)' /\ (Timely => ClosedWork(x)')
        BY <3>1, <3>2 DEF ReadyWork, ClosedWork, Activating, Timely, NoneLeft
      <3> QED BY <1>0, <1>1, <3>1, <3>2, <3>3, <3>4, StillKeeps DEF AccessInv, Marked
    <2> QED BY <1>10, <2>1, <2>2 DEF Inspect
  <1>11. CASE Revoked(x)
    <2>1. act' = act /\ Go(x, "suspended") /\ at[x] = "revoked"
      BY <1>11 DEF Revoked
    <2>2. ASSUME Timely PROVE Closed
      <3>1. ~cloud[desk.id].granted
        BY <1>2, <2>1, <2>2 DEF AccessInv, RevokedInv, ClosedWork, Answered
      <3>2. desk.id # None
        BY <2>1, PlaceFact DEF RowRead
      <3>3. Ours \subseteq {desk.id}
        BY <3>2 DEF ActInv, OnePurchase
      <3> QED BY <1>6, <3>1, <3>2, <3>3 DEF Closed
    <2> QED BY <1>0, <1>1, <1>2, <1>4, <1>7, <2>1, <2>2, PlainKeeps
  <1>12. CASE Suspended(x)
    <2>1. /\ act'.lease = act.lease /\ (act'.state = "ready" => act.state = "ready")
          /\ act'.kind = act.kind /\ Go(x, "release")
      BY <1>12, OutcomeFact DEF Suspended
    <2>2. Timely => Closed
      BY <1>12 DEF Suspended, AccessInv, RevokedInv, ClosedWork
    <2>3. Closed => Closed'
      BY <1>0, <1>1, <2>1, ClosedSame
    <2> QED BY <1>0, <1>1, <1>2, <1>7, <2>1, <2>2, <2>3, PlainKeeps
  <1> QED BY <1>8, <1>9, <1>10, <1>11, <1>12

\* Payments and time: a payment touches the row only while nobody holds it.
LEMMA TimeAccess ==
  ASSUME ActInv, AccessInv, world' = world,
         Pay \/ MonthPasses \/ Cancel \/ \E m \in All : Show(m) \/ Stop(m)
  PROVE  AccessInv'
  <1>1. /\ at' = at /\ see' = see /\ sent' = sent /\ desk' = desk /\ faults' = faults
    BY DEF Pay, MonthPasses, Cancel, Show, Stop
  <1>2. \A m \in All : /\ cloud'[m].there = cloud[m].there /\ cloud'[m].granted = cloud[m].granted
                       /\ cloud'[m].tagged = cloud[m].tagged
    <2>0. cloud \in [All -> Machine]
      BY DEF ActInv, Typed
    <2>1. CASE Pay \/ MonthPasses \/ Cancel
      BY <2>1 DEF Pay, MonthPasses, Cancel
    <2>2. ASSUME NEW n \in All, Show(n) \/ Stop(n)
          PROVE  \A m \in All : /\ cloud'[m].there = cloud[m].there
                                /\ cloud'[m].granted = cloud[m].granted
                                /\ cloud'[m].tagged = cloud[m].tagged
      <3>1. CASE Show(n)
        BY <2>0, <3>1 DEF Show, Machine
      <3>2. CASE Stop(n)
        BY <2>0, <3>2 DEF Stop, Machine
      <3> QED BY <2>2, <3>1, <3>2
    <2> QED BY <2>1, <2>2
  <1>3. act \in Job /\ desk \in Desk /\ (desk.id # None => desk.id \in All)
    BY DEF ActInv, Typed, Desk
  <1>4. /\ act'.lease = act.lease /\ act'.kind = act.kind
        /\ act' = act \/ (act.lease = None /\ act'.state = "queued" /\ act'.step = "queued")
    BY <1>3 DEF Pay, Enqueue, MonthPasses, Cancel, Show, Stop, Job
  <1>5. \A w \in Workers : w # None /\ (at[w] = "finish" => desk.id # None)
        /\ (at[w] \in {"granted", "revoked"} => desk.id # None)
    BY PlaceFact DEF RowRead
  <1>6. Marked'
    BY <1>1, <1>2, <1>3, <1>5 DEF AccessInv, Marked, All
  <1>7. ASSUME NoneLeft PROVE ReadyInv'
    <2>1. ReadyInv
      BY <1>7 DEF AccessInv
    <2>2. \A f \in sent' : f.op \in {"grant", "revoke"} => UnderLease(f)'
      BY <1>1, <1>4, <2>1 DEF ReadyInv, UnderLease
    <2>3. ReadyRow'
      BY <1>1, <1>2, <1>3, <1>4, <2>1 DEF ReadyInv, ReadyRow
    <2>4. ASSUME NEW w \in Workers, act'.lease = w PROVE ReadyWork(w)'
      BY <1>1, <1>2, <1>3, <1>4, <1>5, <2>1, <2>4 DEF ReadyInv, ReadyWork, Answered
    <2> QED BY <2>2, <2>3, <2>4 DEF ReadyInv
  <1>8. ASSUME Timely PROVE RevokedInv'
    <2>1. RevokedInv
      BY <1>8 DEF AccessInv
    <2>2. Closed => Closed'
      BY <1>1, <1>2, <1>4, ClosedSame
    <2>3. ASSUME NEW w \in Workers PROVE ClosedWork(w)'
      <3>1. ClosedWork(w) /\ (at[w] # "idle" => act.lease = w)
        BY <2>1 DEF RevokedInv, Sole
      <3>2. CASE act' = act
        BY <1>1, <1>2, <1>3, <1>5, <2>2, <3>1, <3>2 DEF ClosedWork, Answered
      <3>3. CASE act.lease = None
        BY <1>1, <1>5, <3>1, <3>3 DEF ClosedWork, Activating
      <3> QED BY <1>4, <3>2, <3>3
    <2> QED BY <1>1, <1>4, <2>1, <2>2, <2>3 DEF RevokedInv, Sole, UnderLease, ClosedRow
  <1> QED BY <1>1, <1>6, <1>7, <1>8 DEF AccessInv, Timely, NoneLeft

\* The row is claimed, and given back.
LEMMA ClaimAccess ==
  ASSUME ActInv, AccessInv, world' = world, NEW x \in Workers, Claim(x)
  PROVE  AccessInv'
  <1>1. /\ see' = see /\ sent' = sent /\ desk' = desk /\ faults' = faults /\ cloud' = cloud
        /\ at[x] = "idle" /\ act.lease = None
    BY DEF Claim
  <1>2. /\ act'.lease = x /\ act'.kind = act.kind /\ act'.state = act.state
        /\ act'.step = act.step
    BY PlaceFact DEF Claim, Job
  <1>3. at'[x] = "read" /\ \A v \in Workers \ {x} : at'[v] = at[v]
    BY PlaceFact DEF Claim, Go
  <1>4. Marked'
    BY <1>1, <1>3 DEF AccessInv, Marked
  <1>5. ASSUME NoneLeft PROVE ReadyInv'
    BY <1>1, <1>2, <1>3, <1>5 DEF AccessInv, ReadyInv, UnderLease, ReadyRow, ReadyWork
  <1>6. ASSUME Timely PROVE RevokedInv'
    <2>1. sent = {} /\ RevokedInv
      BY <1>1, <1>6 DEF AccessInv, RevokedInv, UnderLease
    <2>2. \A w \in Workers : w # x => at'[w] = "idle"
      BY <1>1, <1>3, <2>1, PlaceFact DEF RevokedInv, Sole
    <2>3. Closed => Closed'
      BY <1>1, <1>2, ClosedSame
    <2>4. \A w \in Workers : ClosedWork(w)'
      BY <1>3, <2>2 DEF ClosedWork, Activating
    <2> QED BY <1>1, <1>2, <2>1, <2>2, <2>3, <2>4 DEF RevokedInv, Sole, ClosedRow
  <1> QED BY <1>1, <1>4, <1>5, <1>6 DEF AccessInv, Timely, NoneLeft

LEMMA ReleaseAccess ==
  ASSUME ActInv, AccessInv, world' = world, NEW x \in Workers, Release(x)
  PROVE  AccessInv'
  <1>1. /\ sent' = sent /\ desk' = desk /\ faults' = faults /\ cloud' = cloud
        /\ at[x] = "release"
    BY DEF Release
  <1>2. /\ act'.kind = act.kind /\ act'.state = act.state /\ act'.step = act.step
        /\ (IF act.lease = x THEN act'.lease = None ELSE act' = act)
    BY PlaceFact DEF Release, Job, Owns
  <1>3. at'[x] = "idle" /\ \A v \in Workers \ {x} : at'[v] = at[v]
    BY PlaceFact DEF Release, Go
  <1>4. \A f \in sent : f.who # x
    BY <1>1, NothingSent
  <1>5. Marked'
    BY <1>1, <1>3 DEF AccessInv, Marked
  <1>n. x # None /\ act.lease \in Workers \cup {None} /\ \A w \in Workers : w # None
    BY PlaceFact, ConstantsFact DEF Job
  <1>6. ASSUME NoneLeft PROVE ReadyInv'
    <2>1. ReadyInv
      BY <1>6 DEF AccessInv
    <2>2. \A f \in sent' : f.op \in {"grant", "revoke"} => UnderLease(f)'
      <3> SUFFICES ASSUME NEW f \in sent, f.op \in {"grant", "revoke"} PROVE UnderLease(f)'
        BY <1>1
      <3>1. UnderLease(f)
        BY <2>1 DEF ReadyInv
      <3>2. act.lease # x
        BY <1>1, <1>4, <3>1, Silence
      <3> QED BY <1>2, <1>3, <1>n, <3>1, <3>2 DEF UnderLease
    <2>3. ReadyRow'
      BY <1>1, <1>2, <2>1 DEF ReadyInv, ReadyRow
    <2>4. ASSUME NEW w \in Workers, act'.lease = w PROVE ReadyWork(w)'
      <3>1. act.lease = w /\ w # x
        BY <1>2, <1>n, <2>4
      <3> QED BY <1>1, <1>2, <1>3, <2>1, <3>1 DEF ReadyInv, ReadyWork, Answered
    <2> QED BY <2>2, <2>3, <2>4 DEF ReadyInv
  <1>7. ASSUME Timely PROVE RevokedInv'
    <2>1. RevokedInv /\ act.lease = x
      BY <1>1, <1>7 DEF AccessInv, RevokedInv, Sole
    <2>2. sent = {}
      BY <1>1, <1>4, <2>1, Silence DEF RevokedInv
    <2>3. \A w \in Workers : at'[w] = "idle"
      BY <1>3, <2>1 DEF RevokedInv, Sole
    <2>4. Closed => Closed'
      BY <1>1, <1>2, ClosedSame
    <2>5. \A w \in Workers : ClosedWork(w)'
      BY <2>3 DEF ClosedWork, Activating
    <2> QED BY <1>1, <1>2, <2>1, <2>2, <2>3, <2>4, <2>5 DEF RevokedInv, Sole, ClosedRow
  <1> QED BY <1>1, <1>5, <1>6, <1>7 DEF AccessInv, Timely, NoneLeft

\* A lease that ends has nothing under way, and nobody at work who did not stall.
LEMMA ExpireAccess ==
  ASSUME ActInv, AccessInv, Counted, world' = world, NEW x \in Workers, Expire(x)
  PROVE  AccessInv'
  <1>1. /\ sent' = sent /\ desk' = desk /\ cloud' = cloud /\ at' = at /\ see' = see
        /\ act.lease = x /\ (world.prompt => \A f \in sent : f.who \notin {x, None})
    BY DEF Expire, Owns
  <1>2. /\ act'.kind = act.kind /\ act'.state = act.state /\ act'.step = act.step
        /\ act'.lease = None
    BY PlaceFact DEF Expire, Job
  <1>l. faults'.left = faults.left
    BY DEF Expire, Counted
  <1>3. Marked'
    BY <1>1 DEF AccessInv, Marked
  <1>n. \A w \in Workers : w # None
    BY ConstantsFact
  <1>4. ASSUME world = Exact, NEW f \in sent, UnderLease(f) PROVE FALSE
    BY <1>1, <1>4 DEF UnderLease, Exact
  <1>5. ASSUME NoneLeft PROVE ReadyInv'
    <2>1. ReadyInv
      BY <1>5 DEF AccessInv
    <2> QED BY <1>1, <1>2, <1>4, <1>5, <1>n, <2>1 DEF ReadyInv, ReadyRow, NoneLeft
  <1>6. ASSUME Timely' PROVE RevokedInv'
    <2>1. at[x] = "idle" /\ Timely
      BY <1>6 DEF Expire, Timely, NoneLeft, Counted
    <2>2. RevokedInv /\ sent = {}
      BY <1>4, <2>1 DEF AccessInv, Timely, NoneLeft, RevokedInv
    <2>3. \A w \in Workers : at'[w] = "idle"
      BY <1>1, <2>1, <2>2 DEF RevokedInv, Sole
    <2>4. Closed => Closed'
      BY <1>1, <1>2, ClosedSame
    <2>5. \A w \in Workers : ClosedWork(w)'
      BY <2>3 DEF ClosedWork, Activating
    <2> QED BY <1>1, <1>2, <2>2, <2>3, <2>4, <2>5 DEF RevokedInv, Sole, ClosedRow
  <1> QED BY <1>l, <1>3, <1>5, <1>6 DEF AccessInv, NoneLeft

\* A worker that is gone or cancelled leaves its request to its lease.
LEMMA OrphanAccess ==
  ASSUME ActInv, AccessInv, Counted, world' = world, NEW x \in Workers, Crash(x) \/ Heartbeat(x)
  PROVE  AccessInv'
  <1>1. /\ act' = act /\ desk' = desk /\ cloud' = cloud /\ at[x] # "idle" /\ Orphaned(x)
        /\ Crash(x) \/ act.lease # x
    BY DEF Crash, Heartbeat, Owns
  <1>2. faults'.expire = faults.expire /\ faults'.left = faults.left
    BY DEF Crash, Heartbeat, Counted
  <1>3. at'[x] \in {"idle", "release"} /\ (Crash(x) => at'[x] = "idle")
        /\ \A v \in Workers \ {x} : at'[v] = at[v] /\ see'[v] = see[v]
    <2>1. CASE Crash(x)
      BY <2>1, PlaceFact DEF Crash, Go
    <2>2. CASE Heartbeat(x)
      BY <1>1, <2>2, PlaceFact DEF Heartbeat, Go, Crash
    <2> QED BY <2>1, <2>2
  <1>4. sent \subseteq CloudRequest
    BY DEF ActInv, Typed
  <1>5. \A g \in sent' : \E f \in sent :
          /\ g.op = f.op /\ (f.who # x => g = f) /\ (f.who = x => g.who = None)
    BY <1>1, <1>4 DEF Orphaned, CloudRequest
  <1>6. \A f \in sent : f.who # x => f \in sent'
    BY <1>1 DEF Orphaned
  <1>n. x # None /\ act.lease \in Workers \cup {None} /\ \A w \in Workers : w # None
    BY PlaceFact, ConstantsFact DEF Job
  <1>7. ASSUME NEW g \in sent', \A f \in sent : f.op = g.op => UnderLease(f)
        PROVE  UnderLease(g)'
    <2>1. PICK f \in sent :
            g.op = f.op /\ (f.who # x => g = f) /\ (f.who = x => g.who = None)
      BY <1>5
    <2>2. UnderLease(f)
      BY <1>7, <2>1
    <2>3. CASE f.who = x
      <3>1. act.lease = x
        BY <1>n, <2>2, <2>3 DEF UnderLease
      <3> QED BY <1>1, <1>3, <1>n, <2>1, <2>3, <3>1 DEF UnderLease
    <2>4. CASE f.who # x
      BY <1>1, <1>3, <1>n, <2>1, <2>2, <2>4 DEF UnderLease
    <2> QED BY <2>3, <2>4
  <1>8. Marked'
    BY <1>1, <1>3 DEF AccessInv, Marked
  <1>9. ASSUME NoneLeft PROVE ReadyInv'
    <2>1. ReadyInv
      BY <1>9 DEF AccessInv
    <2>2. \A g \in sent' : g.op \in {"grant", "revoke"} => UnderLease(g)'
      BY <1>7, <2>1 DEF ReadyInv
    <2>3. ReadyRow'
      BY <1>1, <1>5, <2>1 DEF ReadyInv, ReadyRow
    <2>4. ASSUME NEW w \in Workers, act'.lease = w PROVE ReadyWork(w)'
      <3>1. CASE w = x
        BY <1>3, <3>1 DEF ReadyWork
      <3>2. CASE w # x
        <4>1. Answered(w)' => Answered(w)
          BY <1>6, <3>2 DEF Answered
        <4> QED BY <1>1, <1>3, <2>1, <2>4, <3>2, <4>1 DEF ReadyInv, ReadyWork
      <3> QED BY <3>1, <3>2
    <2> QED BY <2>2, <2>3, <2>4 DEF ReadyInv
  <1>10. ASSUME Timely PROVE RevokedInv'
    <2>1. RevokedInv /\ act.lease = x
      BY <1>1, <1>10 DEF AccessInv, RevokedInv, Sole
    <2>2. \A w \in Workers : at'[w] = "idle"
      BY <1>1, <1>3, <2>1 DEF RevokedInv, Sole
    <2>3. \A g \in sent' : UnderLease(g)'
      BY <1>7, <2>1 DEF RevokedInv
    <2>4. Closed => Closed'
      BY <1>1, <1>5, ClosedSame
    <2>5. \A w \in Workers : ClosedWork(w)'
      BY <2>2 DEF ClosedWork, Activating
    <2> QED BY <1>1, <1>5, <2>1, <2>2, <2>3, <2>4, <2>5 DEF RevokedInv, Sole, ClosedRow
  <1> QED BY <1>2, <1>8, <1>9, <1>10 DEF AccessInv, Timely, NoneLeft

\* A worker that is cancelled under its lease either waits for nothing, or its
\* request is left behind and counted.
LEMMA CancelAccess ==
  ASSUME ActInv, ActInv', AccessInv, Counted, world' = world, NEW x \in Workers, Cancelled(x)
  PROVE  AccessInv'
  <1>1. /\ act' = act /\ desk' = desk /\ cloud' = cloud /\ at[x] # "idle" /\ Orphaned(x)
        /\ Go(x, "release")
    BY DEF Cancelled
  <1>2. CASE Answered(x)
    <2>1. faults'.expire = faults.expire /\ faults'.left = faults.left
      BY <1>2 DEF Cancelled, Counted
    <2>2. (\A f \in sent : f.who # x) /\ sent' = sent
      BY <1>1, <1>2 DEF Answered, Orphaned
    <2>3. Closed => Closed'
      BY <1>1, <2>2, ClosedSame
    <2>4. Timely => (act'.step = "suspended" => Closed')
      BY <1>1, <2>3 DEF AccessInv, RevokedInv, ClosedRow
    <2>5. "release" \in Places \ {"granted", "finish", "revoke", "revoked", "maintain"}
          /\ "release" \notin Activating
      BY DEF Places, Activating
    <2> QED BY <1>1, <2>1, <2>2, <2>4, <2>5, PlainKeeps
  <1>3. CASE ~Answered(x)
    <2>1. faults'.left # 0
      BY <1>3 DEF Cancelled, Counted
    <2>2. at'[x] = "release" /\ \A v \in Workers \ {x} : at'[v] = at[v]
      BY <1>1, PlaceFact DEF Go
    <2>3. Marked'
      BY <1>1, <2>2 DEF AccessInv, Marked
    <2> QED BY <2>1, <2>3 DEF AccessInv, Timely, NoneLeft
  <1> QED BY <1>2, <1>3

\* A request is sent: a grant by an activation of a row that is not suspended,
\* a revocation by a suspension whose row no longer says ready.
LEMMA SendAccess ==
  ASSUME ActInv, AccessInv, world' = world, NEW x \in Workers,
         Buy(x) \/ Extend(x) \/ Grant(x) \/ (Revoke(x) /\ Verified(desk.id))
  PROVE  AccessInv'
  <1>1. /\ act' = act /\ desk' = desk /\ cloud' = cloud /\ see' = see /\ faults' = faults
        /\ at[x] \in {"buy", "extend", "grant", "revoke"}
    BY DEF Buy, Extend, Grant, Revoke
  <1>2. PICK op \in {"create", "renew", "grant", "revoke"}, m \in All \cup {None} :
          /\ Sent(x, op, m) /\ Go(x, WaitsAt(op))
          /\ (op = "revoke" <=> at[x] = "revoke")
          /\ op \in {"grant", "revoke"} => act.lease = x
    <2>0. desk.id \in All \cup {None}
      BY PlaceFact DEF Desk
    <2>1. CASE Buy(x)
      BY <2>1 DEF Buy, WaitsAt
    <2>2. CASE Extend(x)
      BY <2>0, <2>2 DEF Extend, WaitsAt
    <2>3. CASE Grant(x)
      BY <2>0, <2>3 DEF Grant, WaitsAt, Authorised, Owns
    <2>4. CASE Revoke(x) /\ Verified(desk.id)
      BY <2>0, <2>4 DEF Revoke, WaitsAt, MaySuspend, Owns
    <2> QED BY <2>1, <2>2, <2>3, <2>4
  <1>3. PICK r : r = [who |-> x, op |-> op, m |-> m] /\ sent' = sent \cup {r}
    BY <1>2 DEF Sent
  <1>4. r.who = x /\ r.op = op /\ r \in sent'
    BY <1>3
  <1>5. at'[x] = WaitsAt(op) /\ \A v \in Workers \ {x} : at'[v] = at[v]
    BY <1>2, PlaceFact DEF Go
  <1>6. /\ (at'[x] = "revoked" <=> op = "revoke") /\ at'[x] \notin {"finish", "revoke", "suspended"}
        /\ at'[x] # "idle" /\ at'[x] # "maintain"
    BY <1>2, <1>5 DEF WaitsAt
  <1>n. x # None /\ act.lease \in Workers \cup {None} /\ \A w \in Workers : w # None
    BY PlaceFact, ConstantsFact DEF Job
  <1>7. ASSUME NEW f \in sent, UnderLease(f) PROVE UnderLease(f)'
    BY <1>1, <1>5, <1>7, <1>n DEF UnderLease
  <1>8. act.lease = x => UnderLease(r)'
    BY <1>1, <1>4, <1>n DEF UnderLease
  <1>9. Marked'
    BY <1>1, <1>5, <1>6 DEF AccessInv, Marked
  <1>10. ASSUME NoneLeft PROVE ReadyInv'
    <2>1. ReadyInv
      BY <1>10 DEF AccessInv
    <2>2. \A f \in sent' : f.op \in {"grant", "revoke"} => UnderLease(f)'
      BY <1>2, <1>3, <1>4, <1>7, <1>8, <2>1 DEF ReadyInv
    <2>3. op = "revoke" => act.state # "ready"
      BY <1>2, <2>1 DEF ReadyInv, ReadyWork
    <2>4. ReadyRow'
      BY <1>1, <1>3, <1>4, <2>1, <2>3 DEF ReadyInv, ReadyRow
    <2>5. ASSUME NEW w \in Workers, act'.lease = w PROVE ReadyWork(w)'
      <3>1. CASE w = x
        <4>1. ~Answered(x)'
          BY <1>4 DEF Answered
        <4> QED BY <1>1, <1>6, <2>3, <3>1, <4>1 DEF ReadyWork
      <3>2. CASE w # x
        <4>1. Answered(w)' => Answered(w)
          BY <1>3 DEF Answered
        <4> QED BY <1>1, <1>5, <2>1, <2>5, <3>2, <4>1 DEF ReadyInv, ReadyWork
      <3> QED BY <3>1, <3>2
    <2> QED BY <2>2, <2>4, <2>5 DEF ReadyInv
  <1>11. ASSUME Timely PROVE RevokedInv'
    <2>1. RevokedInv /\ act.lease = x
      BY <1>1, <1>11 DEF AccessInv, RevokedInv, Sole
    <2>2. \A w \in Workers : w # x => at'[w] = "idle"
      BY <1>5, <2>1 DEF RevokedInv, Sole
    <2>3. \A f \in sent' : UnderLease(f)'
      BY <1>3, <1>7, <1>8, <2>1 DEF RevokedInv
    <2>4. op # "revoke" => act.step # "suspended"
      <3> SUFFICES ASSUME op # "revoke" PROVE act.step # "suspended"
        OBVIOUS
      <3>1. at[x] \in Activating
        BY <1>1, <1>2 DEF Activating
      <3> QED BY <1>11, <3>1, NotSuspended
    <2>5. op = "revoke" => (Closed => Closed')
      BY <1>1, <1>3, <1>4, ClosedSame
    <2>6. ClosedRow'
      BY <1>1, <1>2, <1>3, <1>4, <2>1, <2>4, <2>5 DEF RevokedInv, ClosedRow
    <2>7. ClosedWork(x)'
      <3>1. ~Answered(x)'
        BY <1>4 DEF Answered
      <3>2. at'[x] \in Activating => op # "revoke"
        BY <1>6 DEF Activating
      <3> QED BY <1>1, <1>6, <2>4, <3>1, <3>2 DEF ClosedWork
    <2>8. \A w \in Workers : ClosedWork(w)'
      BY <2>2, <2>7 DEF ClosedWork, Activating
    <2> QED BY <1>1, <1>6, <2>1, <2>2, <2>3, <2>6, <2>8 DEF RevokedInv, Sole
  <1> QED BY <1>1, <1>9, <1>10, <1>11 DEF AccessInv, Timely, NoneLeft

\* A machine that is not verified is left alone.
LEMMA RefuseAccess ==
  ASSUME ActInv, ActInv', AccessInv, world' = world, NEW x \in Workers,
         Revoke(x), ~Verified(desk.id)
  PROVE  AccessInv'
  <1>1. /\ at[x] = "revoke" /\ act' = act /\ desk' = desk /\ cloud' = cloud /\ sent' = sent
        /\ faults' = faults /\ Go(x, "failed")
    BY DEF Revoke
  <1>2. \A f \in sent : f.who # x
    BY <1>1, NothingSent
  <1>3. Closed => Closed'
    BY <1>1, ClosedSame
  <1>4. Timely => (act'.step = "suspended" => Closed')
    BY <1>1, <1>3 DEF AccessInv, RevokedInv, ClosedRow
  <1>5. "failed" \in Places \ {"granted", "finish", "revoke", "revoked", "maintain"}
        /\ "failed" \notin Activating
    BY DEF Places, Activating
  <1> QED BY <1>1, <1>2, <1>4, <1>5, PlainKeeps

\* What a request does to access when it is done with.
SameAccess == \A n \in All : /\ cloud'[n].there = cloud[n].there
                             /\ cloud'[n].tagged = cloud[n].tagged
                             /\ cloud'[n].granted = cloud[n].granted
OthersKept ==
     \A n \in All : /\ cloud'[n].there = cloud[n].there /\ cloud'[n].tagged = cloud[n].tagged
                    /\ n # desk.id => cloud'[n].granted = cloud[n].granted
Grants == cloud'[desk.id].granted /\ OthersKept
Revokes == ~cloud'[desk.id].granted /\ OthersKept

LEMMA LandsAs ==
  ASSUME ActInv, NEW f \in sent, NEW m \in Target(f), cloud' = Effect(f, m)
  PROVE  \/ f.op = "create" /\ \A n \in Machines :
                                    /\ cloud'[n].there => cloud'[n].tagged \/ cloud[n].there
                                    /\ cloud[n].tagged => cloud'[n].tagged
         \/ f.op = "renew" /\ SameAccess
         \/ f.op = "grant" /\ Grants
         \/ f.op = "revoke" /\ Revokes
  <1>1. f \in CloudRequest /\ cloud \in [All -> Machine]
    BY DEF ActInv, Typed
  <1>2. f.op # "create" => m = desk.id /\ desk.id \in All
    BY <1>1 DEF ActInv, Requests, Target, CloudRequest
  <1>3. CASE f.op = "create"
    <2>1. m \in Machines /\ ~cloud[m].there
      BY <1>3 DEF Target
    <2>2. cloud' = [cloud EXCEPT ![m] = [there |-> TRUE, shown |-> FALSE, tagged |-> TRUE,
              granted |-> TRUE, on |-> TRUE, paidTo |-> month + 1, shownTo |-> month + 1]]
      BY <1>3 DEF Effect
    <2>3. cloud'[m].tagged /\ \A n \in All : n # m => cloud'[n] = cloud[n]
      BY <1>1, <2>1, <2>2 DEF All
    <2> QED BY <1>3, <2>3 DEF All
  <1>4. CASE f.op = "renew"
    <2>1. cloud' = [cloud EXCEPT ![desk.id].paidTo = @ + 1]
      BY <1>2, <1>4 DEF Effect
    <2> QED BY <1>1, <1>2, <1>4, <2>1 DEF SameAccess, Machine
  <1>5. CASE f.op = "grant"
    <2>1. cloud' = [cloud EXCEPT ![desk.id].granted = TRUE]
      BY <1>2, <1>5 DEF Effect
    <2>2. cloud'[desk.id].granted
      BY <1>1, <1>2, <1>5, <2>1
    <2>4. \A n \in All : n # desk.id => cloud'[n] = cloud[n]
      BY <1>1, <2>1
    <2>5. cloud'[desk.id].there = cloud[desk.id].there
      BY <1>1, <1>2, <1>5, <2>1 DEF Machine
    <2>6. cloud'[desk.id].tagged = cloud[desk.id].tagged
      BY <1>1, <1>2, <1>5, <2>1 DEF Machine
    <2>3. OthersKept
      BY <2>4, <2>5, <2>6 DEF OthersKept
    <2> QED BY <1>5, <2>2, <2>3 DEF Grants
  <1>6. CASE f.op = "revoke"
    <2>1. cloud' = [cloud EXCEPT ![desk.id].granted = FALSE]
      BY <1>2, <1>6 DEF Effect
    <2>2. ~cloud'[desk.id].granted
      BY <1>1, <1>2, <1>6, <2>1
    <2>4. \A n \in All : n # desk.id => cloud'[n] = cloud[n]
      BY <1>1, <2>1
    <2>5. cloud'[desk.id].there = cloud[desk.id].there
      BY <1>1, <1>2, <1>6, <2>1 DEF Machine
    <2>6. cloud'[desk.id].tagged = cloud[desk.id].tagged
      BY <1>1, <1>2, <1>6, <2>1 DEF Machine
    <2>3. OthersKept
      BY <2>4, <2>5, <2>6 DEF OthersKept
    <2> QED BY <1>6, <2>2, <2>3 DEF Revokes
  <1> QED BY <1>1, <1>3, <1>4, <1>5, <1>6 DEF CloudRequest

\* What Land and Fail have in common: the request is gone, and its sender goes
\* on waiting at its place or has failed.
Settles(f) ==
  /\ sent' = sent \ {f} /\ act' = act /\ desk' = desk
  /\ faults'.expire = faults.expire /\ faults'.left = faults.left
  /\ \A w \in Workers : /\ at'[w] = at[w] \/ (w = f.who /\ at'[w] = "failed")
                        /\ w # f.who => see'[w] = see[w]
                        /\ w = f.who => at[w] = WaitsAt(f.op)
                        /\ (Answered(w)' /\ w # f.who) => Answered(w)

LEMMA SettlesFact ==
  ASSUME ActInv, Counted, NEW f \in sent, Land(f) \/ RequestFails(f)
  PROVE  /\ Settles(f)
         /\ \/ SameAccess /\ \A w \in Workers : w = f.who /\ f.op # "renew" => at'[w] = "failed"
            \/ f.op = "renew" /\ SameAccess
            \/ \E m \in Target(f) : cloud' = Effect(f, m)
  <1>0. at \in [Workers -> Places] /\ see \in [Workers -> WorkerView] /\ f \in CloudRequest
    BY DEF ActInv, Typed
  <1>1. sent' = sent \ {f} /\ act' = act /\ desk' = desk
    BY DEF Land, RequestFails
  <1>2. faults'.expire = faults.expire /\ faults'.left = faults.left
    BY DEF Land, RequestFails, Counted
  <1>3. \A w \in Workers : /\ at'[w] = at[w] \/ (w = f.who /\ at'[w] = "failed")
                           /\ w # f.who => see'[w] = see[w]
    BY <1>0, ConstantsFact DEF Land, RequestFails
  <1>4. \A w \in Workers : w = f.who => at[w] = WaitsAt(f.op)
    BY ConstantsFact DEF ActInv, Requests
  <1>5. \A w \in Workers : (Answered(w)' /\ w # f.who) => Answered(w)
    BY <1>1 DEF Answered
  <1>6. Settles(f)
    BY <1>1, <1>2, <1>3, <1>4, <1>5 DEF Settles
  <1>7. CASE Land(f)
    BY <1>6, <1>7 DEF Land
  <1>8. CASE RequestFails(f)
    <2>1. \A w \in Workers : w = f.who => at'[w] = "failed"
      BY <1>0, <1>8, ConstantsFact DEF RequestFails
    <2> QED BY <1>6, <1>8, <2>1 DEF RequestFails, SameAccess
  <1> QED BY <1>7, <1>8

LEMMA SettlesLease ==
  ASSUME ActInv, NEW f \in sent, Settles(f), NEW g \in sent', UnderLease(g)
  PROVE  UnderLease(g)'
  <1>1. act.lease \in Workers \cup {None} /\ f.op \in {"create", "renew", "grant", "revoke"}
    BY DEF ActInv, Typed, Job, CloudRequest
  <1>2. CASE g.who = act.lease
    BY <1>2 DEF UnderLease, Settles
  <1>3. CASE g.who = None /\ act.lease \in Workers /\ at[act.lease] = "idle"
    <2>1. act.lease # f.who
      BY <1>1, <1>3 DEF Settles, WaitsAt
    <2> QED BY <1>3, <2>1 DEF UnderLease, Settles
  <1> QED BY <1>1, <1>2, <1>3 DEF UnderLease

\* A request that leaves access as it was, one that grants it, one that revokes it.
LEMMA SettleAccess ==
  ASSUME ActInv, AccessInv, world' = world, NEW f \in sent, Settles(f), OthersKept,
         \/ SameAccess /\ \A w \in Workers : w = f.who /\ f.op # "renew" => at'[w] = "failed"
         \/ f.op = "renew" /\ SameAccess
         \/ f.op = "grant" /\ Grants
         \/ f.op = "revoke" /\ Revokes
  PROVE  AccessInv'
  <1>0. /\ sent' = sent \ {f} /\ act' = act /\ desk' = desk
        /\ f.op \in {"create", "renew", "grant", "revoke"}
        /\ (desk.id # None => desk.id \in All)
    BY DEF Settles, ActInv, Typed, CloudRequest, Desk
  <1>1. \A w \in Workers : /\ w # None /\ (at[w] \in {"finish", "granted", "revoked"} => desk.id # None)
                           /\ (at[w] \in {"finish", "granted", "revoked"} => desk.id \in All)
    BY PlaceFact DEF RowRead
  <1>2. \A w \in Workers : at'[w] # "failed" => at'[w] = at[w]
    BY DEF Settles
  <1>w. \A w \in Workers : w = f.who => at[w] = WaitsAt(f.op)
    BY DEF Settles
  <1>3. Marked'
    BY <1>0, <1>1, <1>2 DEF AccessInv, Marked, OthersKept, All
  <1>4. ASSUME NoneLeft PROVE ReadyInv'
    <2>1. ReadyInv
      BY <1>4 DEF AccessInv
    <2>2. \A g \in sent' : g.op \in {"grant", "revoke"} => UnderLease(g)'
      BY <1>0, <2>1, SettlesLease DEF ReadyInv
    <2>3. f.op = "revoke" => act.state # "ready"
      BY <2>1 DEF ReadyInv, ReadyRow
    <2>4. ReadyRow'
      BY <1>0, <2>1, <2>3 DEF ReadyInv, ReadyRow, SameAccess, Grants, OthersKept
    <2>5. ASSUME NEW w \in Workers, act'.lease = w PROVE ReadyWork(w)'
      <3>1. ReadyWork(w) /\ act.lease = w
        BY <1>0, <2>1, <2>5 DEF ReadyInv
      <3>2. f.op \in {"grant", "revoke"} => f.who = w \/ at[w] = "idle"
        BY <2>1, <3>1 DEF ReadyInv, UnderLease
      <3>3. f.op = "revoke" => at[w] \notin {"granted", "finish"}
        BY <1>w, <3>2 DEF WaitsAt
      <3>4. ASSUME at'[w] = "granted", Answered(w)' PROVE cloud'[desk.id].granted
        <4>0. at[w] = "granted" /\ desk.id \in All
          BY <1>1, <1>2, <3>4
        <4>1. CASE w # f.who
          <5>1. cloud[desk.id].granted
            BY <3>1, <3>4, <4>0, <4>1 DEF Settles, ReadyWork
          <5> QED BY <3>3, <4>0, <5>1 DEF SameAccess, Grants
        <4>2. CASE w = f.who
          <5>1. f.op = "grant"
            BY <1>0, <1>w, <4>0, <4>2 DEF WaitsAt
          <5> QED BY <3>4, <4>2, <5>1 DEF Grants
        <4> QED BY <4>1, <4>2
      <3>5. ASSUME at'[w] = "finish" PROVE cloud'[desk.id].granted
        <4>0. at[w] = "finish" /\ desk.id \in All /\ cloud[desk.id].granted
          BY <1>1, <1>2, <3>1, <3>5 DEF ReadyWork
        <4> QED BY <3>3, <4>0 DEF SameAccess, Grants
      <3>6. at'[w] \in {"revoke", "revoked"} => act.state # "ready"
        BY <1>2, <3>1 DEF ReadyWork
      <3> QED BY <1>0, <3>4, <3>5, <3>6 DEF ReadyWork
    <2> QED BY <2>2, <2>4, <2>5 DEF ReadyInv
  <1>5. ASSUME Timely PROVE RevokedInv'
    <2>1. RevokedInv
      BY <1>5 DEF AccessInv
    <2>2. \A g \in sent' : UnderLease(g)'
      BY <1>0, <2>1, SettlesLease DEF RevokedInv
    <2>3. Sole'
      <3>1. \A w \in Workers : at'[w] # "idle" => at[w] # "idle"
        BY <1>w, <1>0 DEF Settles, WaitsAt
      <3> QED BY <1>0, <2>1, <3>1 DEF RevokedInv, Sole
    <2>4. ASSUME f.op # "grant" \/ SameAccess, Closed PROVE Closed'
      <3>1. \A n \in All : cloud'[n].granted => cloud[n].granted
        BY <1>0, <2>4 DEF SameAccess, OthersKept, Revokes
      <3>2. Ours' = Ours
        BY DEF Ours, OthersKept
      <3> QED BY <1>0, <2>4, <3>1, <3>2 DEF Closed, OthersKept
    <2>5. f.op = "grant" => act.step # "suspended"
      BY <2>1 DEF RevokedInv, ClosedRow
    <2>6. ClosedRow'
      BY <1>0, <2>1, <2>4, <2>5 DEF RevokedInv, ClosedRow
    <2>7. ASSUME NEW w \in Workers PROVE ClosedWork(w)'
      <3>1. ClosedWork(w) /\ (at[w] # "idle" => f.who = w)
        BY <2>1 DEF RevokedInv, Sole, UnderLease
      <3>2. CASE w # f.who
        <4>1. at'[w] = "idle"
          BY <3>1, <3>2 DEF Settles
        <4> QED BY <4>1 DEF ClosedWork, Activating
      <3>3. CASE w = f.who
        <4>1. at[w] = WaitsAt(f.op) /\ (at'[w] = at[w] \/ at'[w] = "failed")
          BY <3>3 DEF Settles
        <4>2. CASE at'[w] = "failed"
          BY <4>2 DEF ClosedWork, Activating
        <4>3. CASE at'[w] = at[w] /\ at[w] # "revoked"
          BY <1>0, <3>1, <4>1, <4>3 DEF ClosedWork, WaitsAt
        <4>4. CASE at'[w] = at[w] /\ at[w] = "revoked"
          <5>1. f.op = "revoke"
            BY <1>0, <4>1, <4>4 DEF WaitsAt
          <5>2. ~cloud'[desk.id].granted
            BY <3>3, <4>4, <5>1 DEF Revokes
          <5>3. "revoked" \notin Activating
            BY DEF Activating
          <5> QED BY <1>0, <4>4, <5>2, <5>3 DEF ClosedWork
        <4> QED BY <4>1, <4>2, <4>3, <4>4
      <3> QED BY <3>2, <3>3
    <2> QED BY <2>2, <2>3, <2>6, <2>7 DEF RevokedInv
  <1> QED BY <1>3, <1>4, <1>5 DEF AccessInv, Timely, NoneLeft, Settles

\* A machine is created: the row awaits one, so it says neither ready nor suspended.
LEMMA CreateAccess ==
  ASSUME ActInv, ActInv', AccessInv, world' = world, NEW f \in sent, Settles(f), f.op = "create",
         \A n \in Machines : /\ cloud'[n].there => cloud'[n].tagged \/ cloud[n].there
                             /\ cloud[n].tagged => cloud'[n].tagged
  PROVE  AccessInv'
  <1>0. sent' = sent \ {f} /\ act' = act /\ desk' = desk /\ desk.id = None /\ act.kind = "create"
    BY DEF Settles, ActInv, OnePurchase
  <1>1. \A w \in Workers : at[w] \notin {"finish", "granted", "revoked"}
    BY <1>0, PlaceFact DEF RowRead
  <1>2. \A w \in Workers : at'[w] # "failed" => at'[w] = at[w]
    BY DEF Settles
  <1>3. Marked'
    BY <1>0, <1>1, <1>2 DEF AccessInv, Marked
  <1>4. ASSUME NoneLeft PROVE ReadyInv'
    <2>1. ReadyInv
      BY <1>4 DEF AccessInv
    <2>2. \A g \in sent' : g.op \in {"grant", "revoke"} => UnderLease(g)'
      BY <1>0, <2>1, SettlesLease DEF ReadyInv
    <2>3. act.state # "ready"
      BY <1>0, <2>1 DEF ReadyInv, ReadyRow
    <2> QED BY <1>0, <1>1, <1>2, <2>2, <2>3 DEF ReadyInv, ReadyRow, ReadyWork
  <1>5. ASSUME Timely PROVE RevokedInv'
    <2>1. RevokedInv
      BY <1>5 DEF AccessInv
    <2>2. \A g \in sent' : UnderLease(g)'
      BY <1>0, <2>1, SettlesLease DEF RevokedInv
    <2>3. Sole'
      <3>1. \A w \in Workers : at'[w] # "idle" => at[w] # "idle"
        BY DEF Settles, WaitsAt
      <3> QED BY <1>0, <2>1, <3>1 DEF RevokedInv, Sole
    <2>4. ~Closed
      BY <1>0 DEF Closed
    <2>5. act.step # "suspended"
      BY <2>1, <2>4 DEF RevokedInv, ClosedRow
    <2>6. \A w \in Workers : ClosedWork(w)'
      <3> SUFFICES ASSUME NEW w \in Workers PROVE ClosedWork(w)'
        OBVIOUS
      <3>1. ClosedWork(w) /\ (at[w] # "idle" => f.who = w)
        BY <2>1 DEF RevokedInv, Sole, UnderLease
      <3>2. at'[w] \in {"idle", "failed", "bought"}
        BY <3>1 DEF Settles, WaitsAt
      <3> QED BY <1>0, <2>5, <3>2 DEF ClosedWork, Activating
    <2> QED BY <1>0, <2>2, <2>3, <2>5, <2>6 DEF RevokedInv, ClosedRow
  <1> QED BY <1>3, <1>4, <1>5 DEF AccessInv, Timely, NoneLeft, Settles

LEMMA CloudAccess ==
  ASSUME ActInv, ActInv', AccessInv, Counted, world' = world, NEW f \in sent, Land(f) \/ RequestFails(f)
  PROVE  AccessInv'
  <1>1. Settles(f)
    BY SettlesFact
  <1>2. CASE SameAccess /\ \A w \in Workers : w = f.who /\ f.op # "renew" => at'[w] = "failed"
    <2>1. OthersKept
      BY <1>2 DEF SameAccess, OthersKept
    <2> QED BY <1>1, <1>2, <2>1, SettleAccess
  <1>3. CASE f.op = "renew" /\ SameAccess
    <2>1. OthersKept
      BY <1>3 DEF SameAccess, OthersKept
    <2> QED BY <1>1, <1>3, <2>1, SettleAccess
  <1>4. CASE \E m \in Target(f) : cloud' = Effect(f, m)
    <2>1. \/ f.op = "create" /\ \A n \in Machines :
                                     /\ cloud'[n].there => cloud'[n].tagged \/ cloud[n].there
                                     /\ cloud[n].tagged => cloud'[n].tagged
          \/ f.op = "renew" /\ SameAccess
          \/ f.op = "grant" /\ Grants
          \/ f.op = "revoke" /\ Revokes
      BY <1>4, LandsAs
    <2>2. CASE f.op = "grant" /\ Grants
      BY <1>1, <2>2, SettleAccess DEF Grants
    <2>3. CASE f.op = "revoke" /\ Revokes
      BY <1>1, <2>3, SettleAccess DEF Revokes
    <2> QED BY <1>1, <1>3, <2>1, <2>2, <2>3, CreateAccess
  <1> QED BY <1>2, <1>3, <1>4, SettlesFact

\* Faults are counted.
LEMMA CountedNext == Counted /\ [ActivationNext]_<<activationVars, world>> => Counted'
  <1> SUFFICES ASSUME Counted, [ActivationNext]_<<activationVars, world>> PROVE Counted'
    OBVIOUS
  <1>1. CASE faults' = faults
    BY <1>1 DEF Counted
  <1>2. CASE \/ faults' = [faults EXCEPT !.fail = @ + 1]
             \/ faults' = [faults EXCEPT !.crash = @ + 1]
             \/ faults' = [faults EXCEPT !.expire = @ + 1]
    BY <1>2 DEF Counted
  <1>3. CASE ActivationNext
    <2>1. CASE Pay \/ MonthPasses \/ Cancel \/ \E m \in All : Show(m) \/ Stop(m)
      BY <1>1, <2>1 DEF Pay, MonthPasses, Cancel, Show, Stop
    <2>2. CASE \E f \in sent : Land(f) \/ RequestFails(f)
      BY <1>1, <1>2, <2>2 DEF Land, RequestFails
    <2>3. CASE \E w \in Workers : Claim(w) \/ Crash(w) \/ Expire(w)
      BY <1>1, <1>2, <2>3 DEF Claim, Crash, Expire
    <2>5. ASSUME NEW w \in Workers, Cancelled(w) PROVE Counted'
      <3>1. PICK n \in Nat : faults' = [faults EXCEPT !.crash = @ + 1, !.left = n]
        <4>1. faults.left \in Nat /\ faults.left + 1 \in Nat
          BY DEF Counted
        <4>2. CASE Answered(w)
          BY <2>5, <4>1, <4>2 DEF Cancelled
        <4>3. CASE ~Answered(w)
          BY <2>5, <4>1, <4>3 DEF Cancelled
        <4> QED BY <4>2, <4>3
      <3>2. faults.crash + 1 \in Nat
        BY DEF Counted
      <3> QED BY <3>1, <3>2 DEF Counted
    <2>4. CASE \E w \in Workers : Step(w)
      <3>1. PICK w \in Workers : Step(w)
        BY <2>4
      <3>2. CASE Connect(w)
        BY <1>1, <1>2, <3>2 DEF Connect
      <3>3. CASE faults' = faults
        BY <1>1, <3>3
      <3> QED BY <3>1, <3>2, <3>3
           DEF Step, ReadRow, Release, Retry, Heartbeat, Assign, BeginActivation, List, Allocate, BeginNew,
               Intent, Buy, Bought, Bind, Clear, Describe, RenewIntent, Extend, Extended, StartMachine,
               Grant, FinishActivation, Denied, Outdated, Maintain, Find, Keep, Inspect, Revoke, Revoked,
               Suspended, Reprieved
    <2> QED BY <1>3, <2>1, <2>2, <2>3, <2>4, <2>5 DEF ActivationNext
  <1> QED BY <1>1, <1>3 DEF activationVars

\* Every step keeps access and the row together.
LEMMA AccessNext ==
  ASSUME ActInv, ActInv', Counted, AccessInv, [ActivationNext]_<<activationVars, world>> PROVE AccessInv'
  <1>1. CASE UNCHANGED <<activationVars, world>>
    BY <1>1 DEF activationVars, AccessInv, Timely, NoneLeft, Marked, ReadyInv, UnderLease, ReadyRow, ReadyWork, Answered,
                RevokedInv, Sole, Closed, Ours, ClosedRow, ClosedWork
  <1>2. CASE ActivationNext
    <2>0. world' = world
      BY <1>2 DEF ActivationNext
    <2>1. CASE Pay \/ MonthPasses \/ Cancel \/ \E m \in All : Show(m) \/ Stop(m)
      BY <2>0, <2>1, TimeAccess
    <2>2. CASE \E f \in sent : Land(f) \/ RequestFails(f)
      BY <2>0, <2>2, CloudAccess
    <2>3. ASSUME NEW x \in Workers, Claim(x) \/ Crash(x) \/ Cancelled(x) \/ Expire(x) \/ Step(x) PROVE AccessInv'
      <3>1. CASE Claim(x) \/ Release(x) \/ ReadRow(x)
        BY <2>0, <3>1, ClaimAccess, ReleaseAccess, ReadAccess
      <3>2. CASE Crash(x) \/ Heartbeat(x) \/ Cancelled(x) \/ Expire(x)
        BY <2>0, <3>2, OrphanAccess, CancelAccess, ExpireAccess
      <3>3. CASE Retry(x) \/ Denied(x) \/ Outdated(x) \/ Reprieved(x)
        BY <2>0, <3>3, EndAccess
      <3>4. CASE \/ Assign(x) \/ BeginActivation(x) \/ List(x) \/ BeginNew(x) \/ Intent(x) \/ Bought(x)
                 \/ Clear(x) \/ Describe(x) \/ RenewIntent(x) \/ Extended(x)
        BY <2>0, <3>4, ActivateAccess
      <3>5. CASE Allocate(x) \/ Bind(x) \/ Keep(x)
        BY <2>0, <3>5, BindAccess
      <3>6. CASE StartMachine(x) \/ Connect(x) \/ FinishActivation(x)
        BY <2>0, <3>6, ServeAccess
      <3>7. CASE Buy(x) \/ Extend(x) \/ Grant(x) \/ Revoke(x)
        BY <2>0, <3>7, SendAccess, RefuseAccess
      <3>8. CASE Maintain(x) \/ Find(x) \/ Inspect(x) \/ Revoked(x) \/ Suspended(x)
        BY <2>0, <3>8, SuspendAccess
      <3> QED BY <2>3, <3>1, <3>2, <3>3, <3>4, <3>5, <3>6, <3>7, <3>8 DEF Step
    <2> QED BY <1>2, <2>1, <2>2, <2>3 DEF ActivationNext
  <1> QED BY <1>1, <1>2

\* The invariants give the property.
LEMMA AccessImplies == ActInv /\ AccessInv => AccessAgrees
  <1> SUFFICES ASSUME ActInv, AccessInv PROVE AccessAgrees
    OBVIOUS
  <1>1. SuspendedIsRevoked
    <2> SUFFICES ASSUME world = Exact, faults.expire = 0, faults.left = 0, act.step = "suspended",
                        act.kind # "create"
                 PROVE  \A m \in All : cloud[m].tagged \/ m = desk.id => ~cloud[m].granted
      BY DEF SuspendedIsRevoked
    <2> QED BY DEF AccessInv, Timely, NoneLeft, RevokedInv, ClosedRow, Closed
  <1>2. ReadyIsUsable
    BY DEF ReadyIsUsable, AccessInv, NoneLeft, ReadyInv, ReadyRow
  <1> QED BY <1>1, <1>2 DEF AccessAgrees

\* What the row says of access is what the cloud grants, in an exact world: a row
\* that says ready names a machine its user may enter, even when leases run out
\* under live workers; one that says suspended leaves none, unless a lease did.
\* Neither is claimed once a worker is cancelled with a request under way.
THEOREM AccessAgreesAlways == ActivationSpec => []AccessAgrees
  <1>1. ActivationInit => ActInv /\ Counted /\ AccessInv
    <2>1. ActivationInit => Counted
      BY DEF ActivationInit, Counted
    <2> QED BY <2>1, ActInit, AccessInit
  <1>2. ActInv /\ Counted /\ AccessInv /\ [ActivationNext]_<<activationVars, world>> => ActInv' /\ Counted' /\ AccessInv'
    BY ActNext, CountedNext, AccessNext
  <1>3. ActInv /\ AccessInv => AccessAgrees
    BY AccessImplies
  <1> QED BY <1>1, <1>2, <1>3, PTL DEF ActivationSpec

-----------------------------------------------------------------------------
(* Paid steps and the cap of a request (CreditCap).                         *)

\* A step that was not submitted: nothing is charged or looked at.
Unsent == {"new", "waiting", "guarding", "admitted", "refused"}
UnsentOK(j) ==
  step[j].at \in Unsent =>
    /\ event[j].request = 0
    /\ \A w \in Pollers : poller[w].job # j
    /\ job[j].status \in {"none", "submitting", "failed", "cancelled"}

\* A poller that is not idle has a job in hand; images have no lock to wait for.
ChargeInv ==
  /\ C!TypeOK /\ C!ChargedOnce
  /\ \A j \in C!Jobs : UnsentOK(j)
  /\ \A w \in Pollers : poller[w].at # "idle" => poller[w].job \in C!Jobs
  /\ \A s \in Images : step[s].at \in {"new", "done"} /\ (step[s].at = "new" => event[s].request = 0)
  /\ \A s \in C!Steps : event[s].request = 0 => event[s].credits = 0

LEMMA CapFacts ==
  /\ C!Jobs = Shots \cup Composes /\ C!Steps = C!Jobs \cup Images
  /\ C!Jobs \cap Images = {} /\ Shots \cap Composes = {}
  /\ IsFiniteSet(C!Steps) /\ NoJob \notin C!Steps /\ Procs # {}
  /\ \A s \in C!Steps : Price[s] \in Nat
  /\ Limit \in Nat /\ Overrun \in Nat /\ MaxRequests \in Nat /\ MaxRequests # 0
  /\ MaxReclaims \in Nat /\ MaxCancels \in Nat
  BY CapAssumption DEF C!CreditCapAssumption, C!Jobs, C!Steps, C!IsFiniteSet, IsFiniteSet

JobRow == [status : C!Statuses, quote : Nat, since : 0 .. MaxRequests]
StepRow == [at : C!CallStates, proc : Procs]
EventRow == [credits : Nat, request : 0 .. MaxRequests]
PollerRow == [job : C!Jobs \cup {NoJob}, at : {"idle", "seen", "running", "copied", "settled"}]

LEMMA CapTyped ==
  C!TypeOK <=>
    /\ request \in 1 .. MaxRequests /\ hit \in BOOLEAN
    /\ sending \in Nat /\ request + sending <= MaxRequests /\ crossed \in BOOLEAN
    /\ job \in [C!Jobs -> JobRow] /\ step \in [C!Steps -> StepRow]
    /\ holder \in [Procs -> C!Jobs \cup {NoJob}]
    /\ event \in [C!Steps -> EventRow] /\ charged \in Nat
    /\ poller \in [Pollers -> PollerRow] /\ cancelling \subseteq C!Jobs
    /\ failures \in 0 .. MaxReclaims /\ cancels \in 0 .. MaxCancels
  BY DEF C!TypeOK, JobRow, StepRow, EventRow, PollerRow

\* What a step does to the ledger: nothing, or one more event that is charged.
Charges(s) ==
  \E n \in Nat : /\ event[s].request = 0
                 /\ event' = [event EXCEPT ![s] = [credits |-> n, request |-> request]]
                 /\ charged' = charged + n

CreditsOf(f) == [s \in C!Steps |-> f[s].credits]

\* The sums of CreditCap are those of the lemmas.
LEMMA CapSum == ASSUME NEW f PROVE C!SumFunction(f) = Total(f, DOMAIN f)
  BY DEF C!SumFunction, C!SumFunctionOnSet, C!FoldFunctionOnSet, C!MapThenFoldSet,
         Total, SumFunctionOnSet, FoldFunctionOnSet, MapThenFoldSet

LEMMA OnceIsTotal == /\ C!ChargedOnce <=> charged = Total(CreditsOf(event), C!Steps)
                     /\ C!ChargedOnce' <=> charged' = Total(CreditsOf(event'), C!Steps)
  <1>1. \A f : C!SumFunction(CreditsOf(f)) = Total(CreditsOf(f), C!Steps)
    BY CapSum DEF CreditsOf
  <1>2. /\ C!ChargedOnce <=> charged = C!SumFunction(CreditsOf(event))
        /\ C!ChargedOnce' <=> charged' = C!SumFunction(CreditsOf(event'))
    BY DEF C!ChargedOnce, CreditsOf
  <1> QED BY <1>1, <1>2

LEMMA ChargedStep ==
  ASSUME C!TypeOK, C!ChargedOnce, NEW s \in C!Steps, Charges(s),
         event[s].request = 0 => event[s].credits = 0
  PROVE  C!ChargedOnce' /\ charged' \in Nat /\ event' \in [C!Steps -> EventRow]
  <1>1. PICK n \in Nat : /\ event' = [event EXCEPT ![s] = [credits |-> n, request |-> request]]
                         /\ charged' = charged + n
    BY DEF Charges
  <1>2. event \in [C!Steps -> EventRow] /\ charged \in Nat /\ request \in 0 .. MaxRequests
    BY CapTyped, CapFacts
  <1>3. event' \in [C!Steps -> EventRow] /\ charged' \in Nat
    BY <1>1, <1>2 DEF EventRow
  <1> DEFINE w == CreditsOf(event)
             v == CreditsOf(event')
  <1>4. Weights(w, C!Steps) /\ Weights(v, C!Steps) /\ w[s] = 0 /\ v[s] = n
        /\ \A y \in C!Steps \ {s} : w[y] = v[y]
    BY <1>1, <1>2, <1>3 DEF Weights, CreditsOf, EventRow, Charges
  <1> HIDE DEF w, v
  <1>5. Total(v, C!Steps) + w[s] = Total(w, C!Steps) + v[s]
        /\ Total(w, C!Steps) \in Nat /\ Total(v, C!Steps) \in Nat
    BY <1>4, CapFacts, TotalChanged
  <1>6. charged = Total(w, C!Steps)
    BY OnceIsTotal DEF w
  <1>7. charged' = Total(v, C!Steps)
    BY <1>1, <1>4, <1>5, <1>6
  <1>8. C!ChargedOnce'
    BY <1>7, OnceIsTotal DEF v
  <1> QED BY <1>3, <1>8

\* A step that charges nothing.
LEMMA FreeStep ==
  ASSUME ChargeInv, C!TypeOK', UNCHANGED <<event, charged>>,
         \A j \in C!Jobs : UnsentOK(j)',
         \A w \in Pollers : poller'[w].at # "idle" => poller'[w].job \in C!Jobs,
         \A s \in Images : step'[s] = step[s]
  PROVE  ChargeInv'
  BY OnceIsTotal DEF ChargeInv

\* What a step leaves to the other jobs.
Spares(k) ==
  /\ job'[k] = job[k] /\ step'[k] = step[k] /\ event'[k] = event[k]
  /\ k \in cancelling' => k \in cancelling
  /\ \A w \in Pollers : poller'[w].job = k => poller[w].job = k

LEMMA SparedUnsent == ASSUME NEW k, UnsentOK(k), Spares(k) PROVE UnsentOK(k)'
  BY DEF UnsentOK, Spares

LEMMA SubmitCharge ==
  ASSUME ChargeInv, NEW j \in C!Jobs, NEW p \in Procs, C!Submit(j, p)
  PROVE  ChargeInv'
  <1>0. j \in C!Steps /\ j \notin Images /\ j # NoJob /\ Images \subseteq C!Steps /\ C!Jobs \subseteq C!Steps
    BY CapFacts
  <1>1. C!TypeOK'
    BY <1>0, CapFacts DEF ChargeInv, C!TypeOK, C!Statuses, C!CallStates, C!Submit
  <1>2. ASSUME NEW k \in C!Jobs PROVE UnsentOK(k)'
    <2>1. UnsentOK(k)
      BY DEF ChargeInv
    <2>2. CASE k # j
      <3>1. Spares(k)
        BY <1>0, <2>2 DEF Spares, ChargeInv, C!TypeOK, C!Submit
      <3> QED BY <2>1, <3>1, SparedUnsent
    <2>3. CASE k = j
      BY <1>0, <2>1, <2>3 DEF UnsentOK, Unsent, ChargeInv, C!TypeOK, C!Statuses, C!CallStates, C!Submit
    <2> QED BY <2>2, <2>3
  <1>3. \A w \in Pollers : poller'[w].at # "idle" => poller'[w].job \in C!Jobs
    BY DEF ChargeInv, C!TypeOK, C!Submit
  <1>4. \A s \in Images : step'[s] = step[s]
    BY <1>0 DEF ChargeInv, C!TypeOK, C!Submit
  <1>5. UNCHANGED <<event, charged>>
    BY DEF C!Submit
  <1> QED BY <1>1, <1>2, <1>3, <1>4, <1>5, FreeStep

LEMMA AcquireCharge ==
  ASSUME ChargeInv, NEW j \in C!Jobs, C!Acquire(j)
  PROVE  ChargeInv'
  <1>0. j \in C!Steps /\ j \notin Images /\ j # NoJob /\ Images \subseteq C!Steps /\ C!Jobs \subseteq C!Steps
    BY CapFacts
  <1>1. C!TypeOK'
    BY <1>0, CapFacts DEF ChargeInv, C!TypeOK, C!Statuses, C!CallStates, C!Acquire, C!At
  <1>2. ASSUME NEW k \in C!Jobs PROVE UnsentOK(k)'
    <2>1. UnsentOK(k)
      BY DEF ChargeInv
    <2>2. CASE k # j
      <3>1. Spares(k)
        BY <1>0, <2>2 DEF Spares, ChargeInv, C!TypeOK, C!Acquire, C!At
      <3> QED BY <2>1, <3>1, SparedUnsent
    <2>3. CASE k = j
      BY <1>0, <2>1, <2>3 DEF UnsentOK, Unsent, ChargeInv, C!TypeOK, C!Statuses, C!CallStates, C!Acquire, C!At
    <2> QED BY <2>2, <2>3
  <1>3. \A w \in Pollers : poller'[w].at # "idle" => poller'[w].job \in C!Jobs
    BY DEF ChargeInv, C!TypeOK, C!Acquire, C!At
  <1>4. \A s \in Images : step'[s] = step[s]
    BY <1>0 DEF ChargeInv, C!TypeOK, C!Acquire, C!At
  <1>5. UNCHANGED <<event, charged>>
    BY DEF C!Acquire, C!At
  <1> QED BY <1>1, <1>2, <1>3, <1>4, <1>5, FreeStep

LEMMA AdmitCharge ==
  ASSUME ChargeInv, NEW j \in C!Jobs, C!Admit(j)
  PROVE  ChargeInv'
  <1>0. j \in C!Steps /\ j \notin Images /\ j # NoJob /\ Images \subseteq C!Steps /\ C!Jobs \subseteq C!Steps
    BY CapFacts
  <1>1. C!TypeOK'
    BY <1>0, CapFacts DEF ChargeInv, C!TypeOK, C!Statuses, C!CallStates, C!Admit, C!At
  <1>2. ASSUME NEW k \in C!Jobs PROVE UnsentOK(k)'
    <2>1. UnsentOK(k)
      BY DEF ChargeInv
    <2>2. CASE k # j
      <3>1. Spares(k)
        BY <1>0, <2>2 DEF Spares, ChargeInv, C!TypeOK, C!Admit, C!At
      <3> QED BY <2>1, <3>1, SparedUnsent
    <2>3. CASE k = j
      BY <1>0, <2>1, <2>3 DEF UnsentOK, Unsent, ChargeInv, C!TypeOK, C!Statuses, C!CallStates, C!Admit, C!At
    <2> QED BY <2>2, <2>3
  <1>3. \A w \in Pollers : poller'[w].at # "idle" => poller'[w].job \in C!Jobs
    BY DEF ChargeInv, C!TypeOK, C!Admit, C!At
  <1>4. \A s \in Images : step'[s] = step[s]
    BY <1>0 DEF ChargeInv, C!TypeOK, C!Admit, C!At
  <1>5. UNCHANGED <<event, charged>>
    BY DEF C!Admit, C!At
  <1> QED BY <1>1, <1>2, <1>3, <1>4, <1>5, FreeStep

LEMMA RefuseCharge ==
  ASSUME ChargeInv, NEW j \in C!Jobs, C!Refuse(j)
  PROVE  ChargeInv'
  <1>0. j \in C!Steps /\ j \notin Images /\ j # NoJob /\ Images \subseteq C!Steps /\ C!Jobs \subseteq C!Steps
    BY CapFacts
  <1>1. C!TypeOK'
    <2>1. job' \in [C!Jobs -> JobRow]
      <3>1. job \in [C!Jobs -> JobRow] /\ request \in 0 .. MaxRequests /\ Price[j] \in Nat
        BY <1>0, CapTyped, CapFacts DEF ChargeInv
      <3>2. CASE j \in Composes
        BY <3>1, <3>2 DEF JobRow, C!Statuses, C!Refuse, C!At, C!SetStatus
      <3>3. CASE j \notin Composes
        BY <3>1, <3>3 DEF JobRow, C!Statuses, C!Refuse, C!At, C!SetStatus
      <3> QED BY <3>2, <3>3
    <2>2. C!TypeOK
      BY DEF ChargeInv
    <2>3. step' \in [C!Steps -> StepRow]
      BY <1>0, <2>2 DEF C!TypeOK, StepRow, C!CallStates, C!Refuse, C!At, C!SetStatus
    <2>4. holder' \in [Procs -> C!Jobs \cup {NoJob}]
      BY <2>2 DEF C!TypeOK, C!Refuse, C!At, C!SetStatus
    <2>5. hit' \in BOOLEAN
      BY <2>2, Zenon DEF C!TypeOK, C!Refuse, C!At, C!SetStatus
    <2> QED BY <2>1, <2>2, <2>3, <2>4, <2>5 DEF JobRow, StepRow, C!TypeOK, C!Refuse, C!At, C!SetStatus
  <1>2. ASSUME NEW k \in C!Jobs PROVE UnsentOK(k)'
    <2>1. UnsentOK(k)
      BY DEF ChargeInv
    <2>2. CASE k # j
      <3>1. Spares(k)
        BY <1>0, <2>2 DEF Spares, ChargeInv, C!TypeOK, C!Refuse, C!At, C!SetStatus
      <3> QED BY <2>1, <3>1, SparedUnsent
    <2>3. CASE k = j
      BY <1>0, <2>1, <2>3 DEF UnsentOK, Unsent, ChargeInv, C!TypeOK, C!Statuses, C!CallStates, C!Refuse, C!At, C!SetStatus
    <2> QED BY <2>2, <2>3
  <1>3. \A w \in Pollers : poller'[w].at # "idle" => poller'[w].job \in C!Jobs
    BY DEF ChargeInv, C!TypeOK, C!Refuse, C!At, C!SetStatus
  <1>4. \A s \in Images : step'[s] = step[s]
    BY <1>0 DEF ChargeInv, C!TypeOK, C!Refuse, C!At, C!SetStatus
  <1>5. UNCHANGED <<event, charged>>
    BY DEF C!Refuse, C!At, C!SetStatus
  <1> QED BY <1>1, <1>2, <1>3, <1>4, <1>5, FreeStep

LEMMA WriteRowCharge ==
  ASSUME ChargeInv, NEW j \in C!Jobs, C!WriteRow(j)
  PROVE  ChargeInv'
  <1>0. j \in C!Steps /\ j \notin Images /\ j # NoJob /\ Images \subseteq C!Steps /\ C!Jobs \subseteq C!Steps
    BY CapFacts
  <1>1. C!TypeOK'
    <2>1. job' \in [C!Jobs -> JobRow]
      <3>1. job \in [C!Jobs -> JobRow] /\ request \in 0 .. MaxRequests /\ Price[j] \in Nat
        BY <1>0, CapTyped, CapFacts DEF ChargeInv
      <3>2. CASE j \in Composes
        BY <3>1, <3>2 DEF JobRow, C!Statuses, C!WriteRow, C!At
      <3>3. CASE j \notin Composes
        BY <3>1, <3>3 DEF JobRow, C!Statuses, C!WriteRow, C!At
      <3> QED BY <3>2, <3>3
    <2>2. C!TypeOK
      BY DEF ChargeInv
    <2>3. step' \in [C!Steps -> StepRow]
      BY <1>0, <2>2 DEF C!TypeOK, StepRow, C!CallStates, C!WriteRow, C!At
    <2>4. holder' \in [Procs -> C!Jobs \cup {NoJob}]
      BY <2>2 DEF C!TypeOK, C!WriteRow, C!At
    <2>5. hit' \in BOOLEAN
      BY <2>2, Zenon DEF C!TypeOK, C!WriteRow, C!At
    <2> QED BY <2>1, <2>2, <2>3, <2>4, <2>5 DEF JobRow, StepRow, C!TypeOK, C!WriteRow, C!At
  <1>2. ASSUME NEW k \in C!Jobs PROVE UnsentOK(k)'
    <2>1. UnsentOK(k)
      BY DEF ChargeInv
    <2>2. CASE k # j
      <3>1. Spares(k)
        BY <1>0, <2>2 DEF Spares, ChargeInv, C!TypeOK, C!WriteRow, C!At
      <3> QED BY <2>1, <3>1, SparedUnsent
    <2>3. CASE k = j
      BY <1>0, <2>1, <2>3 DEF UnsentOK, Unsent, ChargeInv, C!TypeOK, C!Statuses, C!CallStates, C!WriteRow, C!At
    <2> QED BY <2>2, <2>3
  <1>3. \A w \in Pollers : poller'[w].at # "idle" => poller'[w].job \in C!Jobs
    BY DEF ChargeInv, C!TypeOK, C!WriteRow, C!At
  <1>4. \A s \in Images : step'[s] = step[s]
    BY <1>0 DEF ChargeInv, C!TypeOK, C!WriteRow, C!At
  <1>5. UNCHANGED <<event, charged>>
    BY DEF C!WriteRow, C!At
  <1> QED BY <1>1, <1>2, <1>3, <1>4, <1>5, FreeStep

LEMMA DispatchCharge ==
  ASSUME ChargeInv, NEW j \in C!Jobs, C!Dispatch(j)
  PROVE  ChargeInv'
  <1>0. j \in C!Steps /\ j \notin Images /\ j # NoJob /\ Images \subseteq C!Steps /\ C!Jobs \subseteq C!Steps
    BY CapFacts
  <1>1. C!TypeOK'
    BY <1>0, CapFacts DEF ChargeInv, C!TypeOK, C!Statuses, C!CallStates, C!Dispatch, C!At, C!SetStatus
  <1>2. ASSUME NEW k \in C!Jobs PROVE UnsentOK(k)'
    <2>1. UnsentOK(k)
      BY DEF ChargeInv
    <2>2. CASE k # j
      <3>1. Spares(k)
        BY <1>0, <2>2 DEF Spares, ChargeInv, C!TypeOK, C!Dispatch, C!At, C!SetStatus
      <3> QED BY <2>1, <3>1, SparedUnsent
    <2>3. CASE k = j
      BY <1>0, <2>1, <2>3 DEF UnsentOK, Unsent, ChargeInv, C!TypeOK, C!Statuses, C!CallStates, C!Dispatch, C!At, C!SetStatus
    <2> QED BY <2>2, <2>3
  <1>3. \A w \in Pollers : poller'[w].at # "idle" => poller'[w].job \in C!Jobs
    BY DEF ChargeInv, C!TypeOK, C!Dispatch, C!At, C!SetStatus
  <1>4. \A s \in Images : step'[s] = step[s]
    BY <1>0 DEF ChargeInv, C!TypeOK, C!Dispatch, C!At, C!SetStatus
  <1>5. UNCHANGED <<event, charged>>
    BY DEF C!Dispatch, C!At, C!SetStatus
  <1> QED BY <1>1, <1>2, <1>3, <1>4, <1>5, FreeStep

LEMMA ProviderFailedCharge ==
  ASSUME ChargeInv, NEW j \in C!Jobs, C!ProviderFailed(j)
  PROVE  ChargeInv'
  <1>0. j \in C!Steps /\ j \notin Images /\ j # NoJob /\ Images \subseteq C!Steps /\ C!Jobs \subseteq C!Steps
    BY CapFacts
  <1>1. C!TypeOK'
    BY <1>0, CapFacts DEF ChargeInv, C!TypeOK, C!Statuses, C!CallStates, C!ProviderFailed, C!SetStatus
  <1>2. ASSUME NEW k \in C!Jobs PROVE UnsentOK(k)'
    <2>1. UnsentOK(k)
      BY DEF ChargeInv
    <2>2. CASE k # j
      <3>1. Spares(k)
        BY <1>0, <2>2 DEF Spares, ChargeInv, C!TypeOK, C!ProviderFailed, C!SetStatus
      <3> QED BY <2>1, <3>1, SparedUnsent
    <2>3. CASE k = j
      BY <1>0, <2>1, <2>3 DEF UnsentOK, Unsent, ChargeInv, C!TypeOK, C!Statuses, C!CallStates, C!ProviderFailed, C!SetStatus
    <2> QED BY <2>2, <2>3
  <1>3. \A w \in Pollers : poller'[w].at # "idle" => poller'[w].job \in C!Jobs
    BY DEF ChargeInv, C!TypeOK, C!ProviderFailed, C!SetStatus
  <1>4. \A s \in Images : step'[s] = step[s]
    BY <1>0 DEF ChargeInv, C!TypeOK, C!ProviderFailed, C!SetStatus
  <1>5. UNCHANGED <<event, charged>>
    BY DEF C!ProviderFailed, C!SetStatus
  <1> QED BY <1>1, <1>2, <1>3, <1>4, <1>5, FreeStep

LEMMA ReclaimStaleCharge ==
  ASSUME ChargeInv, NEW j \in C!Jobs, C!ReclaimStale(j)
  PROVE  ChargeInv'
  <1>0. j \in C!Steps /\ j \notin Images /\ j # NoJob /\ Images \subseteq C!Steps /\ C!Jobs \subseteq C!Steps
    BY CapFacts
  <1>1. C!TypeOK'
    BY <1>0, CapFacts DEF ChargeInv, C!TypeOK, C!Statuses, C!CallStates, C!ReclaimStale, C!SetStatus
  <1>2. ASSUME NEW k \in C!Jobs PROVE UnsentOK(k)'
    <2>1. UnsentOK(k)
      BY DEF ChargeInv
    <2>2. CASE k # j
      <3>1. Spares(k)
        BY <1>0, <2>2 DEF Spares, ChargeInv, C!TypeOK, C!ReclaimStale, C!SetStatus
      <3> QED BY <2>1, <3>1, SparedUnsent
    <2>3. CASE k = j
      BY <1>0, <2>1, <2>3 DEF UnsentOK, Unsent, ChargeInv, C!TypeOK, C!Statuses, C!CallStates, C!ReclaimStale, C!SetStatus
    <2> QED BY <2>2, <2>3
  <1>3. \A w \in Pollers : poller'[w].at # "idle" => poller'[w].job \in C!Jobs
    BY DEF ChargeInv, C!TypeOK, C!ReclaimStale, C!SetStatus
  <1>4. \A s \in Images : step'[s] = step[s]
    BY <1>0 DEF ChargeInv, C!TypeOK, C!ReclaimStale, C!SetStatus
  <1>5. UNCHANGED <<event, charged>>
    BY DEF C!ReclaimStale, C!SetStatus
  <1> QED BY <1>1, <1>2, <1>3, <1>4, <1>5, FreeStep

LEMMA StopTransferCharge ==
  ASSUME ChargeInv, NEW j \in C!Jobs, C!StopTransfer(j)
  PROVE  ChargeInv'
  <1>0. j \in C!Steps /\ j \notin Images /\ j # NoJob /\ Images \subseteq C!Steps /\ C!Jobs \subseteq C!Steps
    BY CapFacts
  <1>1. C!TypeOK'
    BY <1>0, CapFacts DEF ChargeInv, C!TypeOK, C!Statuses, C!CallStates, C!StopTransfer, C!SetStatus
  <1>2. ASSUME NEW k \in C!Jobs PROVE UnsentOK(k)'
    <2>1. UnsentOK(k)
      BY DEF ChargeInv
    <2>2. CASE k # j
      <3>1. Spares(k)
        BY <1>0, <2>2 DEF Spares, ChargeInv, C!TypeOK, C!StopTransfer, C!SetStatus
      <3> QED BY <2>1, <3>1, SparedUnsent
    <2>3. CASE k = j
      BY <1>0, <2>1, <2>3 DEF UnsentOK, Unsent, ChargeInv, C!TypeOK, C!Statuses, C!CallStates, C!StopTransfer, C!SetStatus
    <2> QED BY <2>2, <2>3
  <1>3. \A w \in Pollers : poller'[w].at # "idle" => poller'[w].job \in C!Jobs
    BY DEF ChargeInv, C!TypeOK, C!StopTransfer, C!SetStatus
  <1>4. \A s \in Images : step'[s] = step[s]
    BY <1>0 DEF ChargeInv, C!TypeOK, C!StopTransfer, C!SetStatus
  <1>5. UNCHANGED <<event, charged>>
    BY DEF C!StopTransfer, C!SetStatus
  <1> QED BY <1>1, <1>2, <1>3, <1>4, <1>5, FreeStep

LEMMA BeginCancelCharge ==
  ASSUME ChargeInv, NEW j \in C!Jobs, C!BeginCancel(j)
  PROVE  ChargeInv'
  <1>0. j \in C!Steps /\ j \notin Images /\ j # NoJob /\ Images \subseteq C!Steps /\ C!Jobs \subseteq C!Steps
    BY CapFacts
  <1>1. C!TypeOK'
    BY <1>0, CapFacts DEF ChargeInv, C!TypeOK, C!Statuses, C!CallStates, C!BeginCancel
  <1>2. ASSUME NEW k \in C!Jobs PROVE UnsentOK(k)'
    <2>1. UnsentOK(k)
      BY DEF ChargeInv
    <2>2. CASE k # j
      <3>1. Spares(k)
        BY <1>0, <2>2 DEF Spares, ChargeInv, C!TypeOK, C!BeginCancel
      <3> QED BY <2>1, <3>1, SparedUnsent
    <2>3. CASE k = j
      BY <1>0, <2>1, <2>3 DEF UnsentOK, Unsent, ChargeInv, C!TypeOK, C!Statuses, C!CallStates, C!BeginCancel
    <2> QED BY <2>2, <2>3
  <1>3. \A w \in Pollers : poller'[w].at # "idle" => poller'[w].job \in C!Jobs
    BY DEF ChargeInv, C!TypeOK, C!BeginCancel
  <1>4. \A s \in Images : step'[s] = step[s]
    BY <1>0 DEF ChargeInv, C!TypeOK, C!BeginCancel
  <1>5. UNCHANGED <<event, charged>>
    BY DEF C!BeginCancel
  <1> QED BY <1>1, <1>2, <1>3, <1>4, <1>5, FreeStep

LEMMA WriteCancelCharge ==
  ASSUME ChargeInv, NEW j \in C!Jobs, C!WriteCancel(j)
  PROVE  ChargeInv'
  <1>0. j \in C!Steps /\ j \notin Images /\ j # NoJob /\ Images \subseteq C!Steps /\ C!Jobs \subseteq C!Steps
    BY CapFacts
  <1>1. C!TypeOK'
    BY <1>0, CapFacts DEF ChargeInv, C!TypeOK, C!Statuses, C!CallStates, C!WriteCancel, C!SetStatus
  <1>2. ASSUME NEW k \in C!Jobs PROVE UnsentOK(k)'
    <2>1. UnsentOK(k)
      BY DEF ChargeInv
    <2>2. CASE k # j
      <3>1. Spares(k)
        BY <1>0, <2>2 DEF Spares, ChargeInv, C!TypeOK, C!WriteCancel, C!SetStatus
      <3> QED BY <2>1, <3>1, SparedUnsent
    <2>3. CASE k = j
      BY <1>0, <2>1, <2>3 DEF UnsentOK, Unsent, ChargeInv, C!TypeOK, C!Statuses, C!CallStates, C!WriteCancel, C!SetStatus
    <2> QED BY <2>2, <2>3
  <1>3. \A w \in Pollers : poller'[w].at # "idle" => poller'[w].job \in C!Jobs
    BY DEF ChargeInv, C!TypeOK, C!WriteCancel, C!SetStatus
  <1>4. \A s \in Images : step'[s] = step[s]
    BY <1>0 DEF ChargeInv, C!TypeOK, C!WriteCancel, C!SetStatus
  <1>5. UNCHANGED <<event, charged>>
    BY DEF C!WriteCancel, C!SetStatus
  <1> QED BY <1>1, <1>2, <1>3, <1>4, <1>5, FreeStep

LEMMA SeeComposeCharge ==
  ASSUME ChargeInv, NEW v \in Pollers, NEW j \in C!Jobs, C!SeeCompose(v, j)
  PROVE  ChargeInv'
  <1>0. j \in C!Steps /\ j \notin Images /\ j # NoJob /\ Images \subseteq C!Steps /\ C!Jobs \subseteq C!Steps
    BY CapFacts
  <1>1. C!TypeOK'
    BY <1>0, CapFacts DEF ChargeInv, C!TypeOK, C!Statuses, C!CallStates, C!SeeCompose, C!Poll
  <1>2. ASSUME NEW k \in C!Jobs PROVE UnsentOK(k)'
    <2>1. UnsentOK(k)
      BY DEF ChargeInv
    <2>2. CASE k # j
      <3>1. Spares(k)
        BY <1>0, <2>2 DEF Spares, ChargeInv, C!TypeOK, C!SeeCompose, C!Poll
      <3> QED BY <2>1, <3>1, SparedUnsent
    <2>3. CASE k = j
      BY <1>0, <2>1, <2>3 DEF UnsentOK, Unsent, ChargeInv, C!TypeOK, C!Statuses, C!CallStates, C!SeeCompose, C!Poll
    <2> QED BY <2>2, <2>3
  <1>3. \A w \in Pollers : poller'[w].at # "idle" => poller'[w].job \in C!Jobs
    BY DEF ChargeInv, C!TypeOK, C!SeeCompose, C!Poll
  <1>4. \A s \in Images : step'[s] = step[s]
    BY <1>0 DEF ChargeInv, C!TypeOK, C!SeeCompose, C!Poll
  <1>5. UNCHANGED <<event, charged>>
    BY DEF C!SeeCompose, C!Poll
  <1> QED BY <1>1, <1>2, <1>3, <1>4, <1>5, FreeStep

LEMMA ClaimTransferCharge ==
  ASSUME ChargeInv, NEW v \in Pollers, NEW j \in C!Jobs, C!ClaimTransfer(v, j)
  PROVE  ChargeInv'
  <1>0. j \in C!Steps /\ j \notin Images /\ j # NoJob /\ Images \subseteq C!Steps /\ C!Jobs \subseteq C!Steps
    BY CapFacts
  <1>1. C!TypeOK'
    BY <1>0, CapFacts DEF ChargeInv, C!TypeOK, C!Statuses, C!CallStates, C!ClaimTransfer, C!Poll, C!SetStatus
  <1>2. ASSUME NEW k \in C!Jobs PROVE UnsentOK(k)'
    <2>1. UnsentOK(k)
      BY DEF ChargeInv
    <2>2. CASE k # j
      <3>1. Spares(k)
        BY <1>0, <2>2 DEF Spares, ChargeInv, C!TypeOK, C!ClaimTransfer, C!Poll, C!SetStatus
      <3> QED BY <2>1, <3>1, SparedUnsent
    <2>3. CASE k = j
      BY <1>0, <2>1, <2>3 DEF UnsentOK, Unsent, ChargeInv, C!TypeOK, C!Statuses, C!CallStates, C!ClaimTransfer, C!Poll, C!SetStatus
    <2> QED BY <2>2, <2>3
  <1>3. \A w \in Pollers : poller'[w].at # "idle" => poller'[w].job \in C!Jobs
    BY DEF ChargeInv, C!TypeOK, C!ClaimTransfer, C!Poll, C!SetStatus
  <1>4. \A s \in Images : step'[s] = step[s]
    BY <1>0 DEF ChargeInv, C!TypeOK, C!ClaimTransfer, C!Poll, C!SetStatus
  <1>5. UNCHANGED <<event, charged>>
    BY DEF C!ClaimTransfer, C!Poll, C!SetStatus
  <1> QED BY <1>1, <1>2, <1>3, <1>4, <1>5, FreeStep

LEMMA SetCapCharge ==
  ASSUME ChargeInv, C!SetCap
  PROVE  ChargeInv'
  <1>1. C!TypeOK'
    <2>1. hit' \in BOOLEAN /\ crossed' \in BOOLEAN
      BY Zenon DEF C!SetCap
    <2>2. request' \in 1 .. MaxRequests /\ sending' \in Nat /\ request' + sending' <= MaxRequests
      BY CapFacts DEF ChargeInv, C!TypeOK, C!SetCap
    <2> QED BY <2>1, <2>2 DEF ChargeInv, C!TypeOK, C!SetCap
  <1>2. \A k \in C!Jobs : UnsentOK(k)'
    BY DEF ChargeInv, UnsentOK, C!SetCap
  <1>3. \A w \in Pollers : poller'[w].at # "idle" => poller'[w].job \in C!Jobs
    BY DEF ChargeInv, C!SetCap
  <1>4. UNCHANGED <<event, charged>> /\ \A s \in Images : step'[s] = step[s]
    BY DEF C!SetCap
  <1> QED BY <1>1, <1>2, <1>3, <1>4, FreeStep

LEMMA BeginSendCharge ==
  ASSUME ChargeInv, C!BeginSend
  PROVE  ChargeInv'
  <1>1. C!TypeOK'
    BY CapFacts DEF ChargeInv, C!TypeOK, C!BeginSend
  <1>2. \A k \in C!Jobs : UnsentOK(k)'
    BY DEF ChargeInv, UnsentOK, C!BeginSend
  <1>3. \A w \in Pollers : poller'[w].at # "idle" => poller'[w].job \in C!Jobs
    BY DEF ChargeInv, C!BeginSend
  <1>4. UNCHANGED <<event, charged>> /\ \A s \in Images : step'[s] = step[s]
    BY DEF C!BeginSend
  <1> QED BY <1>1, <1>2, <1>3, <1>4, FreeStep

LEMMA CrashCharge ==
  ASSUME ChargeInv, NEW p \in Procs, C!Crash(p)
  PROVE  ChargeInv'
  <1>0. Images \subseteq C!Steps /\ C!Jobs \subseteq C!Steps
    BY CapFacts
  <1>a. ASSUME NEW s \in C!Steps
        PROVE  /\ step'[s] \in StepRow
               /\ step'[s] = step[s] \/ step'[s].at = "dead"
               /\ step[s].at \in {"new", "done"} => step'[s] = step[s]
    <2>1. step[s] \in StepRow
      BY CapTyped DEF ChargeInv
    <2>2. [step[s] EXCEPT !.at = "dead"] \in StepRow
      BY <2>1 DEF StepRow, C!CallStates
    <2>3. [step[s] EXCEPT !.at = "dead"].at = "dead"
      BY <2>1 DEF StepRow
    <2> QED BY <2>1, <2>2, <2>3 DEF C!Crash
  <1>1. C!TypeOK'
    <2>1. step' \in [C!Steps -> StepRow]
      BY <1>a DEF C!Crash
    <2> QED BY <2>1 DEF StepRow, ChargeInv, C!TypeOK, C!Crash
  <1>2. ASSUME NEW k \in C!Jobs PROVE UnsentOK(k)'
    <2>1. step'[k] = step[k] \/ step'[k].at = "dead"
      BY <1>a, <1>0
    <2> QED BY <2>1 DEF ChargeInv, UnsentOK, Unsent, C!Crash
  <1>3. \A w \in Pollers : poller'[w].at # "idle" => poller'[w].job \in C!Jobs
    BY DEF ChargeInv, C!Crash
  <1>4. UNCHANGED <<event, charged>>
    BY DEF C!Crash
  <1>5. \A s \in Images : step'[s] = step[s]
    BY <1>0, <1>a DEF ChargeInv
  <1> QED BY <1>1, <1>2, <1>3, <1>4, <1>5, FreeStep

\* What a poller does with the job in hand.
LEMMA InHand ==
  ASSUME ChargeInv, NEW v \in Pollers, poller[v].at # "idle"
  PROVE  /\ poller[v].job \in C!Jobs /\ poller[v].job \in C!Steps
         /\ step[poller[v].job].at \notin Unsent
  BY CapFacts DEF ChargeInv, UnsentOK

LEMMA TransferredCharge ==
  ASSUME ChargeInv, NEW v \in Pollers, C!Transferred(v)
  PROVE  ChargeInv'
  <1> DEFINE j == poller[v].job
  <1>0. j \in C!Jobs /\ j \in C!Steps /\ step[j].at \notin Unsent /\ step' = step
    BY InHand DEF C!Transferred, C!Poll
  <1>1. C!TypeOK'
    BY <1>0, CapFacts DEF ChargeInv, C!TypeOK, C!Statuses, C!CallStates, C!Transferred, C!Poll
  <1>2. ASSUME NEW k \in C!Jobs PROVE UnsentOK(k)'
    <2>1. UnsentOK(k)
      BY DEF ChargeInv
    <2>2. CASE k # j
      <3>1. Spares(k)
        BY <1>0, <2>2, CapFacts DEF Spares, ChargeInv, C!TypeOK, C!Transferred, C!Poll
      <3> QED BY <2>1, <3>1, SparedUnsent
    <2>3. CASE k = j
      BY <1>0, <2>3 DEF UnsentOK
    <2> QED BY <2>2, <2>3
  <1>3. \A w \in Pollers : poller'[w].at # "idle" => poller'[w].job \in C!Jobs
    BY <1>0 DEF ChargeInv, C!TypeOK, C!Transferred, C!Poll
  <1>5. UNCHANGED <<event, charged>>
    BY DEF C!Transferred, C!Poll
  <1> QED BY <1>0, <1>1, <1>2, <1>3, <1>5, FreeStep

LEMMA TransferFailedCharge ==
  ASSUME ChargeInv, NEW v \in Pollers, C!TransferFailed(v)
  PROVE  ChargeInv'
  <1> DEFINE j == poller[v].job
  <1>0. j \in C!Jobs /\ j \in C!Steps /\ step[j].at \notin Unsent /\ step' = step
    BY InHand DEF C!TransferFailed, C!SetStatus, C!Idle
  <1>1. C!TypeOK'
    BY <1>0, CapFacts DEF ChargeInv, C!TypeOK, C!Statuses, C!CallStates, C!TransferFailed, C!SetStatus, C!Idle
  <1>2. ASSUME NEW k \in C!Jobs PROVE UnsentOK(k)'
    <2>1. UnsentOK(k)
      BY DEF ChargeInv
    <2>2. CASE k # j
      <3>1. Spares(k)
        BY <1>0, <2>2, CapFacts DEF Spares, ChargeInv, C!TypeOK, C!TransferFailed, C!SetStatus, C!Idle
      <3> QED BY <2>1, <3>1, SparedUnsent
    <2>3. CASE k = j
      BY <1>0, <2>3 DEF UnsentOK
    <2> QED BY <2>2, <2>3
  <1>3. \A w \in Pollers : poller'[w].at # "idle" => poller'[w].job \in C!Jobs
    BY <1>0 DEF ChargeInv, C!TypeOK, C!TransferFailed, C!SetStatus, C!Idle
  <1>5. UNCHANGED <<event, charged>>
    BY DEF C!TransferFailed, C!SetStatus, C!Idle
  <1> QED BY <1>0, <1>1, <1>2, <1>3, <1>5, FreeStep

LEMMA CompleteCharge ==
  ASSUME ChargeInv, NEW v \in Pollers, C!Complete(v)
  PROVE  ChargeInv'
  <1> DEFINE j == poller[v].job
  <1>0. j \in C!Jobs /\ j \in C!Steps /\ step[j].at \notin Unsent /\ step' = step
    BY InHand DEF C!Complete, C!SetStatus, C!Idle
  <1>1. C!TypeOK'
    BY <1>0, CapFacts DEF ChargeInv, C!TypeOK, C!Statuses, C!CallStates, C!Complete, C!SetStatus, C!Idle
  <1>2. ASSUME NEW k \in C!Jobs PROVE UnsentOK(k)'
    <2>1. UnsentOK(k)
      BY DEF ChargeInv
    <2>2. CASE k # j
      <3>1. Spares(k)
        BY <1>0, <2>2, CapFacts DEF Spares, ChargeInv, C!TypeOK, C!Complete, C!SetStatus, C!Idle
      <3> QED BY <2>1, <3>1, SparedUnsent
    <2>3. CASE k = j
      BY <1>0, <2>3 DEF UnsentOK
    <2> QED BY <2>2, <2>3
  <1>3. \A w \in Pollers : poller'[w].at # "idle" => poller'[w].job \in C!Jobs
    BY <1>0 DEF ChargeInv, C!TypeOK, C!Complete, C!SetStatus, C!Idle
  <1>5. UNCHANGED <<event, charged>>
    BY DEF C!Complete, C!SetStatus, C!Idle
  <1> QED BY <1>0, <1>1, <1>2, <1>3, <1>5, FreeStep

LEMMA StillRunningCharge ==
  ASSUME ChargeInv, NEW v \in Pollers, C!StillRunning(v)
  PROVE  ChargeInv'
  <1> DEFINE j == poller[v].job
  <1>0. j \in C!Jobs /\ j \in C!Steps /\ step[j].at \notin Unsent /\ step' = step
    BY InHand DEF C!StillRunning, C!SetStatus, C!Idle
  <1>1. C!TypeOK'
    BY <1>0, CapFacts DEF ChargeInv, C!TypeOK, C!Statuses, C!CallStates, C!StillRunning, C!SetStatus, C!Idle
  <1>2. ASSUME NEW k \in C!Jobs PROVE UnsentOK(k)'
    <2>1. UnsentOK(k)
      BY DEF ChargeInv
    <2>2. CASE k # j
      <3>1. Spares(k)
        BY <1>0, <2>2, CapFacts DEF Spares, ChargeInv, C!TypeOK, C!StillRunning, C!SetStatus, C!Idle
      <3> QED BY <2>1, <3>1, SparedUnsent
    <2>3. CASE k = j
      BY <1>0, <2>3 DEF UnsentOK
    <2> QED BY <2>2, <2>3
  <1>3. \A w \in Pollers : poller'[w].at # "idle" => poller'[w].job \in C!Jobs
    BY <1>0 DEF ChargeInv, C!TypeOK, C!StillRunning, C!SetStatus, C!Idle
  <1>5. UNCHANGED <<event, charged>>
    BY DEF C!StillRunning, C!SetStatus, C!Idle
  <1> QED BY <1>0, <1>1, <1>2, <1>3, <1>5, FreeStep

LEMMA SettleFact ==
  ASSUME NEW s \in C!Steps, NEW n \in Nat, C!Settle(s, n)
  PROVE  UNCHANGED <<event, charged>> \/ Charges(s)
  BY DEF C!Settle, Charges

LEMMA JobSettled ==
  ASSUME ChargeInv, NEW v \in Pollers, C!SettleJob(v), NEW j \in C!Jobs, j = poller[v].job
  PROVE  UNCHANGED <<event, charged>> \/ Charges(j)
  <1>1. j \in C!Steps /\ Price[j] \in Nat /\ \A d \in 0 .. Overrun : Price[j] + d \in Nat
    BY CapFacts
  <1>2. UNCHANGED <<event, charged>> \/ \E d \in 0 .. Overrun : C!Settle(j, Price[j] + d)
    BY CapFacts DEF C!SettleJob
  <1> QED BY <1>1, <1>2, SettleFact

LEMMA SettleJobCharge ==
  ASSUME ChargeInv, NEW v \in Pollers, C!SettleJob(v)
  PROVE  ChargeInv'
  <1> DEFINE j == poller[v].job
  <1>0. j \in C!Jobs /\ j \in C!Steps /\ step[j].at \notin Unsent /\ j \notin Images
    BY InHand, CapFacts DEF C!SettleJob
  <1>1. UNCHANGED <<event, charged>> \/ Charges(j)
    BY <1>0, JobSettled
  <1>2. /\ poller' = [poller EXCEPT ![v] = [job |-> j, at |-> "settled"]]
        /\ UNCHANGED <<request, sending, crossed, hit, job, step, holder, cancelling,
                       failures, cancels>>
    BY DEF C!SettleJob, C!Poll
  <1>3. event' \in [C!Steps -> EventRow] /\ charged' \in Nat /\ C!ChargedOnce'
        /\ \A s \in C!Steps : s # j => event'[s] = event[s]
    <2>1. event \in [C!Steps -> EventRow] /\ charged \in Nat
      BY CapTyped DEF ChargeInv
    <2>2. CASE UNCHANGED <<event, charged>>
      BY <2>1, <2>2, OnceIsTotal DEF ChargeInv
    <2>3. CASE Charges(j)
      BY <1>0, <2>1, <2>3, ChargedStep DEF ChargeInv, Charges
    <2> QED BY <1>1, <2>2, <2>3
  <1> HIDE DEF j
  <1>4. C!TypeOK'
    BY <1>0, <1>2, <1>3 DEF EventRow, ChargeInv, C!TypeOK
  <1>5. ASSUME NEW k \in C!Jobs PROVE UnsentOK(k)'
    <2>1. UnsentOK(k)
      BY DEF ChargeInv
    <2>2. CASE k # j
      <3>1. Spares(k)
        BY <1>2, <1>3, <2>2, CapFacts DEF Spares, ChargeInv, C!TypeOK
      <3> QED BY <2>1, <3>1, SparedUnsent
    <2>3. CASE k = j
      BY <1>0, <1>2, <2>3 DEF UnsentOK
    <2> QED BY <2>2, <2>3
  <1>6. \A w \in Pollers : poller'[w].at # "idle" => poller'[w].job \in C!Jobs
    BY <1>0, <1>2 DEF ChargeInv, C!TypeOK
  <1>7. \A s \in Images : step'[s] = step[s] /\ event'[s] = event[s]
    BY <1>0, <1>2, <1>3, CapFacts
  <1>8. \A s \in C!Steps : event'[s].request = 0 => event'[s].credits = 0
    <2>1. \A s \in C!Steps : event[s].request = 0 => event[s].credits = 0
      BY DEF ChargeInv
    <2>2. CASE UNCHANGED <<event, charged>>
      BY <2>1, <2>2
    <2>3. CASE Charges(j)
      <3>1. event'[j].request = request /\ request # 0
        BY <1>0, <2>3, CapTyped, CapFacts DEF ChargeInv, Charges
      <3> QED BY <2>1, <3>1, <1>3
    <2> QED BY <1>1, <2>2, <2>3
  <1> QED BY <1>3, <1>4, <1>5, <1>6, <1>7, <1>8 DEF ChargeInv

LEMMA RunImageCharge ==
  ASSUME ChargeInv, NEW i \in Images, C!RunImage(i)
  PROVE  ChargeInv'
  <1>0. i \in C!Steps /\ i \notin C!Jobs
    BY CapFacts
  <1>1. event[i].request = 0 /\ Charges(i)
    <2>1. event[i].request = 0 /\ Price[i] \in Nat
      BY <1>0, CapFacts DEF ChargeInv, C!RunImage
    <2> QED BY <2>1 DEF C!RunImage, C!Settle, Charges
  <1>2. /\ step' = [step EXCEPT ![i].at = "done"]
        /\ UNCHANGED <<request, sending, crossed, hit, job, holder, poller, cancelling,
                       failures, cancels>>
    BY DEF C!RunImage, C!At
  <1>3. event' \in [C!Steps -> EventRow] /\ charged' \in Nat /\ C!ChargedOnce'
        /\ (\A s \in C!Steps : s # i => event'[s] = event[s]) /\ event'[i].request # 0
    <2>1. event \in [C!Steps -> EventRow] /\ request # 0
      BY CapTyped, CapFacts DEF ChargeInv
    <2>2. event' \in [C!Steps -> EventRow] /\ charged' \in Nat /\ C!ChargedOnce'
      BY <1>0, <1>1, ChargedStep DEF ChargeInv
    <2> QED BY <1>0, <1>1, <2>1, <2>2 DEF Charges
  <1>4. C!TypeOK'
    <2>1. step' \in [C!Steps -> StepRow]
      BY <1>0, <1>2 DEF ChargeInv, C!TypeOK, StepRow, C!CallStates
    <2> QED BY <1>2, <1>3, <2>1 DEF EventRow, StepRow, ChargeInv, C!TypeOK
  <1>5. ASSUME NEW k \in C!Jobs PROVE UnsentOK(k)'
    <2>1. UnsentOK(k)
      BY DEF ChargeInv
    <2>2. Spares(k)
      BY <1>0, <1>2, <1>3, CapFacts DEF Spares, ChargeInv, C!TypeOK
    <2> QED BY <2>1, <2>2, SparedUnsent
  <1>6. \A s \in Images : step'[s].at \in {"new", "done"} /\ (step'[s].at = "new" => event'[s].request = 0)
    <2> SUFFICES ASSUME NEW s \in Images
                 PROVE  step'[s].at \in {"new", "done"} /\ (step'[s].at = "new" => event'[s].request = 0)
      OBVIOUS
    <2>0. step[s].at \in {"new", "done"} /\ (step[s].at = "new" => event[s].request = 0)
      BY DEF ChargeInv
    <2>1. CASE s = i
      <3>1. step'[i].at = "done"
        BY <1>0, <1>2 DEF ChargeInv, C!TypeOK
      <3> QED BY <2>1, <3>1
    <2>2. CASE s # i
      <3>1. s \in C!Steps
        BY CapFacts
      <3>2. step'[s] = step[s] /\ event'[s] = event[s]
        BY <2>2, <3>1, <1>2, <1>3 DEF ChargeInv, C!TypeOK
      <3> QED BY <2>0, <3>2
    <2> QED BY <2>1, <2>2
  <1>7. \A s \in C!Steps : event'[s].request = 0 => event'[s].credits = 0
    BY <1>3 DEF ChargeInv
  <1> QED BY <1>2, <1>3, <1>4, <1>5, <1>6, <1>7 DEF ChargeInv

LEMMA ChargeInit == C!Init => ChargeInv
  <1> SUFFICES ASSUME C!Init PROVE ChargeInv
    OBVIOUS
  <1>1. (CHOOSE p \in Procs : TRUE) \in Procs
    BY CapFacts
  <1>2. C!TypeOK
    <2>0. hit \in BOOLEAN
      BY Zenon DEF C!Init
    <2>a. crossed \in BOOLEAN
      BY Zenon DEF C!Init
    <2>1. request \in 1 .. MaxRequests /\ charged \in Nat /\ cancelling \subseteq C!Jobs
          /\ sending \in Nat /\ request + sending <= MaxRequests
          /\ failures \in 0 .. MaxReclaims /\ cancels \in 0 .. MaxCancels
      BY CapFacts DEF C!Init
    <2>2. job \in [C!Jobs -> JobRow] /\ event \in [C!Steps -> EventRow]
      BY CapFacts DEF C!Init, JobRow, EventRow, C!Statuses
    <2>3. step \in [C!Steps -> StepRow]
      BY <1>1 DEF C!Init, StepRow, C!CallStates
    <2>4. holder \in [Procs -> C!Jobs \cup {NoJob}] /\ poller \in [Pollers -> PollerRow]
      BY DEF C!Init, PollerRow, C!Idle
    <2> QED BY <2>0, <2>a, <2>1, <2>2, <2>3, <2>4, CapTyped
  <1>3. C!ChargedOnce
    <2> DEFINE w == CreditsOf(event)
    <2>1. Weights(w, C!Steps) /\ \A s \in C!Steps : w[s] = 0
      BY DEF Weights, CreditsOf, C!Init
    <2> HIDE DEF w
    <2>2. Total(w, C!Steps) = 0
      <3> DEFINE z == [s \in {} |-> 0]
      <3>1. {} \in SUBSET C!Steps /\ Weights(z, {})
        BY DEF Weights
      <3>2. Total(w, C!Steps) = Total(z, {})
        <4> HIDE DEF z
        <4> QED BY <2>1, <3>1, CapFacts, TotalWithin
      <3>3. Total(z, {}) = 0
        <4> HIDE DEF z
        <4> QED BY <3>1, FS_EmptySet, TotalFirst
      <3> QED BY <3>2, <3>3
    <2> QED BY <2>2, OnceIsTotal DEF C!Init, w
  <1>4. \A j \in C!Jobs : UnsentOK(j)
    BY CapFacts DEF UnsentOK, C!Init, C!Idle
  <1>5. \A s \in Images : step[s].at = "new" /\ event[s].request = 0
    BY CapFacts DEF C!Init
  <1> QED BY <1>2, <1>3, <1>4, <1>5 DEF ChargeInv, C!Init, C!Idle

LEMMA ChargeInductive ==
  ASSUME ChargeInv, C!Next \/ UNCHANGED capVars
  PROVE  ChargeInv'
  <1>1. CASE UNCHANGED capVars
    <2>1. \A j \in C!Jobs : UnsentOK(j)'
      BY <1>1 DEF capVars, ChargeInv, UnsentOK
    <2>2. C!TypeOK'
      BY <1>1 DEF capVars, ChargeInv, C!TypeOK
    <2>3. UNCHANGED <<event, charged, poller, step>>
      BY <1>1 DEF capVars
    <2> QED BY <2>1, <2>2, <2>3, FreeStep DEF ChargeInv
  <1>2. CASE C!Next
    BY <1>2, BeginSendCharge, SetCapCharge, SubmitCharge, AcquireCharge, AdmitCharge, RefuseCharge, WriteRowCharge,
       DispatchCharge, ProviderFailedCharge, ReclaimStaleCharge, StopTransferCharge,
       BeginCancelCharge, WriteCancelCharge, RunImageCharge, SeeComposeCharge,
       ClaimTransferCharge, TransferredCharge, TransferFailedCharge, SettleJobCharge,
       CompleteCharge, StillRunningCharge, CrashCharge DEF C!Next
  <1> QED BY <1>1, <1>2

-----------------------------------------------------------------------------
(* The cap of a request, where nothing fails.                               *)

\* No transfer has failed, nothing was cancelled, no image was made, and one
\* poller is at work.
CapWorld ==
  /\ failures = 0 /\ cancels = 0 /\ cancelling = {}
  /\ \A s \in Images : step[s].at = "new"
  /\ \A w \in Pollers \ {w1} : poller[w] = C!Idle

Open == {"submitting", "in_progress", "finalizing"}

\* What a job's row says of its call: before the row is written it has no quote,
\* afterwards that of the guard; it is charged in its own request or a later one.
JobOK(k) ==
  /\ job[k].status \in Open \cup {"none", "completed", "failed"}
  /\ job[k].since <= request
  /\ job[k].status = "none" => job[k].since = 0
  /\ job[k].status \in {"in_progress", "finalizing", "completed"} => job[k].quote = Price[k]
  /\ step[k].at = "new" => job[k].status = "none"
  /\ step[k].at \in {"waiting", "guarding", "admitted"} =>
       IF k \in Composes THEN job[k].status = "submitting" /\ job[k].quote = 0
                         ELSE job[k].status = "none"
  /\ step[k].at = "written" => /\ job[k].status = "submitting" /\ job[k].quote = Price[k]
                               /\ event[k].request = 0
  /\ step[k].at # "new" => step[k].proc = p1
  /\ event[k].request # 0 => /\ job[k].since <= event[k].request /\ event[k].request <= request
                             /\ event[k].credits = Price[k]
  /\ \A w \in Pollers : poller[w].job = k => job[k].status \in {"in_progress", "finalizing"}

\* The process's lock: at most one call is between its guard and its row.
Locked == \A j \in C!Jobs : step[j].at \in {"guarding", "admitted"} => holder[p1] = j

\* What the request costs, with what was admitted and is not written yet.
Budget ==
  /\ C!Cost <= Limit
  /\ \A j \in C!Jobs : step[j].at = "admitted" => C!Cost + Price[j] <= Limit

CapInv == CapWorld /\ (\A j \in C!Jobs : JobOK(j)) /\ Locked /\ Budget

\* Each step's share of what the guard reads and of what the request costs.
CostOf == [s \in C!Steps |-> IF C!OfRequest(s) THEN C!Liability(s) ELSE 0]
SettledOf == [s \in C!Steps |-> IF event[s].request = request THEN event[s].credits ELSE 0]
Owed(s, rest) == /\ s \in rest /\ job[s].since = request
                     /\ job[s].status \notin C!FailedJobStatuses /\ event[s].request = 0
FlightOf(rest) == [s \in C!Steps |-> IF Owed(s, rest) THEN job[s].quote ELSE 0]

LEMMA PartOfSteps ==
  ASSUME NEW R \in SUBSET C!Steps, NEW f, DOMAIN f = R, Weights(f, R), NEW v,
         \A x \in C!Steps : v[x] = IF x \in R THEN f[x] ELSE 0
  PROVE  C!SumFunction(f) = Total(v, C!Steps)
  <1>1. Total(v, C!Steps) = Total(f, R)
    BY CapFacts, TotalWithin
  <1>2. C!SumFunction(f) = Total(f, DOMAIN f)
    BY CapSum
  <1> QED BY <1>1, <1>2

LEMMA LiabilityFact ==
  ASSUME C!TypeOK, NEW s \in C!Steps
  PROVE  C!Liability(s) \in Nat
  BY CapTyped DEF C!Liability, JobRow, EventRow

LEMMA CostTotal ==
  ASSUME C!TypeOK
  PROVE  C!Cost = Total(CostOf, C!Steps) /\ Weights(CostOf, C!Steps) /\ C!Cost \in Nat
  <1> DEFINE R == {t \in C!Steps : C!OfRequest(t)}
             f == [s \in R |-> C!Liability(s)]
  <1>1. \A s \in C!Steps : C!Liability(s) \in Nat
    BY LiabilityFact
  <1>2. R \in SUBSET C!Steps /\ DOMAIN f = R /\ Weights(f, R) /\ Weights(CostOf, C!Steps)
    BY <1>1 DEF Weights, CostOf
  <1>3. \A x \in C!Steps : CostOf[x] = IF x \in R THEN f[x] ELSE 0
    BY DEF CostOf
  <1>4. C!Cost = C!SumFunction(f)
    BY DEF C!Cost
  <1> HIDE DEF R, f
  <1>5. C!Cost = Total(CostOf, C!Steps)
    BY <1>2, <1>3, <1>4, PartOfSteps
  <1>6. Total(CostOf, C!Steps) \in Nat
    BY <1>2, CapFacts, TotalFirst
  <1> QED BY <1>2, <1>5, <1>6

LEMMA CostAfter ==
  ASSUME C!TypeOK'
  PROVE  /\ C!Cost' = Total(CostOf', C!Steps) /\ Weights(CostOf', C!Steps) /\ C!Cost' \in Nat
  <1> DEFINE R == {t \in C!Steps : C!OfRequest(t)'}
             f == [s \in R |-> C!Liability(s)']
  <1>1. \A s \in C!Steps : C!Liability(s)' \in Nat
    BY DEF C!TypeOK, C!Liability
  <1>2. R \in SUBSET C!Steps /\ DOMAIN f = R /\ Weights(f, R) /\ Weights(CostOf', C!Steps)
    BY <1>1 DEF Weights, CostOf
  <1>3. \A x \in C!Steps : CostOf'[x] = IF x \in R THEN f[x] ELSE 0
    BY DEF CostOf
  <1>4. C!Cost' = C!SumFunction(f)
    BY DEF C!Cost
  <1> HIDE DEF R, f
  <1>5. C!Cost' = Total(CostOf', C!Steps)
    BY <1>2, <1>3, <1>4, PartOfSteps
  <1>6. Total(CostOf', C!Steps) \in Nat
    BY <1>2, CapFacts, TotalFirst
  <1> QED BY <1>2, <1>5, <1>6

LEMMA SpentTotal ==
  ASSUME C!TypeOK, NEW E
  PROVE  /\ C!Spent(E) = Total(SettledOf, C!Steps) + Total(FlightOf(C!Jobs \ E), C!Steps)
         /\ Weights(SettledOf, C!Steps) /\ Weights(FlightOf(C!Jobs \ E), C!Steps)
  <1>0. event \in [C!Steps -> EventRow] /\ job \in [C!Jobs -> JobRow] /\ C!Jobs \subseteq C!Steps
    BY CapTyped, CapFacts
  <1>1. C!Settled = Total(SettledOf, C!Steps) /\ Weights(SettledOf, C!Steps)
    <2> DEFINE R == {t \in C!Steps : event[t].request = request}
               f == [s \in R |-> event[s].credits]
    <2>1. \A s \in C!Steps : event[s].credits \in Nat
      BY <1>0 DEF EventRow
    <2>2. R \in SUBSET C!Steps /\ DOMAIN f = R /\ Weights(f, R) /\ Weights(SettledOf, C!Steps)
      BY <2>1 DEF Weights, SettledOf
    <2>3. \A x \in C!Steps : SettledOf[x] = IF x \in R THEN f[x] ELSE 0
      BY DEF SettledOf
    <2>4. C!Settled = C!SumFunction(f)
      BY DEF C!Settled
    <2> HIDE DEF R, f
    <2> QED BY <2>2, <2>3, <2>4, PartOfSteps
  <1>2. C!InFlight(E) = Total(FlightOf(C!Jobs \ E), C!Steps) /\ Weights(FlightOf(C!Jobs \ E), C!Steps)
    <2> DEFINE R == {k \in C!Jobs \ E : /\ job[k].since = request
                                        /\ job[k].status \notin C!FailedJobStatuses
                                        /\ event[k].request = 0}
               f == [s \in R |-> job[s].quote]
               v == FlightOf(C!Jobs \ E)
    <2>1. \A s \in C!Jobs : job[s].quote \in Nat
      BY <1>0 DEF JobRow
    <2>2. R \in SUBSET C!Steps /\ R \in SUBSET C!Jobs /\ DOMAIN f = R
      BY <1>0
    <2>3. Weights(f, R)
      BY <2>1, <2>2 DEF Weights
    <2>4. \A x \in C!Steps : v[x] = IF x \in R THEN f[x] ELSE 0
      BY DEF FlightOf, Owed
    <2>5. C!InFlight(E) = C!SumFunction(f)
      BY DEF C!InFlight
    <2> HIDE DEF R, f, v
    <2>6. Weights(v, C!Steps)
      BY <2>2, <2>3, <2>4 DEF Weights
    <2>7. C!InFlight(E) = Total(v, C!Steps)
      BY <2>2, <2>3, <2>4, <2>5, PartOfSteps
    <2> QED BY <2>6, <2>7 DEF v
  <1> QED BY <1>1, <1>2 DEF C!Spent

\* A job that is open is of the present request and was charged in its own.
OwnOK(k) == /\ job[k].status \in Open => job[k].since = request
            /\ event[k].request # 0 => event[k].request = job[k].since

\* What the guard reads covers what the request costs, if what it leaves out has no
\* quote yet; it is exactly that if every job was charged in its own request.
LEMMA SpentCovers ==
  ASSUME ChargeInv, CapWorld, \A j \in C!Jobs : JobOK(j), NEW E,
         \A j \in C!Jobs \cap E : job[j].status = "none" \/ job[j].quote = 0
  PROVE  /\ C!Cost <= C!Spent(E) /\ C!Spent(E) \in Nat
         /\ (\A j \in C!Jobs : OwnOK(j)) => C!Spent(E) = C!Cost
  <1> DEFINE v == FlightOf(C!Jobs \ E)
             u == [s \in C!Steps |-> SettledOf[s] + v[s]]
  <1>0. C!TypeOK
    BY DEF ChargeInv
  <1>1. ASSUME NEW s \in C!Steps
        PROVE  /\ CostOf[s] <= SettledOf[s] + v[s]
               /\ (s \in C!Jobs /\ ~OwnOK(s)) \/ CostOf[s] = SettledOf[s] + v[s]
    <2>1. CASE s \notin C!Jobs
      <3>1. s \in Images
        BY <2>1, CapFacts
      <3>2. event[s].request = 0 /\ request # 0
        BY <3>1, <1>0, CapTyped, CapFacts DEF ChargeInv, CapWorld
      <3> QED BY <2>1, <3>2 DEF CostOf, SettledOf, FlightOf, Owed, C!OfRequest
    <2>2. CASE s \in C!Jobs
      <3>0. /\ JobOK(s) /\ request # 0 /\ request \in Nat /\ event[s].credits \in Nat
            /\ job[s].quote \in Nat /\ job[s].since \in Nat /\ event[s].request \in Nat
        BY <2>2, <1>0, CapTyped, CapFacts DEF JobRow, EventRow
      <3>1. CASE event[s].request # 0
        <4>1. v[s] = 0
          BY <2>2, <3>1 DEF FlightOf, Owed
        <4>2. CostOf[s] = IF job[s].since = request THEN event[s].credits ELSE 0
          BY <2>2, <3>1 DEF CostOf, C!OfRequest, C!Liability
        <4>3. SettledOf[s] = IF event[s].request = request THEN event[s].credits ELSE 0
          BY <2>2 DEF SettledOf
        <4>4. /\ job[s].since = request => event[s].request = request
              /\ OwnOK(s) => event[s].request = job[s].since
          BY <3>0, <3>1 DEF JobOK, OwnOK
        <4> HIDE DEF v
        <4> QED BY <2>2, <3>0, <4>1, <4>2, <4>3, <4>4
      <3>2. CASE event[s].request = 0
        <4>1. SettledOf[s] = 0
          BY <3>0, <3>2 DEF SettledOf
        <4>2. CASE job[s].since # request
          BY <2>2, <3>2, <4>1, <4>2 DEF CostOf, FlightOf, Owed, C!OfRequest
        <4>3. CASE job[s].since = request
          <5>1. job[s].status # "none"
            BY <3>0, <4>3 DEF JobOK
          <5>2. CostOf[s] = IF job[s].status = "failed" THEN 0 ELSE job[s].quote
            BY <2>2, <3>0, <3>2, <4>3, <5>1
               DEF CostOf, C!OfRequest, C!Liability, JobOK, Open, C!VideoJobInFlight
          <5>3. v[s] = IF s \in E \/ job[s].status = "failed" THEN 0 ELSE job[s].quote
            BY <2>2, <3>0, <3>2, <4>3, <5>1
               DEF FlightOf, Owed, JobOK, Open, C!FailedJobStatuses
          <5>4. s \in E => job[s].quote = 0
            BY <2>2, <5>1
          <5> HIDE DEF v
          <5> QED BY <3>0, <4>1, <5>2, <5>3, <5>4
        <4> QED BY <4>2, <4>3
      <3> QED BY <3>1, <3>2
    <2> QED BY <2>1, <2>2
  <1>2. /\ C!Spent(E) = Total(SettledOf, C!Steps) + Total(v, C!Steps)
        /\ Weights(SettledOf, C!Steps) /\ Weights(v, C!Steps)
    BY <1>0, SpentTotal
  <1>3. C!Cost = Total(CostOf, C!Steps) /\ Weights(CostOf, C!Steps)
    BY <1>0, CostTotal
  <1> HIDE DEF v
  <1>4. Weights(u, C!Steps) /\ \A s \in C!Steps : u[s] = SettledOf[s] + v[s]
    BY <1>2 DEF Weights
  <1> HIDE DEF u
  <1>5. Total(u, C!Steps) = Total(SettledOf, C!Steps) + Total(v, C!Steps) /\ Total(u, C!Steps) \in Nat
    BY <1>2, <1>4, CapFacts, TotalPlus, TotalFirst
  <1>6. Total(CostOf, C!Steps) <= Total(u, C!Steps)
    <2> DEFINE w == CostOf
    <2>1. Weights(w, C!Steps) /\ \A s \in C!Steps : w[s] <= u[s]
      BY <1>1, <1>3, <1>4
    <2> HIDE DEF w
    <2>2. Total(w, C!Steps) <= Total(u, C!Steps)
      BY <1>4, <2>1, CapFacts, TotalLess
    <2> QED BY <2>2 DEF w
  <1>7. ASSUME \A j \in C!Jobs : OwnOK(j) PROVE C!Spent(E) = C!Cost
    <2>1. \A s \in C!Steps : CostOf[s] = SettledOf[s] + v[s]
      BY <1>1, <1>7
    <2>2. Total(CostOf, C!Steps) = Total(SettledOf, C!Steps) + Total(v, C!Steps)
      BY <1>2, <2>1, CapFacts, TotalPlus
    <2> QED BY <1>2, <1>3, <2>2
  <1> QED BY <1>2, <1>3, <1>5, <1>6, <1>7

\* What the frame keeps.
LEMMA SparedJob == ASSUME NEW k, JobOK(k), Spares(k), request' = request PROVE JobOK(k)'
  BY DEF JobOK, Spares

LEMMA SparedCost ==
  ASSUME NEW k \in C!Steps, event'[k] = event[k], job'[k] = job[k], request' = request
  PROVE  CostOf'[k] = CostOf[k]
  BY DEF CostOf, C!OfRequest, C!Liability

LEMMA ImageCost ==
  ASSUME ChargeInv, ChargeInv', CapWorld, CapWorld', NEW i \in Images
  PROVE  CostOf[i] = 0 /\ CostOf'[i] = 0
  <1>1. i \in C!Steps /\ i \notin C!Jobs
    BY CapFacts
  <1>2. event[i].request = 0 /\ event'[i].request = 0
    BY DEF ChargeInv, CapWorld
  <1>3. request # 0 /\ request' # 0
    BY CapFacts DEF ChargeInv, C!TypeOK
  <1> QED BY <1>1, <1>2, <1>3 DEF CostOf, C!OfRequest

\* The request never costs more than before if no job does.
LEMMA CostLess ==
  ASSUME ChargeInv, ChargeInv', CapWorld, CapWorld', \A k \in C!Jobs : CostOf'[k] <= CostOf[k]
  PROVE  C!Cost' <= C!Cost /\ C!Cost \in Nat /\ C!Cost' \in Nat
  <1>1. /\ C!Cost = Total(CostOf, C!Steps) /\ Weights(CostOf, C!Steps) /\ C!Cost \in Nat
        /\ C!Cost' = Total(CostOf', C!Steps) /\ Weights(CostOf', C!Steps) /\ C!Cost' \in Nat
    BY CostTotal, CostAfter DEF ChargeInv
  <1>2. \A s \in C!Steps : CostOf'[s] <= CostOf[s]
    BY ImageCost, CapFacts
  <1>3. Total(CostOf', C!Steps) <= Total(CostOf, C!Steps)
    <2> DEFINE w == CostOf
               v == CostOf'
    <2>1. Weights(w, C!Steps) /\ Weights(v, C!Steps) /\ \A s \in C!Steps : v[s] <= w[s]
      BY <1>1, <1>2
    <2> HIDE DEF w, v
    <2>2. Total(v, C!Steps) <= Total(w, C!Steps)
      BY <2>1, CapFacts, TotalLess
    <2> QED BY <2>2 DEF w, v
  <1> QED BY <1>1, <1>3

\* A step on one job that admits nothing.
LEMMA OneJobStep ==
  ASSUME ChargeInv, ChargeInv', CapInv, CapWorld', request' = request, NEW j \in C!Jobs,
         \A k \in C!Jobs \ {j} : Spares(k), JobOK(j)', CostOf'[j] <= CostOf[j], Locked',
         \A k \in C!Jobs : step'[k].at = "admitted" => step[k].at = "admitted"
  PROVE  CapInv'
  <1>1. \A k \in C!Jobs : JobOK(k)'
    BY SparedJob DEF CapInv
  <1>2. ASSUME NEW k \in C!Jobs PROVE CostOf'[k] <= CostOf[k]
    <2>1. CASE k = j
      BY <2>1
    <2>2. CASE k # j
      <3>1. k \in C!Steps /\ Spares(k)
        BY <2>2, CapFacts
      <3>2. CostOf'[k] = CostOf[k]
        BY <3>1, SparedCost DEF Spares
      <3>3. CostOf[k] \in Nat
        BY <3>1, CostTotal DEF ChargeInv, Weights
      <3> QED BY <3>2, <3>3
    <2> QED BY <2>1, <2>2
  <1>3. C!Cost' <= C!Cost /\ C!Cost \in Nat /\ C!Cost' \in Nat
    BY <1>2, CostLess DEF CapInv
  <1>4. Budget'
    <2>1. C!Cost' <= Limit
      BY <1>3, CapFacts DEF CapInv, Budget
    <2>2. ASSUME NEW k \in C!Jobs, step'[k].at = "admitted" PROVE C!Cost' + Price[k] <= Limit
      <3>1. C!Cost + Price[k] <= Limit /\ Price[k] \in Nat
        BY <2>2, CapFacts DEF CapInv, Budget
      <3> QED BY <1>3, <3>1, CapFacts
    <2> QED BY <2>1, <2>2 DEF Budget
  <1> QED BY <1>1, <1>4 DEF CapInv

\* Faults are all that would leave the world.
LEMMA WorldKept ==
  ASSUME ChargeInv, CapWorld, C!Next, NoFault
  PROVE  /\ CapWorld' /\ cancels' = 0 /\ failures' = 0
         /\ \A s \in C!Jobs : /\ step'[s].at # "new" => step'[s].proc = p1
                              /\ event'[s].request # 0 => event'[s].credits = Price[s]
  <1>1. cancelling' = {}
    <2>1. ASSUME NEW j \in C!Jobs, C!BeginCancel(j) PROVE FALSE
      BY <2>1 DEF C!BeginCancel, CapWorld, NoFault
    <2>2. ASSUME NEW j \in C!Jobs, C!WriteCancel(j) PROVE FALSE
      BY <2>2 DEF C!WriteCancel, CapWorld
    <2>3. UNCHANGED cancelling
      BY <2>1, <2>2 DEF C!Next, C!SetCap, C!Submit, C!Acquire, C!Admit, C!Refuse, C!WriteRow,
         C!Dispatch, C!ProviderFailed, C!ReclaimStale, C!StopTransfer, C!RunImage, C!SeeCompose,
         C!ClaimTransfer, C!Transferred, C!TransferFailed, C!SettleJob, C!Complete, C!Crash,
         C!BeginSend, C!StillRunning
    <2> QED BY <2>3 DEF CapWorld
  <1> QED BY <1>1 DEF NoFault, CapWorld

\* The jobs' rows and calls, one by one.
LEMMA RowFacts ==
  ASSUME ChargeInv, NEW k \in C!Jobs
  PROVE  /\ k \in C!Steps /\ k # NoJob /\ job[k] \in JobRow /\ step[k] \in StepRow
         /\ event[k] \in EventRow /\ job[k].quote \in Nat /\ job[k].since \in Nat
         /\ event[k].request \in Nat /\ event[k].credits \in Nat /\ step[k].proc \in Procs
         /\ Price[k] \in Nat /\ request \in Nat /\ request # 0
  BY CapTyped, CapFacts DEF ChargeInv, JobRow, StepRow, EventRow

CapStep == ChargeInv /\ ChargeInv' /\ CapInv /\ CapWorld' /\ NoFault

LEMMA SubmitCap ==
  ASSUME CapStep, NEW j \in C!Jobs, NEW p \in Procs, C!Submit(j, p)
  PROVE  CapInv'
  <1>0. /\ ChargeInv /\ ChargeInv' /\ CapInv /\ CapWorld' /\ JobOK(j) /\ UnsentOK(j) /\ C!TypeOK
        /\ request' = request /\ event' = event
        /\ (step'[j].at # "new" => step'[j].proc = p1)
    BY DEF CapStep, CapInv, ChargeInv, NoFault, C!Submit
  <1>a. /\ j \in C!Steps /\ j # NoJob /\ job[j] \in JobRow /\ step[j] \in StepRow
        /\ job[j].quote \in Nat /\ Price[j] \in Nat /\ request \in Nat /\ request # 0
        /\ job[j].since \in Nat /\ event[j].credits \in Nat
    BY <1>0, RowFacts
  <1>1. ASSUME NEW k \in C!Jobs \ {j} PROVE Spares(k)
    BY <1>0, <1>a, RowFacts DEF Spares, C!TypeOK, C!Submit
  <1>2. JobOK(j)'
    BY <1>0, <1>a DEF JobOK, UnsentOK, Unsent, Open, C!TypeOK, JobRow, StepRow, C!Submit
  <1>3. CostOf'[j] <= CostOf[j]
    BY <1>0, <1>a DEF CostOf, C!OfRequest, C!Liability, C!VideoJobInFlight, JobOK, UnsentOK, Unsent,
                      Open, C!TypeOK, JobRow, C!Submit
  <1>4. Locked'
    BY <1>0, <1>1, <1>a DEF Locked, CapInv, JobOK, Spares, C!TypeOK, StepRow, C!Submit
  <1>5. \A k \in C!Jobs : step'[k].at = "admitted" => step[k].at = "admitted"
    BY <1>0, <1>1, <1>a DEF Spares, C!TypeOK, StepRow, C!Submit
  <1> QED BY <1>0, <1>1, <1>2, <1>3, <1>4, <1>5, OneJobStep

LEMMA AcquireCap ==
  ASSUME CapStep, NEW j \in C!Jobs, C!Acquire(j)
  PROVE  CapInv'
  <1>0. /\ ChargeInv /\ ChargeInv' /\ CapInv /\ CapWorld' /\ JobOK(j) /\ UnsentOK(j) /\ C!TypeOK
        /\ request' = request /\ event' = event
        /\ (step'[j].at # "new" => step'[j].proc = p1)
    BY DEF CapStep, CapInv, ChargeInv, NoFault, C!Acquire, C!At
  <1>a. /\ j \in C!Steps /\ j # NoJob /\ job[j] \in JobRow /\ step[j] \in StepRow
        /\ job[j].quote \in Nat /\ Price[j] \in Nat /\ request \in Nat /\ request # 0
        /\ job[j].since \in Nat /\ event[j].credits \in Nat
    BY <1>0, RowFacts
  <1>1. ASSUME NEW k \in C!Jobs \ {j} PROVE Spares(k)
    BY <1>0, <1>a, RowFacts DEF Spares, C!TypeOK, C!Acquire, C!At
  <1>2. JobOK(j)'
    BY <1>0, <1>a DEF JobOK, UnsentOK, Unsent, Open, C!TypeOK, JobRow, StepRow, C!Acquire, C!At
  <1>3. CostOf'[j] <= CostOf[j]
    BY <1>0, <1>a DEF CostOf, C!OfRequest, C!Liability, C!VideoJobInFlight, JobOK, UnsentOK, Unsent,
                      Open, C!TypeOK, JobRow, C!Acquire, C!At
  <1>4. Locked'
    <2>1. step[j].proc = p1 /\ p1 \in Procs /\ holder[p1] = NoJob /\ holder'[p1] = j
      BY <1>0, <1>a DEF JobOK, StepRow, C!TypeOK, C!Acquire
    <2>2. ASSUME NEW k \in C!Jobs, step'[k].at \in {"guarding", "admitted"} PROVE k = j
      <3>1. CASE k # j
        <4>1. step[k].at \in {"guarding", "admitted"} /\ k # NoJob
          BY <1>1, <2>2, <3>1, <1>0, RowFacts DEF Spares
        <4>2. holder[p1] = k
          BY <4>1, <1>0 DEF CapInv, Locked
        <4> QED BY <2>1, <4>1, <4>2
      <3> QED BY <3>1
    <2> QED BY <2>1, <2>2 DEF Locked
  <1>5. \A k \in C!Jobs : step'[k].at = "admitted" => step[k].at = "admitted"
    BY <1>0, <1>1, <1>a DEF Spares, C!TypeOK, StepRow, C!Acquire, C!At
  <1> QED BY <1>0, <1>1, <1>2, <1>3, <1>4, <1>5, OneJobStep

LEMMA RefuseCap ==
  ASSUME CapStep, NEW j \in C!Jobs, C!Refuse(j)
  PROVE  CapInv'
  <1>0. /\ ChargeInv /\ ChargeInv' /\ CapInv /\ CapWorld' /\ JobOK(j) /\ UnsentOK(j) /\ C!TypeOK
        /\ request' = request /\ event' = event
        /\ (step'[j].at # "new" => step'[j].proc = p1)
    BY DEF CapStep, CapInv, ChargeInv, NoFault, C!Refuse, C!At, C!SetStatus
  <1>a. /\ j \in C!Steps /\ j # NoJob /\ job[j] \in JobRow /\ step[j] \in StepRow
        /\ job[j].quote \in Nat /\ Price[j] \in Nat /\ request \in Nat /\ request # 0
        /\ job[j].since \in Nat /\ event[j].credits \in Nat
    BY <1>0, RowFacts
  <1>1. ASSUME NEW k \in C!Jobs \ {j} PROVE Spares(k)
    BY <1>0, <1>a, RowFacts DEF Spares, C!TypeOK, C!Refuse, C!At, C!SetStatus
  <1>2. JobOK(j)'
    BY <1>0, <1>a DEF JobOK, UnsentOK, Unsent, Open, C!TypeOK, JobRow, StepRow, C!Refuse, C!At, C!SetStatus
  <1>3. CostOf'[j] <= CostOf[j]
    BY <1>0, <1>a DEF CostOf, C!OfRequest, C!Liability, C!VideoJobInFlight, JobOK, UnsentOK, Unsent,
                      Open, C!TypeOK, JobRow, C!Refuse, C!At, C!SetStatus
  <1>4. Locked'
    BY <1>0, <1>1, <1>a DEF Locked, CapInv, JobOK, Spares, C!TypeOK, StepRow, C!Refuse, C!At, C!SetStatus
  <1>5. \A k \in C!Jobs : step'[k].at = "admitted" => step[k].at = "admitted"
    BY <1>0, <1>1, <1>a DEF Spares, C!TypeOK, StepRow, C!Refuse, C!At, C!SetStatus
  <1> QED BY <1>0, <1>1, <1>2, <1>3, <1>4, <1>5, OneJobStep

LEMMA DispatchCap ==
  ASSUME CapStep, NEW j \in C!Jobs, C!Dispatch(j)
  PROVE  CapInv'
  <1>0. /\ ChargeInv /\ ChargeInv' /\ CapInv /\ CapWorld' /\ JobOK(j) /\ UnsentOK(j) /\ C!TypeOK
        /\ request' = request /\ event' = event
        /\ (step'[j].at # "new" => step'[j].proc = p1)
    BY DEF CapStep, CapInv, ChargeInv, NoFault, C!Dispatch, C!At, C!SetStatus
  <1>a. /\ j \in C!Steps /\ j # NoJob /\ job[j] \in JobRow /\ step[j] \in StepRow
        /\ job[j].quote \in Nat /\ Price[j] \in Nat /\ request \in Nat /\ request # 0
        /\ job[j].since \in Nat /\ event[j].credits \in Nat
    BY <1>0, RowFacts
  <1>1. ASSUME NEW k \in C!Jobs \ {j} PROVE Spares(k)
    BY <1>0, <1>a, RowFacts DEF Spares, C!TypeOK, C!Dispatch, C!At, C!SetStatus
  <1>2. JobOK(j)'
    BY <1>0, <1>a DEF JobOK, UnsentOK, Unsent, Open, C!TypeOK, JobRow, StepRow, C!Dispatch, C!At, C!SetStatus
  <1>3. CostOf'[j] <= CostOf[j]
    BY <1>0, <1>a DEF CostOf, C!OfRequest, C!Liability, C!VideoJobInFlight, JobOK, UnsentOK, Unsent,
                      Open, C!TypeOK, JobRow, C!Dispatch, C!At, C!SetStatus
  <1>4. Locked'
    BY <1>0, <1>1, <1>a DEF Locked, CapInv, JobOK, Spares, C!TypeOK, StepRow, C!Dispatch, C!At, C!SetStatus
  <1>5. \A k \in C!Jobs : step'[k].at = "admitted" => step[k].at = "admitted"
    BY <1>0, <1>1, <1>a DEF Spares, C!TypeOK, StepRow, C!Dispatch, C!At, C!SetStatus
  <1> QED BY <1>0, <1>1, <1>2, <1>3, <1>4, <1>5, OneJobStep

LEMMA ProviderFailedCap ==
  ASSUME CapStep, NEW j \in C!Jobs, C!ProviderFailed(j)
  PROVE  CapInv'
  <1>0. /\ ChargeInv /\ ChargeInv' /\ CapInv /\ CapWorld' /\ JobOK(j) /\ UnsentOK(j) /\ C!TypeOK
        /\ request' = request /\ event' = event
        /\ (step'[j].at # "new" => step'[j].proc = p1)
    BY DEF CapStep, CapInv, ChargeInv, NoFault, C!ProviderFailed, C!SetStatus
  <1>a. /\ j \in C!Steps /\ j # NoJob /\ job[j] \in JobRow /\ step[j] \in StepRow
        /\ job[j].quote \in Nat /\ Price[j] \in Nat /\ request \in Nat /\ request # 0
        /\ job[j].since \in Nat /\ event[j].credits \in Nat
    BY <1>0, RowFacts
  <1>1. ASSUME NEW k \in C!Jobs \ {j} PROVE Spares(k)
    BY <1>0, <1>a, RowFacts DEF Spares, C!TypeOK, C!ProviderFailed, C!SetStatus
  <1>2. JobOK(j)'
    BY <1>0, <1>a DEF JobOK, UnsentOK, Unsent, Open, C!TypeOK, JobRow, StepRow, C!ProviderFailed, C!SetStatus
  <1>3. CostOf'[j] <= CostOf[j]
    BY <1>0, <1>a DEF CostOf, C!OfRequest, C!Liability, C!VideoJobInFlight, JobOK, UnsentOK, Unsent,
                      Open, C!TypeOK, JobRow, C!ProviderFailed, C!SetStatus
  <1>4. Locked'
    BY <1>0, <1>1, <1>a DEF Locked, CapInv, JobOK, Spares, C!TypeOK, StepRow, C!ProviderFailed, C!SetStatus
  <1>5. \A k \in C!Jobs : step'[k].at = "admitted" => step[k].at = "admitted"
    BY <1>0, <1>1, <1>a DEF Spares, C!TypeOK, StepRow, C!ProviderFailed, C!SetStatus
  <1> QED BY <1>0, <1>1, <1>2, <1>3, <1>4, <1>5, OneJobStep

LEMMA SeeComposeCap ==
  ASSUME CapStep, NEW v \in Pollers, NEW j \in C!Jobs, C!SeeCompose(v, j)
  PROVE  CapInv'
  <1>0. /\ ChargeInv /\ ChargeInv' /\ CapInv /\ CapWorld' /\ JobOK(j) /\ UnsentOK(j) /\ C!TypeOK
        /\ request' = request /\ event' = event
        /\ (step'[j].at # "new" => step'[j].proc = p1)
    BY DEF CapStep, CapInv, ChargeInv, NoFault, C!SeeCompose, C!Poll
  <1>a. /\ j \in C!Steps /\ j # NoJob /\ job[j] \in JobRow /\ step[j] \in StepRow
        /\ job[j].quote \in Nat /\ Price[j] \in Nat /\ request \in Nat /\ request # 0
        /\ job[j].since \in Nat /\ event[j].credits \in Nat
    BY <1>0, RowFacts
  <1>1. ASSUME NEW k \in C!Jobs \ {j} PROVE Spares(k)
    BY <1>0, <1>a, RowFacts DEF Spares, C!TypeOK, C!SeeCompose, C!Poll
  <1>2. JobOK(j)'
    BY <1>0, <1>a DEF JobOK, UnsentOK, Unsent, Open, C!TypeOK, JobRow, StepRow, C!SeeCompose, C!Poll
  <1>3. CostOf'[j] <= CostOf[j]
    BY <1>0, <1>a DEF CostOf, C!OfRequest, C!Liability, C!VideoJobInFlight, JobOK, UnsentOK, Unsent,
                      Open, C!TypeOK, JobRow, C!SeeCompose, C!Poll
  <1>4. Locked'
    BY <1>0, <1>1, <1>a DEF Locked, CapInv, JobOK, Spares, C!TypeOK, StepRow, C!SeeCompose, C!Poll
  <1>5. \A k \in C!Jobs : step'[k].at = "admitted" => step[k].at = "admitted"
    BY <1>0, <1>1, <1>a DEF Spares, C!TypeOK, StepRow, C!SeeCompose, C!Poll
  <1> QED BY <1>0, <1>1, <1>2, <1>3, <1>4, <1>5, OneJobStep

LEMMA ClaimTransferCap ==
  ASSUME CapStep, NEW v \in Pollers, NEW j \in C!Jobs, C!ClaimTransfer(v, j)
  PROVE  CapInv'
  <1>0. /\ ChargeInv /\ ChargeInv' /\ CapInv /\ CapWorld' /\ JobOK(j) /\ UnsentOK(j) /\ C!TypeOK
        /\ request' = request /\ event' = event
        /\ (step'[j].at # "new" => step'[j].proc = p1)
    BY DEF CapStep, CapInv, ChargeInv, NoFault, C!ClaimTransfer, C!Poll, C!SetStatus
  <1>a. /\ j \in C!Steps /\ j # NoJob /\ job[j] \in JobRow /\ step[j] \in StepRow
        /\ job[j].quote \in Nat /\ Price[j] \in Nat /\ request \in Nat /\ request # 0
        /\ job[j].since \in Nat /\ event[j].credits \in Nat
    BY <1>0, RowFacts
  <1>1. ASSUME NEW k \in C!Jobs \ {j} PROVE Spares(k)
    BY <1>0, <1>a, RowFacts DEF Spares, C!TypeOK, C!ClaimTransfer, C!Poll, C!SetStatus
  <1>2. JobOK(j)'
    BY <1>0, <1>a DEF JobOK, UnsentOK, Unsent, Open, C!TypeOK, JobRow, StepRow, C!ClaimTransfer, C!Poll, C!SetStatus
  <1>3. CostOf'[j] <= CostOf[j]
    BY <1>0, <1>a DEF CostOf, C!OfRequest, C!Liability, C!VideoJobInFlight, JobOK, UnsentOK, Unsent,
                      Open, C!TypeOK, JobRow, C!ClaimTransfer, C!Poll, C!SetStatus
  <1>4. Locked'
    BY <1>0, <1>1, <1>a DEF Locked, CapInv, JobOK, Spares, C!TypeOK, StepRow, C!ClaimTransfer, C!Poll, C!SetStatus
  <1>5. \A k \in C!Jobs : step'[k].at = "admitted" => step[k].at = "admitted"
    BY <1>0, <1>1, <1>a DEF Spares, C!TypeOK, StepRow, C!ClaimTransfer, C!Poll, C!SetStatus
  <1> QED BY <1>0, <1>1, <1>2, <1>3, <1>4, <1>5, OneJobStep

LEMMA TransferredCap ==
  ASSUME CapStep, NEW v \in Pollers, C!Transferred(v)
  PROVE  CapInv'
  <1>j. PICK j \in C!Jobs : j = poller[v].job
    BY InHand DEF CapStep, C!Transferred
  <1>0. /\ ChargeInv /\ ChargeInv' /\ CapInv /\ CapWorld /\ CapWorld' /\ C!TypeOK
        /\ request' = request /\ event' = event /\ step' = step /\ holder' = holder
    BY <1>j DEF CapStep, CapInv, ChargeInv, C!Transferred, C!Poll
  <1>a. v = w1
    BY <1>j, <1>0, InHand DEF CapWorld, C!Idle, C!Transferred, C!Poll
  <1>b. /\ j \in C!Steps /\ j # NoJob /\ job[j] \in JobRow /\ step[j] \in StepRow
        /\ job[j].quote \in Nat /\ Price[j] \in Nat /\ request \in Nat /\ request # 0
        /\ job[j].since \in Nat /\ event[j].credits \in Nat
    BY <1>j, <1>0, <1>a, RowFacts
  <1>c. JobOK(j) /\ job[j].status \in {"in_progress", "finalizing"}
    BY <1>j, <1>0, <1>a DEF CapInv, JobOK
  <1>d. \A w \in Pollers : poller'[w].job = j => w = v
    BY <1>j, <1>0, <1>a, <1>b DEF CapWorld, C!TypeOK, C!Idle, C!Transferred, C!Poll
  <1>1. ASSUME NEW k \in C!Jobs \ {j} PROVE Spares(k)
    BY <1>j, <1>0, <1>a, RowFacts DEF Spares, C!TypeOK, C!Transferred, C!Poll
  <1>e. job' = job
    BY <1>j DEF C!Transferred, C!Poll
  <1>3. JobOK(j)'
    BY <1>j, <1>0, <1>a, <1>b, <1>c, <1>d, <1>e DEF JobOK, Open, C!TypeOK, JobRow
  <1>4. CostOf'[j] <= CostOf[j]
    BY <1>j, <1>0, <1>a, <1>b, <1>c, <1>e DEF CostOf, C!OfRequest, C!Liability, C!VideoJobInFlight,
                      C!TypeOK, JobRow
  <1>5. Locked'
    BY <1>j, <1>0 DEF Locked, CapInv
  <1> QED BY <1>j, <1>0, <1>a, <1>1, <1>3, <1>4, <1>5, OneJobStep

LEMMA CompleteCap ==
  ASSUME CapStep, NEW v \in Pollers, C!Complete(v)
  PROVE  CapInv'
  <1>j. PICK j \in C!Jobs : j = poller[v].job
    BY InHand DEF CapStep, C!Complete
  <1>0. /\ ChargeInv /\ ChargeInv' /\ CapInv /\ CapWorld /\ CapWorld' /\ C!TypeOK
        /\ request' = request /\ event' = event /\ step' = step /\ holder' = holder
    BY <1>j DEF CapStep, CapInv, ChargeInv, C!Complete, C!SetStatus, C!Idle
  <1>a. v = w1
    BY <1>j, <1>0, InHand DEF CapWorld, C!Idle, C!Complete, C!SetStatus, C!Idle
  <1>b. /\ j \in C!Steps /\ j # NoJob /\ job[j] \in JobRow /\ step[j] \in StepRow
        /\ job[j].quote \in Nat /\ Price[j] \in Nat /\ request \in Nat /\ request # 0
        /\ job[j].since \in Nat /\ event[j].credits \in Nat
    BY <1>j, <1>0, <1>a, RowFacts
  <1>c. JobOK(j) /\ job[j].status \in {"in_progress", "finalizing"}
    BY <1>j, <1>0, <1>a DEF CapInv, JobOK
  <1>d. \A w \in Pollers : poller'[w].job = j => FALSE
    BY <1>j, <1>0, <1>a, <1>b DEF CapWorld, C!TypeOK, C!Idle, C!Complete, C!SetStatus, C!Idle
  <1>1. ASSUME NEW k \in C!Jobs \ {j} PROVE Spares(k)
    BY <1>j, <1>0, <1>a, RowFacts DEF Spares, C!TypeOK, C!Complete, C!SetStatus, C!Idle
  <1>e. job' = [job EXCEPT ![j].status = "completed"]
    BY <1>j DEF C!Complete, C!SetStatus, C!Idle
  <1>3. JobOK(j)'
    BY <1>j, <1>0, <1>a, <1>b, <1>c, <1>d, <1>e DEF JobOK, Open, C!TypeOK, JobRow
  <1>4. CostOf'[j] <= CostOf[j]
    BY <1>j, <1>0, <1>a, <1>b, <1>c, <1>e DEF CostOf, C!OfRequest, C!Liability, C!VideoJobInFlight,
                      C!TypeOK, JobRow
  <1>5. Locked'
    BY <1>j, <1>0 DEF Locked, CapInv
  <1> QED BY <1>j, <1>0, <1>a, <1>1, <1>3, <1>4, <1>5, OneJobStep

LEMMA StillRunningCap ==
  ASSUME CapStep, NEW v \in Pollers, C!StillRunning(v)
  PROVE  CapInv'
  <1>j. PICK j \in C!Jobs : j = poller[v].job
    BY InHand DEF CapStep, C!StillRunning
  <1>0. /\ ChargeInv /\ ChargeInv' /\ CapInv /\ CapWorld /\ CapWorld' /\ C!TypeOK
        /\ request' = request /\ event' = event /\ step' = step /\ holder' = holder
    BY <1>j DEF CapStep, CapInv, ChargeInv, C!StillRunning, C!SetStatus, C!Idle
  <1>a. v = w1
    BY <1>j, <1>0, InHand DEF CapWorld, C!Idle, C!StillRunning, C!SetStatus, C!Idle
  <1>b. /\ j \in C!Steps /\ j # NoJob /\ job[j] \in JobRow /\ step[j] \in StepRow
        /\ job[j].quote \in Nat /\ Price[j] \in Nat /\ request \in Nat /\ request # 0
        /\ job[j].since \in Nat /\ event[j].credits \in Nat
    BY <1>j, <1>0, <1>a, RowFacts
  <1>c. JobOK(j) /\ job[j].status \in {"in_progress", "finalizing"}
    BY <1>j, <1>0, <1>a DEF CapInv, JobOK
  <1>d. \A w \in Pollers : poller'[w].job = j => FALSE
    BY <1>j, <1>0, <1>a, <1>b DEF CapWorld, C!TypeOK, C!Idle, C!StillRunning, C!SetStatus, C!Idle
  <1>1. ASSUME NEW k \in C!Jobs \ {j} PROVE Spares(k)
    BY <1>j, <1>0, <1>a, RowFacts DEF Spares, C!TypeOK, C!StillRunning, C!SetStatus, C!Idle
  <1>e. job' = [job EXCEPT ![j].status = "in_progress"]
    BY <1>j DEF C!StillRunning, C!SetStatus, C!Idle
  <1>3. JobOK(j)'
    BY <1>j, <1>0, <1>a, <1>b, <1>c, <1>d, <1>e DEF JobOK, Open, C!TypeOK, JobRow
  <1>4. CostOf'[j] <= CostOf[j]
    BY <1>j, <1>0, <1>a, <1>b, <1>c, <1>e DEF CostOf, C!OfRequest, C!Liability, C!VideoJobInFlight,
                      C!TypeOK, JobRow
  <1>5. Locked'
    BY <1>j, <1>0 DEF Locked, CapInv
  <1> QED BY <1>j, <1>0, <1>a, <1>1, <1>3, <1>4, <1>5, OneJobStep

LEMMA SettleJobCap ==
  ASSUME CapStep, NEW v \in Pollers, C!SettleJob(v)
  PROVE  CapInv'
  <1>j. PICK j \in C!Jobs : j = poller[v].job
    BY InHand DEF CapStep, C!SettleJob
  <1>0. /\ ChargeInv /\ ChargeInv' /\ CapInv /\ CapWorld /\ CapWorld' /\ C!TypeOK
        /\ UNCHANGED <<request, job, step, holder, cancelling>>
        /\ poller' = [poller EXCEPT ![v] = [job |-> j, at |-> "settled"]]
    BY <1>j DEF CapStep, CapInv, ChargeInv, C!SettleJob, C!Poll
  <1>b. /\ j \in C!Steps /\ j # NoJob /\ job[j].quote \in Nat /\ Price[j] \in Nat
        /\ request \in Nat /\ request # 0 /\ event[j].credits \in Nat
    BY <1>j, <1>0, RowFacts
  <1>c. JobOK(j) /\ job[j].status \in {"in_progress", "finalizing"} /\ job[j].since <= request
        /\ job[j].quote = Price[j] /\ job[j].since \in Nat
    BY <1>j, <1>0, RowFacts DEF CapInv, JobOK, Open
  <1>d. event' = event \/ /\ event[j].request = 0 /\ event'[j].request = request
                          /\ \A k \in C!Steps \ {j} : event'[k] = event[k]
    <2>1. UNCHANGED <<event, charged>> \/ Charges(j)
      BY <1>j, <1>0, JobSettled
    <2> QED BY <1>0, <1>b, <2>1 DEF Charges, C!TypeOK
  <1>e. event'[j].request # 0 => event'[j].credits = Price[j]
    BY <1>j DEF CapStep, NoFault
  <1>1. ASSUME NEW k \in C!Jobs \ {j} PROVE Spares(k)
    BY <1>j, <1>0, <1>d, RowFacts DEF Spares, C!TypeOK
  <1>p. \A w \in Pollers : poller'[w].job = j => poller[w].job = j \/ w = v
    BY <1>j, <1>0 DEF C!TypeOK
  <1>3. JobOK(j)'
    BY <1>j, <1>0, <1>b, <1>c, <1>d, <1>e, <1>p DEF JobOK
  <1>4. CostOf'[j] <= CostOf[j]
    <2>1. CASE event' = event
      BY <2>1, <1>0, <1>b, <1>c, <1>e DEF CostOf, C!OfRequest, C!Liability, C!VideoJobInFlight
    <2>2. CASE event[j].request = 0 /\ event'[j].request = request
      BY <2>2, <1>0, <1>b, <1>c, <1>e DEF CostOf, C!OfRequest, C!Liability, C!VideoJobInFlight
    <2> QED BY <1>d, <2>1, <2>2
  <1>5. Locked'
    BY <1>j, <1>0 DEF Locked, CapInv
  <1> QED BY <1>j, <1>0, <1>1, <1>3, <1>4, <1>5, OneJobStep

\* The step fits: the guard read no less than what the request costs.
LEMMA AdmitCap ==
  ASSUME CapStep, NEW j \in C!Jobs, C!Admit(j)
  PROVE  CapInv'
  <1>0. /\ ChargeInv /\ ChargeInv' /\ CapInv /\ CapWorld /\ CapWorld' /\ C!TypeOK /\ C!TypeOK' /\ JobOK(j)
        /\ UNCHANGED <<request, job, event, holder, poller, cancelling>>
        /\ step[j].at = "guarding" /\ step' = [step EXCEPT ![j].at = "admitted"]
        /\ C!Spent({j}) + Price[j] <= Limit
    BY DEF CapStep, CapInv, ChargeInv, C!Admit, C!At
  <1>a. j \in C!Steps /\ j # NoJob /\ step[j] \in StepRow /\ Price[j] \in Nat
    BY <1>0, RowFacts
  <1>1. ASSUME NEW k \in C!Jobs \ {j} PROVE Spares(k)
    BY <1>0, RowFacts DEF Spares, C!TypeOK
  <1>2. step'[j].at = "admitted" /\ step'[j].proc = step[j].proc
    BY <1>0, <1>a DEF C!TypeOK, StepRow
  <1>3. JobOK(j)'
    BY <1>0, <1>2 DEF JobOK
  <1>4. \A k \in C!Jobs : JobOK(k)'
    BY <1>0, <1>1, <1>3, SparedJob DEF CapInv
  <1>5. \A k \in C!Jobs : step'[k].at \in {"guarding", "admitted"} => holder'[p1] = k /\ k = j
    <2>1. holder[p1] = j
      BY <1>0 DEF CapInv, Locked
    <2>2. \A k \in C!Jobs \ {j} : step'[k].at \notin {"guarding", "admitted"}
      BY <1>0, <1>1, <2>1 DEF CapInv, Locked, Spares
    <2> QED BY <1>0, <2>1, <2>2
  <1>6. C!Cost <= C!Spent({j}) /\ C!Spent({j}) \in Nat
    <2>1. job[j].status = "none" \/ job[j].quote = 0
      BY <1>0 DEF JobOK
    <2> QED BY <1>0, <2>1, SpentCovers DEF CapInv
  <1>7. C!Cost' <= C!Cost /\ C!Cost \in Nat /\ C!Cost' \in Nat
    <2>1. ASSUME NEW k \in C!Jobs PROVE CostOf'[k] <= CostOf[k]
      <3>1. k \in C!Steps
        BY CapFacts
      <3>2. CostOf'[k] = CostOf[k] /\ CostOf[k] \in Nat
        BY <1>0, <3>1, SparedCost, CostTotal DEF Weights
      <3> QED BY <3>2
    <2> QED BY <1>0, <2>1, CostLess
  <1>8. Budget'
    <2>1. C!Cost' <= Limit
      BY <1>0, <1>7, CapFacts DEF CapInv, Budget
    <2>2. C!Cost' + Price[j] <= Limit
      BY <1>0, <1>a, <1>6, <1>7, CapFacts
    <2> QED BY <1>5, <2>1, <2>2 DEF Budget
  <1> QED BY <1>0, <1>4, <1>5, <1>8 DEF CapInv, Locked

\* The admitted step gets its row, and the request costs at most that much more.
LEMMA WriteRowCap ==
  ASSUME CapStep, NEW j \in C!Jobs, C!WriteRow(j)
  PROVE  CapInv'
  <1>0. /\ ChargeInv /\ ChargeInv' /\ CapInv /\ CapWorld /\ CapWorld' /\ C!TypeOK /\ C!TypeOK' /\ JobOK(j)
        /\ UnsentOK(j) /\ UNCHANGED <<request, event, poller, cancelling>> /\ step[j].at = "admitted"
        /\ step' = [step EXCEPT ![j].at = "written"]
        /\ (step'[j].at # "new" => step'[j].proc = p1)
    BY DEF CapStep, CapInv, ChargeInv, C!WriteRow, C!At, NoFault
  <1>a. /\ j \in C!Steps /\ j # NoJob /\ job[j] \in JobRow /\ step[j] \in StepRow
        /\ job[j].quote \in Nat /\ Price[j] \in Nat /\ request \in Nat /\ request # 0
    BY <1>0, RowFacts
  <1>1. ASSUME NEW k \in C!Jobs \ {j} PROVE Spares(k)
    BY <1>0, RowFacts DEF Spares, C!TypeOK, C!WriteRow
  <1>2. /\ job'[j].status = "submitting" /\ job'[j].quote = Price[j] /\ job'[j].since <= request
        /\ event[j].request = 0 /\ \A w \in Pollers : poller[w].job # j
    <2>1. event[j].request = 0 /\ \A w \in Pollers : poller[w].job # j
      BY <1>0 DEF UnsentOK, Unsent
    <2>2. CASE j \in Composes
      <3>1. job[j].status = "submitting" /\ job[j].since <= request
        BY <1>0, <2>2 DEF JobOK, Open
      <3> QED BY <1>0, <1>a, <2>1, <2>2, <3>1 DEF C!WriteRow, C!TypeOK, JobRow
    <2>3. CASE j \notin Composes
      BY <1>0, <1>a, <2>1, <2>3 DEF C!WriteRow, C!TypeOK
    <2> QED BY <2>2, <2>3
  <1>3. step'[j].at = "written"
    BY <1>0, <1>a DEF C!TypeOK, StepRow
  <1>4. JobOK(j)'
    BY <1>0, <1>a, <1>2, <1>3 DEF JobOK, Open
  <1>5. \A k \in C!Jobs : JobOK(k)'
    BY <1>0, <1>1, <1>4, SparedJob DEF CapInv
  <1>6. \A k \in C!Jobs : step'[k].at \notin {"guarding", "admitted"}
    <2>1. holder[p1] = j
      BY <1>0 DEF CapInv, Locked
    <2>2. \A k \in C!Jobs \ {j} : step'[k].at \notin {"guarding", "admitted"}
      BY <1>0, <1>1, <2>1 DEF CapInv, Locked, Spares
    <2> QED BY <1>3, <2>2
  <1>7. C!Cost' <= C!Cost + Price[j] /\ C!Cost' \in Nat /\ C!Cost \in Nat
    <2> DEFINE w == CostOf
               v == CostOf'
    <2>1. /\ C!Cost = Total(w, C!Steps) /\ Weights(w, C!Steps) /\ C!Cost \in Nat
          /\ C!Cost' = Total(v, C!Steps) /\ Weights(v, C!Steps) /\ C!Cost' \in Nat
      BY <1>0, CostTotal, CostAfter
    <2>2. w[j] = 0
      <3>1. CASE j \in Composes
        <4>1. job[j].quote = 0
          BY <1>0, <3>1 DEF JobOK
        <4> QED BY <1>a, <1>2, <4>1 DEF CostOf, C!OfRequest, C!Liability
      <3>2. CASE j \notin Composes
        <4>1. job[j].since = 0
          BY <1>0, <3>2 DEF JobOK
        <4> QED BY <1>a, <1>2, <4>1 DEF CostOf, C!OfRequest, C!Liability
      <3> QED BY <3>1, <3>2
    <2>3. v[j] = Price[j] \/ v[j] = 0
      BY <1>0, <1>a, <1>2 DEF CostOf, C!OfRequest, C!Liability, C!VideoJobInFlight
    <2>4. ASSUME NEW s \in C!Steps \ {j} PROVE w[s] = v[s]
      <3>1. CASE s \in C!Jobs
        BY <1>0, <1>1, <3>1, SparedCost DEF Spares
      <3>2. CASE s \in Images
        BY <1>0, <3>2, ImageCost
      <3> QED BY <3>1, <3>2, CapFacts
    <2> HIDE DEF w, v
    <2>5. Total(v, C!Steps) + w[j] = Total(w, C!Steps) + v[j]
      BY <1>a, <2>1, <2>4, CapFacts, TotalChanged
    <2> QED BY <1>a, <2>1, <2>2, <2>3, <2>5
  <1>8. Budget'
    BY <1>0, <1>a, <1>6, <1>7, CapFacts DEF CapInv, Budget
  <1> QED BY <1>0, <1>5, <1>6, <1>8 DEF CapInv, Locked

LEMMA CrashCap ==
  ASSUME CapStep, NEW p \in Procs, C!Crash(p)
  PROVE  CapInv'
  <1>0. /\ ChargeInv /\ ChargeInv' /\ CapInv /\ CapWorld /\ CapWorld' /\ C!TypeOK
        /\ UNCHANGED <<request, job, event, poller, cancelling>>
        /\ holder' = [holder EXCEPT ![p] = NoJob]
        /\ \A s \in C!Jobs : step'[s].at # "new" => step'[s].proc = p1
    BY DEF CapStep, CapInv, ChargeInv, C!Crash, NoFault
  <1>1. ASSUME NEW k \in C!Jobs
        PROVE  /\ step'[k] = step[k] \/ (step'[k].at = "dead" /\ step'[k].proc = step[k].proc)
               /\ step[k].proc = p /\ step[k].at \in {"guarding", "admitted"} => step'[k].at = "dead"
    <2>1. k \in C!Steps /\ step[k] \in StepRow
      BY <1>0, RowFacts
    <2> QED BY <2>1 DEF C!Crash, StepRow
  <1>2. \A k \in C!Jobs : JobOK(k)'
    <2> SUFFICES ASSUME NEW k \in C!Jobs PROVE JobOK(k)'
      OBVIOUS
    <2>1. JobOK(k)
      BY <1>0 DEF CapInv
    <2> QED BY <1>0, <1>1, <2>1 DEF JobOK
  <1>3. Locked'
    <2> SUFFICES ASSUME NEW k \in C!Jobs, step'[k].at \in {"guarding", "admitted"} PROVE holder'[p1] = k
      BY DEF Locked
    <2>1. step[k].at \in {"guarding", "admitted"} /\ step[k].proc # p
      BY <1>1
    <2>2. holder[p1] = k /\ step[k].proc = p1
      BY <1>0, <2>1 DEF CapInv, Locked, JobOK
    <2> QED BY <1>0, <2>1, <2>2 DEF C!TypeOK
  <1>4. C!Cost' <= C!Cost /\ C!Cost \in Nat /\ C!Cost' \in Nat
    <2>1. ASSUME NEW k \in C!Jobs PROVE CostOf'[k] <= CostOf[k]
      <3>1. k \in C!Steps
        BY CapFacts
      <3>2. CostOf'[k] = CostOf[k] /\ CostOf[k] \in Nat
        BY <1>0, <3>1, SparedCost, CostTotal DEF Weights
      <3> QED BY <3>2
    <2> QED BY <1>0, <2>1, CostLess
  <1>5. Budget'
    <2>1. C!Cost' <= Limit
      BY <1>0, <1>4, CapFacts DEF CapInv, Budget
    <2>2. ASSUME NEW k \in C!Jobs, step'[k].at = "admitted" PROVE C!Cost' + Price[k] <= Limit
      <3>1. step[k].at = "admitted"
        BY <1>1, <2>2
      <3>2. C!Cost + Price[k] <= Limit /\ Price[k] \in Nat
        BY <1>0, <3>1, CapFacts DEF CapInv, Budget
      <3> QED BY <1>4, <3>2, CapFacts
    <2> QED BY <2>1, <2>2 DEF Budget
  <1> QED BY <1>0, <1>2, <1>3, <1>5 DEF CapInv

\* A new prompt: nothing is of the new request yet, whatever still runs.
LEMMA SetCapCap ==
  ASSUME CapStep, C!SetCap
  PROVE  CapInv'
  <1>0. /\ ChargeInv /\ ChargeInv' /\ CapInv /\ CapWorld /\ CapWorld' /\ C!TypeOK /\ C!TypeOK'
        /\ request' = request + 1 /\ UNCHANGED <<job, step, event, poller, holder>>
    BY DEF CapStep, CapInv, ChargeInv, C!SetCap
  <1>1. ASSUME NEW k \in C!Jobs PROVE JobOK(k)' /\ CostOf'[k] <= CostOf[k]
    <2>1. /\ JobOK(k) /\ k \in C!Steps /\ request \in Nat /\ job[k].since \in Nat
          /\ event[k].request \in Nat
      BY <1>0, RowFacts DEF CapInv
    <2>3. JobOK(k)'
      BY <1>0, <2>1 DEF JobOK
    <2>4. CostOf'[k] = 0
      <3>1. job[k].since # request + 1
        BY <2>1 DEF JobOK
      <3> QED BY <1>0, <2>1, <3>1 DEF CostOf, C!OfRequest
    <2>5. CostOf[k] \in Nat
      BY <1>0, <2>1, CostTotal DEF Weights
    <2> QED BY <2>3, <2>4, <2>5
  <1>2. C!Cost' <= C!Cost /\ C!Cost \in Nat /\ C!Cost' \in Nat
    BY <1>0, <1>1, CostLess
  <1>3. Locked'
    BY <1>0 DEF CapInv, Locked
  <1>4. Budget'
    <2>1. C!Cost' <= Limit
      BY <1>0, <1>2, CapFacts DEF CapInv, Budget
    <2>2. ASSUME NEW k \in C!Jobs, step'[k].at = "admitted" PROVE C!Cost' + Price[k] <= Limit
      <3>1. C!Cost + Price[k] <= Limit /\ Price[k] \in Nat
        BY <1>0, <2>2, CapFacts DEF CapInv, Budget
      <3> QED BY <1>2, <3>1, CapFacts
    <2> QED BY <2>1, <2>2 DEF Budget
  <1> QED BY <1>0, <1>1, <1>3, <1>4 DEF CapInv

LEMMA SameCap ==
  ASSUME CapInv, UNCHANGED <<request, job, step, holder, event, poller, cancelling, failures, cancels>>
  PROVE  CapInv'
  <1>1. CapWorld' /\ Locked' /\ \A j \in C!Jobs : JobOK(j)'
    BY DEF CapInv, CapWorld, Locked, JobOK
  <1>2. C!Cost' = C!Cost
    BY DEF C!Cost, C!OfRequest, C!Liability
  <1> QED BY <1>1, <1>2 DEF CapInv, Budget

LEMMA BeginSendCap == ASSUME CapInv, C!BeginSend PROVE CapInv'
  BY SameCap DEF C!BeginSend

LEMMA CapInductive ==
  ASSUME ChargeInv, CapInv, C!Next, NoFault
  PROVE  CapInv'
  <1>1. CapStep
    BY ChargeInductive, WorldKept DEF CapStep, CapInv
  <1>2. ASSUME NEW i \in Images PROVE ~C!RunImage(i)
    <2>1. i \in C!Steps
      BY CapFacts
    <2> QED BY <1>1, <2>1 DEF CapStep, ChargeInv, C!TypeOK, CapWorld, C!RunImage, C!At
  <1>3. ASSUME NEW j \in C!Jobs
        PROVE ~C!ReclaimStale(j) /\ ~C!StopTransfer(j) /\ ~C!BeginCancel(j) /\ ~C!WriteCancel(j)
    <2>1. job[j].status # "transfer_failed"
      BY DEF CapInv, JobOK, Open
    <2> QED BY <1>1, <2>1
         DEF CapStep, CapInv, CapWorld, C!ReclaimStale, C!StopTransfer, C!BeginCancel, C!WriteCancel
  <1>4. ASSUME NEW v \in Pollers PROVE ~C!TransferFailed(v)
    BY <1>1 DEF CapStep, CapInv, CapWorld, C!TransferFailed
  <1> QED BY <1>1, <1>2, <1>3, <1>4, BeginSendCap, SetCapCap, SubmitCap, AcquireCap, AdmitCap, RefuseCap,
             WriteRowCap, DispatchCap, ProviderFailedCap, SeeComposeCap, ClaimTransferCap,
             TransferredCap, SettleJobCap, CompleteCap, StillRunningCap, CrashCap DEF C!Next

\* As long as no cap was replaced while the session was busy, every open job is of
\* the present request and every charge fell into its job's own.
OwnInv == ~crossed => \A j \in C!Jobs : OwnOK(j)

LEMMA OwnSpared == ASSUME NEW k, OwnOK(k), Spares(k), request' = request PROVE OwnOK(k)'
  BY DEF OwnOK, Spares

LEMMA OwnInductive ==
  ASSUME ChargeInv, ChargeInv', CapInv, CapInv', OwnInv, C!Next, NoFault
  PROVE  OwnInv'
  <1> SUFFICES ASSUME ~crossed', NEW k \in C!Jobs PROVE OwnOK(k)'
    BY DEF OwnInv
  <1>0. /\ k \in C!Steps /\ JobOK(k) /\ UnsentOK(k) /\ C!TypeOK /\ request \in Nat /\ request # 0
        /\ JobOK(k)' /\ job[k] \in JobRow
    BY RowFacts DEF CapInv, ChargeInv
  <1>1. CASE C!SetCap
    <2>1. ~crossed /\ C!Quiet /\ UNCHANGED <<job, event>>
      BY <1>1 DEF C!SetCap
    <2>2. OwnOK(k) /\ job[k].status \notin Open
      BY <2>1 DEF OwnInv, C!Quiet, C!VideoJobInFlight, Open
    <2> QED BY <2>1, <2>2 DEF OwnOK
  <1>2. CASE ~C!SetCap
    <2>0. UNCHANGED <<request, crossed>>
      BY <1>2 DEF C!Next, C!BeginSend, C!Submit, C!Acquire, C!Admit, C!Refuse, C!WriteRow,
         C!Dispatch, C!ProviderFailed, C!ReclaimStale, C!StopTransfer, C!BeginCancel, C!WriteCancel,
         C!RunImage, C!SeeCompose, C!ClaimTransfer, C!StillRunning, C!Transferred, C!TransferFailed,
         C!SettleJob, C!Complete, C!Crash
    <2>1. ~crossed /\ request' = request
      BY <2>0, Zenon
    <2>2. OwnOK(k)
      BY <2>1 DEF OwnInv
    <2>3. CASE UNCHANGED <<job, event>>
      BY <2>1, <2>2, <2>3 DEF OwnOK
    <2>4. ASSUME NEW j \in C!Jobs, NEW p \in Procs, C!Submit(j, p) PROVE OwnOK(k)'
      BY <1>0, <2>1, <2>2, <2>4 DEF C!Submit, OwnOK, C!TypeOK, JobRow, UnsentOK, Unsent, Open
    <2>5. ASSUME NEW j \in C!Jobs, C!Refuse(j) \/ C!ProviderFailed(j) PROVE OwnOK(k)'
      <3>1. event' = event /\ (job' = job \/ job' = [job EXCEPT ![j].status = "failed"])
        BY <2>5 DEF C!Refuse, C!ProviderFailed, C!SetStatus
      <3>2. job'[k] = job[k] \/ (job'[k].status = "failed" /\ job'[k].since = job[k].since)
        BY <1>0, <3>1 DEF C!TypeOK, JobRow
      <3> QED BY <2>1, <2>2, <3>1, <3>2 DEF OwnOK, Open
    <2>6. ASSUME NEW j \in C!Jobs, C!WriteRow(j) PROVE OwnOK(k)'
      BY <1>0, <2>1, <2>2, <2>6 DEF C!WriteRow, OwnOK, C!TypeOK, JobRow, UnsentOK, Unsent, Open
    <2>7. ASSUME NEW j \in C!Jobs, C!Dispatch(j) PROVE OwnOK(k)'
      BY <1>0, <2>1, <2>2, <2>7 DEF C!Dispatch, C!SetStatus, OwnOK, C!TypeOK, JobRow, JobOK, Open
    <2>8. ASSUME NEW v \in Pollers, NEW j \in C!Jobs, C!ClaimTransfer(v, j) PROVE OwnOK(k)'
      BY <1>0, <2>1, <2>2, <2>8
         DEF C!ClaimTransfer, C!SetStatus, OwnOK, C!TypeOK, JobRow, JobOK, Open
    <2>9. ASSUME NEW v \in Pollers, C!StillRunning(v) \/ C!Complete(v) PROVE OwnOK(k)'
      BY <1>0, <2>1, <2>2, <2>9
         DEF C!StillRunning, C!Complete, C!SetStatus, OwnOK, C!TypeOK, JobRow, JobOK, Open
    <2>10. ASSUME NEW v \in Pollers, C!SettleJob(v) PROVE OwnOK(k)'
      <3>1. PICK j \in C!Jobs : j = poller[v].job
        BY <2>10, InHand DEF C!SettleJob
      <3>2. job' = job /\ (UNCHANGED <<event, charged>> \/ Charges(j))
        BY <2>10, <3>1, JobSettled DEF C!SettleJob
      <3>3. event'[k] = event[k] \/ (k = j /\ event'[k].request = request)
        <4>1. event \in [C!Steps -> EventRow]
          BY CapTyped DEF ChargeInv
        <4>2. CASE UNCHANGED <<event, charged>>
          BY <4>2
        <4>3. CASE Charges(j)
          <5>1. PICK n \in Nat : event' = [event EXCEPT ![j] = [credits |-> n, request |-> request]]
            BY <4>3 DEF Charges
          <5> QED BY <1>0, <4>1, <5>1
        <4> QED BY <3>2, <4>2, <4>3
      <3>4. k = j => job[k].status \in Open
        BY <1>0, <2>10, <3>1 DEF JobOK, Open
      <3> QED BY <2>1, <2>2, <3>2, <3>3, <3>4 DEF OwnOK
    <2>11. ASSUME NEW j \in C!Jobs
           PROVE  ~C!ReclaimStale(j) /\ ~C!StopTransfer(j) /\ ~C!BeginCancel(j) /\ ~C!WriteCancel(j)
      <3>1. job[j].status # "transfer_failed"
        BY DEF CapInv, JobOK, Open
      <3> QED BY <3>1 DEF CapInv, CapWorld, C!ReclaimStale, C!StopTransfer, C!BeginCancel, C!WriteCancel
    <2>12. ASSUME NEW v \in Pollers PROVE ~C!TransferFailed(v)
      BY DEF CapInv, CapWorld, C!TransferFailed
    <2>13. ASSUME NEW i \in Images PROVE ~C!RunImage(i)
      <3>1. i \in C!Steps
        BY CapFacts
      <3> QED BY <3>1 DEF CapInv, ChargeInv, C!TypeOK, CapWorld, C!RunImage, C!At
    <2>14. \/ UNCHANGED <<job, event>>
           \/ \E j \in C!Jobs, p \in Procs : C!Submit(j, p)
           \/ \E j \in C!Jobs : C!Refuse(j) \/ C!ProviderFailed(j) \/ C!WriteRow(j) \/ C!Dispatch(j)
           \/ \E v \in Pollers, j \in C!Jobs : C!ClaimTransfer(v, j)
           \/ \E v \in Pollers : C!StillRunning(v) \/ C!Complete(v) \/ C!SettleJob(v)
      BY <1>2, <2>11, <2>12, <2>13
         DEF C!Next, C!BeginSend, C!Acquire, C!Admit, C!SeeCompose, C!Transferred, C!Crash
    <2> QED BY <2>3, <2>4, <2>5, <2>6, <2>7, <2>8, <2>9, <2>10, <2>14
  <1> QED BY <1>1, <1>2

LEMMA CapInitially == C!Init => CapInv
  <1> SUFFICES ASSUME C!Init PROVE CapInv
    OBVIOUS
  <1>0. C!TypeOK
    BY ChargeInit DEF ChargeInv
  <1>1. CapWorld
    BY CapFacts DEF C!Init, CapWorld
  <1>2. \A k \in C!Jobs : JobOK(k) /\ k \in C!Steps /\ step[k].at = "new"
    BY CapFacts DEF C!Init, JobOK, Open, C!Idle
  <1>3. C!Cost = 0
    <2>1. \A s \in C!Steps : CostOf[s] = 0
      <3>1. request = 1 /\ \A s \in C!Steps : event[s].request = 0
        BY DEF C!Init
      <3>2. \A s \in C!Jobs : job[s].since = 0
        BY DEF C!Init
      <3> QED BY <3>1, <3>2 DEF CostOf, C!OfRequest
    <2>2. C!Cost = Total(CostOf, C!Steps) /\ Weights(CostOf, C!Steps)
      BY <1>0, CostTotal
    <2> DEFINE w == CostOf
    <2>3. Total(w, C!Steps) = 0
      <3> DEFINE z == [s \in {} |-> 0]
      <3>1. {} \in SUBSET C!Steps /\ Weights(z, {}) /\ \A s \in C!Steps : w[s] = 0
        BY <2>1 DEF Weights
      <3>2. Total(w, C!Steps) = Total(z, {})
        <4> HIDE DEF z, w
        <4> QED BY <3>1, CapFacts, TotalWithin
      <3>3. Total(z, {}) = 0
        <4> HIDE DEF z
        <4> QED BY <3>1, FS_EmptySet, TotalFirst
      <3> QED BY <3>2, <3>3
    <2> QED BY <2>2, <2>3
  <1> QED BY <1>1, <1>2, <1>3, CapFacts DEF CapInv, Locked, Budget

\* Paid steps of one session, in the two scenes of the run: in one nothing fails.
CapNext == C!Next /\ (scene = "cap" => NoFault) /\ UNCHANGED scene
CapSpec == C!Init /\ [][CapNext]_<<capVars, scene>>

\* A workspace is charged once for each paid step and never for one that was
\* refused, whatever fails and however many processes finalize it (settle).  Where
\* the calls of the session run in one process, with one poller, and nothing is
\* cancelled, fails to transfer or is charged above its quote, the steps of a
\* request never cost more than its cap, however many prompts are sent at once: the
\* guard reads at least what they cost, and exactly that as long as no cap was
\* replaced while the session was busy (credit_cap.guard, reserve, set_cap).
THEOREM CapSafe == CapSpec => []CapKept
  <1> DEFINE Inv == ChargeInv /\ (scene = "cap" => CapInv /\ OwnInv)
  <1>1. C!Init => Inv
    <2>1. C!Init => OwnInv
      BY CapFacts DEF C!Init, OwnInv, OwnOK, Open
    <2> QED BY <2>1, ChargeInit, CapInitially
  <1>2. Inv /\ [CapNext]_<<capVars, scene>> => Inv'
    <2> SUFFICES ASSUME ChargeInv, scene = "cap" => CapInv /\ OwnInv, [CapNext]_<<capVars, scene>>
                 PROVE  ChargeInv' /\ (scene' = "cap" => CapInv' /\ OwnInv')
      OBVIOUS
    <2>1. CASE CapNext
      <3>1. ChargeInv'
        BY <2>1, ChargeInductive DEF CapNext
      <3>2. scene' = "cap" => CapInv'
        BY <2>1, CapInductive DEF CapNext
      <3>3. scene' = "cap" => OwnInv'
        BY <2>1, <3>1, <3>2, OwnInductive DEF CapNext
      <3> QED BY <3>1, <3>2, <3>3
    <2>2. CASE UNCHANGED <<capVars, scene>>
      <3>1. ChargeInv'
        BY <2>2, ChargeInductive
      <3>2. CapInv => CapInv'
        BY <2>2, SameCap DEF capVars
      <3>3. OwnInv => OwnInv'
        BY <2>2 DEF OwnInv, OwnOK, capVars
      <3> QED BY <2>2, <3>1, <3>2, <3>3
    <2> QED BY <2>1, <2>2
  <1>3. Inv => CapKept
    <2> SUFFICES ASSUME ChargeInv, scene = "cap" => CapInv /\ OwnInv PROVE CapKept
      OBVIOUS
    <2>1. C!TypeOK /\ C!ChargedOnce
      BY DEF ChargeInv
    <2>2. C!RefusedCostsNothing
      BY CapFacts DEF ChargeInv, UnsentOK, Unsent, C!RefusedCostsNothing
    <2>3. ASSUME scene = "cap" PROVE C!CapHolds /\ C!SpentIsLiability
      <3>1. C!CapHolds
        BY <2>3 DEF CapInv, Budget, C!CapHolds
      <3>2. /\ C!Cost <= C!Spent({}) /\ C!Spent({}) \in Nat /\ C!Cost \in Nat
            /\ ~crossed => C!Spent({}) = C!Cost
        BY <2>1, <2>3, SpentCovers, CostTotal DEF CapInv, OwnInv
      <3> QED BY <3>1, <3>2 DEF C!SpentIsLiability
    <2> QED BY <2>1, <2>2, <2>3 DEF CapKept
  <1> QED
    <2> HIDE DEF Inv
    <2> QED BY <1>1, <1>2, <1>3, PTL DEF CapSpec
=============================================================================
