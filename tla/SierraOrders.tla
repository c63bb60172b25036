----------------------------- MODULE SierraOrders -----------------------------
(***************************************************************************)
(* The trade functions of SierraChartPlatform: what they ask Sierra Chart  *)
(* for, what they report to the strategy, and scMutex, which every one of  *)
(* them locks and which a thread must not lock twice. One thread calls,    *)
(* the study's, so a call is one step up to the point where it calls       *)
(* another function of the platform.                                       *)
(*                                                                         *)
(* BuyEntry and SellEntry differ in the direction only, which no property  *)
(* depends on, and so do BuyExit and SellExit.                             *)
(***************************************************************************)
EXTENDS Naturals, FiniteSets

CONSTANTS
  OrderIds,    \* the InternalOrderIDs (a bound)
  MaxQuantity  \* bound on the quantity of an order

ASSUME SierraOrdersAssumption == IsFiniteSet(OrderIds) /\ MaxQuantity \in Nat

Quantities == 0..MaxQuantity

VARIABLES
  scMutex, \* "free" or "held"
  pc,      \* "idle", or the function a call goes on to: "exit", "log"
  closing, \* the orders passed to the CloseOrCancelOrder under way: one or none
  broker,  \* Sierra Chart's orders by InternalOrderID
  tracked  \* the last report the strategy has of an order

vars == <<scMutex, pc, closing, broker, tracked>>

With(f, i, x) == [j \in DOMAIN f \cup {i} |-> IF j = i THEN x ELSE f[j]]
New == OrderIds \ DOMAIN broker
Order(q, f) == [quantity |-> q, filled |-> f, exited |-> 0]

Init ==
  /\ scMutex = "free" /\ pc = "idle" /\ closing = {}
  /\ broker = [i \in {} |-> Order(0, 0)]
  /\ tracked = [i \in {} |-> 0]

(* What GetOrderDetails makes of an order: its filledQuantity is the whole *)
(* quantity, and requestedQuantity keeps its default.                      *)
GetOrderDetailsRequested(id, order) ==
  [orderId |-> id, filledQuantity |-> order.quantity,
   requestedQuantity |-> order.quantity, status |-> "None"]
GetOrderDetails(id, order) ==
  [orderId |-> id, filledQuantity |-> order.quantity,
   requestedQuantity |-> 0, status |-> "None"]

FillStatus(done, wanted) == IF done = wanted THEN "Filled" ELSE "PartiallyFilled"

-----------------------------------------------------------------------------
Idle == pc = "idle" /\ scMutex = "free"

(* An entry that fills in part or whole is reported if its details are     *)
(* found; one that rests is not.                                           *)
EntryFilled(id, q, f, found) ==
  /\ Idle /\ id \in New /\ f <= q
  /\ broker' = With(broker, id, Order(q, f))
  /\ IF f > 0 /\ found
     THEN tracked' = With(tracked, id, [GetOrderDetails(id, Order(q, f)) EXCEPT !.status = "Filled"])
     ELSE UNCHANGED tracked
  /\ UNCHANGED <<scMutex, pc, closing>>
Entry(id, q, f, found) ==
  /\ Idle /\ id \in New /\ f <= q
  /\ broker' = With(broker, id, Order(q, f))
  /\ IF f > 0 /\ found
     THEN tracked' = With(tracked, id, [GetOrderDetails(id, Order(q, f)) EXCEPT !.status = FillStatus(f, q)])
     ELSE UNCHANGED tracked
  /\ UNCHANGED <<scMutex, pc, closing>>

(* Sierra Chart exits e of the position. CloseOrCancelOrder calls this     *)
(* while it holds scMutex, overwrites the status, and would return.        *)
Exit(order, e) ==
  /\ pc = "idle" \/ (pc = "exit" /\ order \in closing)
  /\ scMutex = "free"
  /\ LET id == order.orderId IN
       /\ e <= broker[id].filled - broker[id].exited
       /\ broker' = [broker EXCEPT ![id].exited = @ + e]
       /\ IF e > 0 \/ pc = "exit"
          THEN tracked' = With(tracked, id,
                 [order EXCEPT !.status = IF pc = "exit" THEN "Cancelled"
                                          ELSE FillStatus(e, order.requestedQuantity)])
          ELSE UNCHANGED tracked
  /\ pc' = "idle" /\ closing' = {} /\ scMutex' = "free"

(* The working rest is cancelled or the cancellation fails, and the order  *)
(* is to be exited either way. (orderId > 0 for every InternalOrderID.)    *)
CloseOrCancelOrder(order, cancelled) ==
  /\ Idle
  /\ broker' = IF cancelled
               THEN [broker EXCEPT ![order.orderId].quantity = broker[order.orderId].filled]
               ELSE broker
  /\ scMutex' = "held" /\ pc' = "exit" /\ closing' = {order}
  /\ UNCHANGED tracked

(* The submission fails, or a leg gets no id: a message to log.            *)
SubmitOCOOrderLogs(accepted, q) ==
  /\ Idle /\ accepted \subseteq New /\ Cardinality(accepted) <= 1
  /\ broker' = [i \in DOMAIN broker \cup accepted |-> IF i \in accepted THEN Order(q, 0) ELSE broker[i]]
  /\ scMutex' = "held" /\ pc' = "log"
  /\ UNCHANGED <<closing, tracked>>

(* Both legs have ids and two reports are made; or the details of a leg    *)
(* are missing, which may be the only one with an id as long as no message *)
(* is logged before: an exception, which unlocks scMutex on its way.       *)
SubmitOCOOrder(legs, q, found) ==
  /\ Idle /\ legs \subseteq New
  /\ Cardinality(legs) = 2 \/ (Cardinality(legs) = 1 /\ ~found)
  /\ broker' = [i \in DOMAIN broker \cup legs |-> IF i \in legs THEN Order(q, 0) ELSE broker[i]]
  /\ tracked' = IF found
       THEN [i \in DOMAIN tracked \cup legs |->
               IF i \in legs THEN GetOrderDetails(i, Order(q, 0)) ELSE tracked[i]]
       ELSE tracked
  /\ UNCHANGED <<scMutex, pc, closing>>

AddMessageToLog ==
  /\ pc \in {"idle", "log"} /\ scMutex = "free"
  /\ pc' = "idle"
  /\ UNCHANGED <<scMutex, closing, broker, tracked>>

(* The market fills a working order, whatever the study is doing.          *)
Fill(id) ==
  /\ id \in DOMAIN broker /\ broker[id].filled < broker[id].quantity
  /\ broker' = [broker EXCEPT ![id].filled = @ + 1]
  /\ UNCHANGED <<scMutex, pc, closing, tracked>>

Reports == {tracked[i] : i \in DOMAIN tracked}
Study ==
  \/ \E id \in OrderIds, q \in Quantities \ {0}, f \in Quantities, found \in BOOLEAN : Entry(id, q, f, found)
  \/ \E order \in Reports, e \in Quantities : Exit(order, e)
  \/ \E order \in Reports, cancelled \in BOOLEAN : CloseOrCancelOrder(order, cancelled)
  \/ \E legs \in SUBSET OrderIds, q \in Quantities \ {0} :
       SubmitOCOOrderLogs(legs, q) \/ \E found \in BOOLEAN : SubmitOCOOrder(legs, q, found)
  \/ AddMessageToLog

Next == Study \/ \E id \in OrderIds : Fill(id)

Spec == Init /\ [][Next]_vars

(* A call that is under way goes on as soon as it can.                     *)
FairSpec == Spec /\ WF_vars(pc # "idle" /\ Study)

-----------------------------------------------------------------------------
Report == [orderId : OrderIds, filledQuantity : Quantities, requestedQuantity : Quantities,
           status : {"None", "Filled", "PartiallyFilled", "Cancelled"}]

TypeOK ==
  /\ scMutex \in {"free", "held"} /\ pc \in {"idle", "exit", "log"}
  /\ closing \subseteq Report
  /\ DOMAIN tracked \subseteq DOMAIN broker
  /\ \A i \in DOMAIN broker :
       /\ i \in OrderIds /\ broker[i].quantity \in Quantities
       /\ broker[i].filled \in 0..broker[i].quantity /\ broker[i].exited \in 0..broker[i].filled
  /\ \A i \in DOMAIN tracked : tracked[i] \in Report /\ tracked[i].orderId = i

(* An order the strategy holds as Filled has filled to the last contract,  *)
(* so erasing it from activeOrders_ forgets no working rest; one that      *)
(* filled in part is never held as Filled.                                 *)
FilledIsWhole ==
  \A i \in DOMAIN tracked :
    tracked[i].status = "Filled" => broker[i].filled = broker[i].quantity

(* No exit is ever reported Filled, however complete: requestedQuantity is *)
(* 0 in every order the platform made. An order becomes Filled on entry or *)
(* never, and TradeSystem keeps what it exits.                             *)
ExitNeverFilled ==
  [][\A i \in DOMAIN tracked : tracked'[i].status = "Filled" => tracked[i] = tracked'[i]]_vars

(* Refuted. "Closes or cancels an active order" and "Returns: The executed *)
(* order details if successful" (ITradingPlatform.h:45 and 48): the call   *)
(* returns.                                                                *)
CloseReturns == pc = "exit" ~> pc = "idle"
=============================================================================
