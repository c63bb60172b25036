-------------------------- MODULE SierraOrdersProofs --------------------------
(***************************************************************************)
(* What the reports of SierraChartPlatform's trade functions say of the    *)
(* broker's orders, for any number of orders and any quantities; and that  *)
(* a CloseOrCancelOrder that has started never comes back.                 *)
(***************************************************************************)
EXTENDS SierraOrders, TLAPS

(* What TypeOK leaves out: the two maps are functions, a call that is      *)
(* under way holds scMutex, and no report has a requested quantity.        *)
BrokerOrder == [quantity : Quantities, filled : Quantities, exited : Quantities]
TypeInv ==
  /\ TypeOK
  /\ broker \in [DOMAIN broker -> BrokerOrder]
  /\ tracked \in [DOMAIN tracked -> Report]
LockInv == pc # "idle" => scMutex = "held"
NoneRequested == \A i \in DOMAIN tracked : tracked[i].requestedQuantity = 0

(* A report on an order the platform made: 0 is asked for, status aside.   *)
LEMMA DetailsType ==
  ASSUME NEW id \in OrderIds, NEW q \in Quantities, NEW f \in Quantities
  PROVE  /\ GetOrderDetails(id, Order(q, f)) \in Report
         /\ GetOrderDetails(id, Order(q, f)).orderId = id
         /\ GetOrderDetails(id, Order(q, f)).requestedQuantity = 0
         /\ GetOrderDetails(id, Order(q, f)).status = "None"
         /\ Order(q, f) \in BrokerOrder
  BY SierraOrdersAssumption DEF GetOrderDetails, Order, Report, Quantities, BrokerOrder

LEMMA InitInv == Init => TypeInv /\ LockInv /\ NoneRequested
  BY DEF Init, TypeInv, TypeOK, LockInv, NoneRequested, BrokerOrder

(* An exit is made by the strategy, and reports no fill of anything.       *)
LEMMA ExitReport ==
  ASSUME TypeInv, LockInv, NoneRequested,
         NEW order \in Reports, NEW e \in Quantities, Exit(order, e)
  PROVE  /\ pc = "idle"
         /\ order.orderId \in DOMAIN tracked /\ order = tracked[order.orderId]
         /\ order.orderId \in DOMAIN broker
         /\ order \in Report /\ order.requestedQuantity = 0
         /\ DOMAIN broker' = DOMAIN broker
         /\ broker' \in [DOMAIN broker -> BrokerOrder]
         /\ \A i \in DOMAIN broker :
              /\ broker'[i].quantity = broker[i].quantity
              /\ broker'[i].filled = broker[i].filled
              /\ broker'[i].exited \in 0..broker'[i].filled
         /\ \/ tracked' = tracked
            \/ tracked' = With(tracked, order.orderId, [order EXCEPT !.status = "PartiallyFilled"])
  <1>1. pc = "idle"
    BY DEF Exit, LockInv
  <1>2. /\ order.orderId \in DOMAIN tracked /\ order = tracked[order.orderId]
        /\ order.orderId \in DOMAIN broker
        /\ order \in Report /\ order.requestedQuantity = 0
    BY DEF Reports, TypeInv, TypeOK, NoneRequested
  <1>3. PICK id \in DOMAIN broker :
          /\ id = order.orderId
          /\ e <= broker[id].filled - broker[id].exited
          /\ broker' = [broker EXCEPT ![id].exited = @ + e]
    BY <1>2 DEF Exit
  <1>4. \A i \in DOMAIN broker : /\ broker[i] \in BrokerOrder
                                 /\ broker[i].filled \in 0..broker[i].quantity
                                 /\ broker[i].exited \in 0..broker[i].filled
    BY DEF TypeInv, TypeOK
  <1>5. broker[id].exited + e \in 0..broker[id].filled /\ broker[id].exited + e \in Quantities
    BY <1>3, <1>4, SierraOrdersAssumption DEF Quantities, BrokerOrder
  <1>6. /\ DOMAIN broker' = DOMAIN broker
        /\ broker' \in [DOMAIN broker -> BrokerOrder]
        /\ \A i \in DOMAIN broker :
             /\ broker'[i].quantity = broker[i].quantity
             /\ broker'[i].filled = broker[i].filled
             /\ broker'[i].exited \in 0..broker'[i].filled
    BY <1>3, <1>4, <1>5 DEF BrokerOrder, TypeInv
  <1>7. \/ tracked' = tracked
        \/ tracked' = With(tracked, order.orderId, [order EXCEPT !.status = "PartiallyFilled"])
    <2>1. CASE e > 0
      <3>1. e # order.requestedQuantity
        BY <1>2, <2>1 DEF Quantities
      <3> QED BY <1>1, <2>1, <3>1 DEF Exit, FillStatus
    <2>2. CASE ~(e > 0)
      BY <1>1, <2>2 DEF Exit
    <2> QED BY <2>1, <2>2
  <1> QED BY <1>1, <1>2, <1>6, <1>7

(* The types, the lock and the requested quantities are kept by each step. *)
LEMMA StepInv == TypeInv /\ LockInv /\ NoneRequested /\ [Next]_vars
                   => TypeInv' /\ LockInv' /\ NoneRequested'
  <1> SUFFICES ASSUME TypeInv, LockInv, NoneRequested, [Next]_vars
               PROVE  TypeInv' /\ LockInv' /\ NoneRequested'
    OBVIOUS
  <1>1. ASSUME NEW id \in OrderIds, NEW q \in Quantities \ {0}, NEW f \in Quantities,
               NEW found \in BOOLEAN, Entry(id, q, f, found)
        PROVE  TypeInv' /\ LockInv' /\ NoneRequested'
    <2> DEFINE rep == [GetOrderDetails(id, Order(q, f)) EXCEPT !.status = FillStatus(f, q)]
    <2>1. /\ Order(q, f) \in BrokerOrder /\ f \in 0..q
          /\ Order(q, f).quantity = q /\ Order(q, f).filled = f /\ Order(q, f).exited = 0
      BY <1>1, DetailsType, SierraOrdersAssumption DEF Entry, Order, Quantities
    <2>2. /\ rep \in Report /\ rep.orderId = id /\ rep.requestedQuantity = 0
      BY <1>1, SierraOrdersAssumption DEF GetOrderDetails, Order, Report, Quantities, FillStatus
    <2>3. /\ DOMAIN broker' = DOMAIN broker \cup {id} /\ id \notin DOMAIN broker
          /\ broker' \in [DOMAIN broker' -> BrokerOrder]
          /\ broker'[id] = Order(q, f)
          /\ \A j \in DOMAIN broker : broker'[j] = broker[j]
      BY <1>1, <2>1 DEF Entry, New, With, TypeInv
    <2>4. /\ tracked' \in [DOMAIN tracked' -> Report]
          /\ DOMAIN tracked' \subseteq DOMAIN tracked \cup {id}
          /\ \A i \in DOMAIN tracked' : tracked'[i].orderId = i /\ tracked'[i].requestedQuantity = 0
      <3>1. CASE tracked' = tracked
        BY <3>1 DEF TypeInv, TypeOK, NoneRequested
      <3>2. CASE tracked' = With(tracked, id, rep)
        <4> HIDE DEF rep
        <4> QED BY <3>2, <2>2 DEF With, TypeInv, TypeOK, NoneRequested
      <3> QED BY <1>1, <3>1, <3>2 DEF Entry
    <2>6. LockInv' /\ NoneRequested'
      BY <1>1, <2>4 DEF Entry, LockInv, NoneRequested
    <2>7. TypeOK'
      BY <1>1, <2>1, <2>3, <2>4 DEF Entry, TypeInv, TypeOK, BrokerOrder
    <2> QED BY <2>3, <2>4, <2>6, <2>7 DEF TypeInv
  <1>2. ASSUME NEW order \in Reports, NEW e \in Quantities, Exit(order, e)
        PROVE  TypeInv' /\ LockInv' /\ NoneRequested'
    <2> DEFINE rep == [order EXCEPT !.status = "PartiallyFilled"]
    <2>1. order \in Report /\ order.requestedQuantity = 0 /\ order.orderId \in DOMAIN tracked
      BY <1>2, ExitReport
    <2>2. rep \in Report /\ rep.orderId = order.orderId /\ rep.requestedQuantity = 0
      BY <2>1 DEF Report
    <2>3. /\ tracked' \in [DOMAIN tracked' -> Report]
          /\ DOMAIN tracked' = DOMAIN tracked
          /\ \A i \in DOMAIN tracked' : tracked'[i].orderId = i /\ tracked'[i].requestedQuantity = 0
      <3>1. CASE tracked' = tracked
        BY <3>1 DEF TypeInv, TypeOK, NoneRequested
      <3>2. CASE tracked' = With(tracked, order.orderId, rep)
        <4> HIDE DEF rep
        <4> QED BY <3>2, <2>1, <2>2 DEF With, TypeInv, TypeOK, NoneRequested
      <3> QED BY <1>2, <3>1, <3>2, ExitReport
    <2>4. /\ scMutex' = "free" /\ pc' = "idle" /\ closing' = {}
      BY <1>2 DEF Exit
    <2>5. /\ DOMAIN broker' = DOMAIN broker
          /\ broker' \in [DOMAIN broker -> BrokerOrder]
          /\ \A i \in DOMAIN broker :
               /\ broker'[i].quantity = broker[i].quantity
               /\ broker'[i].filled = broker[i].filled
               /\ broker'[i].exited \in 0..broker'[i].filled
      BY <1>2, ExitReport
    <2>6. TypeOK'
      BY <2>3, <2>4, <2>5 DEF TypeInv, TypeOK
    <2> QED BY <2>3, <2>4, <2>5, <2>6 DEF TypeInv, LockInv, NoneRequested
  <1>3. ASSUME NEW order \in Reports, NEW cancelled \in BOOLEAN, CloseOrCancelOrder(order, cancelled)
        PROVE  TypeInv' /\ LockInv' /\ NoneRequested'
    <2>1. /\ order \in Report /\ order.orderId \in DOMAIN broker
      BY DEF Reports, TypeInv, TypeOK
    <2>2. /\ scMutex' = "held" /\ pc' = "exit" /\ closing' = {order}
          /\ tracked' = tracked
      BY <1>3 DEF CloseOrCancelOrder
    <2>3. /\ DOMAIN broker' = DOMAIN broker
          /\ broker' \in [DOMAIN broker -> BrokerOrder]
          /\ \A i \in DOMAIN broker : /\ broker'[i].filled \in 0..broker'[i].quantity
                                      /\ broker'[i].exited \in 0..broker'[i].filled
      <3>1. CASE ~cancelled
        BY <1>3, <3>1 DEF CloseOrCancelOrder, TypeInv, TypeOK
      <3>2. CASE cancelled
        <4>1. broker' = [broker EXCEPT ![order.orderId].quantity = broker[order.orderId].filled]
          BY <1>3, <3>2 DEF CloseOrCancelOrder
        <4>2. \A i \in DOMAIN broker : /\ broker[i] \in BrokerOrder
                                       /\ broker[i].filled \in 0..broker[i].quantity
                                       /\ broker[i].exited \in 0..broker[i].filled
          BY DEF TypeInv, TypeOK
        <4> QED BY <2>1, <4>1, <4>2, SierraOrdersAssumption DEF BrokerOrder, Quantities, TypeInv
      <3> QED BY <3>1, <3>2
    <2>4. \A i \in DOMAIN broker : i \in OrderIds /\ broker'[i].quantity \in Quantities
      BY <2>3 DEF TypeInv, TypeOK, BrokerOrder
    <2> QED BY <2>1, <2>2, <2>3, <2>4 DEF TypeInv, TypeOK, LockInv, NoneRequested
  <1>4. ASSUME NEW legs \in SUBSET OrderIds, NEW q \in Quantities \ {0}, SubmitOCOOrderLogs(legs, q)
        PROVE  TypeInv' /\ LockInv' /\ NoneRequested'
    <2>1. Order(q, 0) \in BrokerOrder /\ Order(q, 0).quantity = q /\ Order(q, 0).filled = 0
          /\ Order(q, 0).exited = 0 /\ 0 \in 0..q /\ 0 \in 0..0
      BY SierraOrdersAssumption DEF Order, BrokerOrder, Quantities
    <2>2. /\ DOMAIN broker' = DOMAIN broker \cup legs
          /\ broker' \in [DOMAIN broker' -> BrokerOrder]
          /\ \A i \in DOMAIN broker' : broker'[i] = IF i \in legs THEN Order(q, 0) ELSE broker[i]
      BY <1>4, <2>1 DEF SubmitOCOOrderLogs, TypeInv
    <2>3. /\ scMutex' = "held" /\ pc' = "log"
          /\ closing' = closing /\ tracked' = tracked
      BY <1>4 DEF SubmitOCOOrderLogs
    <2>4. \A i \in DOMAIN broker' :
            /\ i \in OrderIds /\ broker'[i].quantity \in Quantities
            /\ broker'[i].filled \in 0..broker'[i].quantity /\ broker'[i].exited \in 0..broker'[i].filled
      BY <2>1, <2>2 DEF TypeInv, TypeOK
    <2> QED BY <2>2, <2>3, <2>4 DEF TypeInv, TypeOK, LockInv, NoneRequested
  <1>5. ASSUME NEW legs \in SUBSET OrderIds, NEW q \in Quantities \ {0}, NEW found \in BOOLEAN,
               SubmitOCOOrder(legs, q, found)
        PROVE  TypeInv' /\ LockInv' /\ NoneRequested'
    <2>1. Order(q, 0) \in BrokerOrder /\ Order(q, 0).quantity = q /\ Order(q, 0).filled = 0
          /\ Order(q, 0).exited = 0 /\ 0 \in 0..q /\ 0 \in 0..0 /\ 0 \in Quantities
      BY SierraOrdersAssumption DEF Order, BrokerOrder, Quantities
    <2>2. /\ DOMAIN broker' = DOMAIN broker \cup legs
          /\ broker' \in [DOMAIN broker' -> BrokerOrder]
          /\ \A i \in DOMAIN broker' : broker'[i] = IF i \in legs THEN Order(q, 0) ELSE broker[i]
      BY <1>5, <2>1 DEF SubmitOCOOrder, TypeInv
    <2>3. /\ tracked' \in [DOMAIN tracked' -> Report]
          /\ DOMAIN tracked' \subseteq DOMAIN tracked \cup legs
          /\ \A i \in DOMAIN tracked' : tracked'[i].orderId = i /\ tracked'[i].requestedQuantity = 0
      <3>1. CASE found
        <4>1. \A i \in legs : /\ GetOrderDetails(i, Order(q, 0)) \in Report
                              /\ GetOrderDetails(i, Order(q, 0)).orderId = i
                              /\ GetOrderDetails(i, Order(q, 0)).requestedQuantity = 0
          BY <2>1, DetailsType
        <4> QED BY <1>5, <3>1, <4>1 DEF SubmitOCOOrder, TypeInv, TypeOK, NoneRequested
      <3>2. CASE ~found
        BY <1>5, <3>2 DEF SubmitOCOOrder, TypeInv, TypeOK, NoneRequested
      <3> QED BY <3>1, <3>2
    <2>4. /\ UNCHANGED <<scMutex, pc, closing>>
      BY <1>5 DEF SubmitOCOOrder
    <2>5. \A i \in DOMAIN broker' :
            /\ i \in OrderIds /\ broker'[i].quantity \in Quantities
            /\ broker'[i].filled \in 0..broker'[i].quantity /\ broker'[i].exited \in 0..broker'[i].filled
      BY <2>1, <2>2 DEF TypeInv, TypeOK
    <2> QED BY <2>2, <2>3, <2>4, <2>5 DEF TypeInv, TypeOK, LockInv, NoneRequested
  <1>6. CASE AddMessageToLog
    BY <1>6 DEF AddMessageToLog, TypeInv, TypeOK, LockInv, NoneRequested
  <1>7. ASSUME NEW id \in OrderIds, Fill(id)
        PROVE  TypeInv' /\ LockInv' /\ NoneRequested'
    <2>1. \A i \in DOMAIN broker : /\ broker[i] \in BrokerOrder /\ i \in OrderIds
                                   /\ broker[i].filled \in 0..broker[i].quantity
                                   /\ broker[i].exited \in 0..broker[i].filled
      BY DEF TypeInv, TypeOK
    <2>2. /\ id \in DOMAIN broker /\ broker[id].filled < broker[id].quantity
          /\ broker' = [broker EXCEPT ![id].filled = @ + 1]
          /\ UNCHANGED <<scMutex, pc, closing, tracked>>
      BY <1>7 DEF Fill
    <2>3. /\ broker[id].filled + 1 \in 0..broker[id].quantity
          /\ broker[id].filled + 1 \in Quantities
          /\ broker[id].exited \in 0..(broker[id].filled + 1)
      BY <2>1, <2>2, SierraOrdersAssumption DEF BrokerOrder, Quantities
    <2>4. /\ DOMAIN broker' = DOMAIN broker
          /\ broker' \in [DOMAIN broker -> BrokerOrder]
          /\ \A i \in DOMAIN broker : /\ broker'[i].quantity \in Quantities
                                      /\ broker'[i].filled \in 0..broker'[i].quantity
                                      /\ broker'[i].exited \in 0..broker'[i].filled
      BY <2>1, <2>2, <2>3 DEF BrokerOrder, TypeInv
    <2> QED BY <2>1, <2>2, <2>4 DEF TypeInv, TypeOK, LockInv, NoneRequested
  <1>8. CASE UNCHANGED vars
    BY <1>8 DEF vars, TypeInv, TypeOK, LockInv, NoneRequested
  <1> QED BY <1>1, <1>2, <1>3, <1>4, <1>5, <1>6, <1>7, <1>8 DEF Next, Study

Inv == TypeInv /\ LockInv /\ NoneRequested

(* Every report is of an order the broker has, and no order fills beyond   *)
(* its quantity or is exited beyond its fill.                              *)
THEOREM TypeCorrect == Spec => []TypeOK
  <1>1. Inv => TypeOK
    BY DEF Inv, TypeInv
  <1> QED BY <1>1, InitInv, StepInv, PTL DEF Spec, Inv

-----------------------------------------------------------------------------
(* An entry says Filled of a new order that has filled whole; every other  *)
(* new report says something else; and what has filled whole stays whole.  *)
LEMMA StepFilled == TypeInv /\ LockInv /\ NoneRequested /\ FilledIsWhole /\ [Next]_vars
                      => FilledIsWhole'
  <1> SUFFICES ASSUME TypeInv, LockInv, NoneRequested, FilledIsWhole, [Next]_vars
               PROVE  FilledIsWhole'
    OBVIOUS
  <1> USE DEF FilledIsWhole
  <1>0. /\ DOMAIN tracked \subseteq DOMAIN broker
        /\ broker \in [DOMAIN broker -> BrokerOrder]
        /\ tracked \in [DOMAIN tracked -> Report]
    BY DEF TypeInv, TypeOK
  <1>1. ASSUME NEW id \in OrderIds, NEW q \in Quantities \ {0}, NEW f \in Quantities,
               NEW found \in BOOLEAN, Entry(id, q, f, found)
        PROVE  FilledIsWhole'
    <2> DEFINE rep == [GetOrderDetails(id, Order(q, f)) EXCEPT !.status = FillStatus(f, q)]
    <2>1. rep.status = "Filled" => f = q
      BY DEF GetOrderDetails, FillStatus
    <2>2. /\ broker'[id] = Order(q, f) /\ id \notin DOMAIN broker
          /\ \A j \in DOMAIN broker : broker'[j] = broker[j]
      BY <1>1 DEF Entry, New, With
    <2>3. Order(q, f).filled = f /\ Order(q, f).quantity = q
      BY DEF Order
    <2>4. tracked' = tracked \/ tracked' = With(tracked, id, rep)
      BY <1>1 DEF Entry
    <2>5. \A i \in DOMAIN tracked' :
            \/ i \in DOMAIN tracked /\ tracked'[i] = tracked[i]
            \/ i = id /\ tracked'[i] = rep
      <3> HIDE DEF rep
      <3> QED BY <2>4 DEF With
    <2> HIDE DEF rep
    <2> QED BY <1>0, <2>1, <2>2, <2>3, <2>5
  <1>2. ASSUME NEW order \in Reports, NEW e \in Quantities, Exit(order, e)
        PROVE  FilledIsWhole'
    <2> DEFINE rep == [order EXCEPT !.status = "PartiallyFilled"]
    <2>1. order \in Report /\ rep.status = "PartiallyFilled" /\ order.orderId \in DOMAIN tracked
      BY <1>2, ExitReport DEF Report
    <2>2. \A i \in DOMAIN broker : /\ broker'[i].quantity = broker[i].quantity
                                   /\ broker'[i].filled = broker[i].filled
      BY <1>2, ExitReport
    <2>3. tracked' = tracked \/ tracked' = With(tracked, order.orderId, rep)
      BY <1>2, ExitReport
    <2>4. \A i \in DOMAIN tracked' :
            i \in DOMAIN tracked /\ (tracked'[i] = tracked[i] \/ tracked'[i] = rep)
      <3> HIDE DEF rep
      <3> QED BY <2>1, <2>3 DEF With
    <2> HIDE DEF rep
    <2> QED BY <1>0, <2>1, <2>2, <2>4
  <1>3. ASSUME NEW order \in Reports, NEW cancelled \in BOOLEAN, CloseOrCancelOrder(order, cancelled)
        PROVE  FilledIsWhole'
    <2>1. \A i \in DOMAIN broker : /\ broker'[i].filled = broker[i].filled
                                   /\ broker'[i].quantity \in {broker[i].quantity, broker[i].filled}
      BY <1>0, <1>3 DEF CloseOrCancelOrder, BrokerOrder
    <2>2. tracked' = tracked
      BY <1>3 DEF CloseOrCancelOrder
    <2> QED BY <1>0, <2>1, <2>2
  <1>4. ASSUME NEW legs \in SUBSET OrderIds, NEW q \in Quantities \ {0}, SubmitOCOOrderLogs(legs, q)
        PROVE  FilledIsWhole'
    BY <1>0, <1>4 DEF SubmitOCOOrderLogs, New
  <1>5. ASSUME NEW legs \in SUBSET OrderIds, NEW q \in Quantities \ {0}, NEW found \in BOOLEAN,
               SubmitOCOOrder(legs, q, found)
        PROVE  FilledIsWhole'
    <2>1. \A i \in legs : GetOrderDetails(i, Order(q, 0)).status = "None"
      BY DEF GetOrderDetails
    <2>2. \A j \in DOMAIN broker : broker'[j] = broker[j]
      BY <1>5 DEF SubmitOCOOrder, New
    <2>3. \A i \in DOMAIN tracked' :
            \/ i \in DOMAIN tracked /\ tracked'[i] = tracked[i]
            \/ i \in legs /\ tracked'[i] = GetOrderDetails(i, Order(q, 0))
      BY <1>5 DEF SubmitOCOOrder
    <2> QED BY <1>0, <2>1, <2>2, <2>3
  <1>6. CASE AddMessageToLog
    BY <1>6 DEF AddMessageToLog
  <1>7. ASSUME NEW id \in OrderIds, Fill(id)
        PROVE  FilledIsWhole'
    <2>1. \A i \in DOMAIN broker : broker[i].filled \in Nat /\ broker[i].quantity \in Nat
      BY <1>0, SierraOrdersAssumption DEF BrokerOrder, Quantities
    <2>2. /\ tracked' = tracked
          /\ \A i \in DOMAIN broker : i # id => broker'[i] = broker[i]
          /\ broker[id].filled < broker[id].quantity
      BY <1>0, <1>7 DEF Fill
    <2> QED BY <1>0, <1>7, <2>1, <2>2 DEF Fill
  <1>8. CASE UNCHANGED vars
    BY <1>8 DEF vars
  <1> QED BY <1>1, <1>2, <1>3, <1>4, <1>5, <1>6, <1>7, <1>8 DEF Next, Study

(* A report that says Filled is about an order with no working rest.       *)
THEOREM FilledIsWholeHolds == Spec => []FilledIsWhole
  <1>1. Init => FilledIsWhole
    BY DEF Init, FilledIsWhole
  <1> QED BY <1>1, InitInv, StepInv, StepFilled, PTL DEF Spec

-----------------------------------------------------------------------------
(* No step, however the orders before it came to be, makes a report Filled *)
(* that was there before: entries report on new orders, exits on 0 asked.  *)
LEMMA StepNeverFilled ==
  TypeInv /\ LockInv /\ NoneRequested /\ [Next]_vars
    => [\A i \in DOMAIN tracked : tracked'[i].status = "Filled" => tracked[i] = tracked'[i]]_vars
  <1> DEFINE Kept == \A i \in DOMAIN tracked :
                       tracked'[i].status = "Filled" => tracked[i] = tracked'[i]
  <1> SUFFICES ASSUME TypeInv, LockInv, NoneRequested, Next
               PROVE  Kept
    OBVIOUS
  <1>0. DOMAIN tracked \subseteq DOMAIN broker
    BY DEF TypeInv, TypeOK
  <1>1. ASSUME NEW id \in OrderIds, NEW q \in Quantities \ {0}, NEW f \in Quantities,
               NEW found \in BOOLEAN, Entry(id, q, f, found)
        PROVE  Kept
    BY <1>0, <1>1 DEF Entry, New, With
  <1>2. ASSUME NEW order \in Reports, NEW e \in Quantities, Exit(order, e)
        PROVE  Kept
    <2> DEFINE rep == [order EXCEPT !.status = "PartiallyFilled"]
    <2>1. order \in Report /\ rep.status = "PartiallyFilled" /\ order.orderId \in DOMAIN tracked
      BY <1>2, ExitReport DEF Report
    <2>2. tracked' = tracked \/ tracked' = With(tracked, order.orderId, rep)
      BY <1>2, ExitReport
    <2>3. \A i \in DOMAIN tracked : tracked'[i] = tracked[i] \/ tracked'[i] = rep
      <3> HIDE DEF rep
      <3> QED BY <2>1, <2>2 DEF With
    <2> HIDE DEF rep
    <2> QED BY <2>1, <2>3
  <1>3. ASSUME NEW order \in Reports, NEW cancelled \in BOOLEAN, CloseOrCancelOrder(order, cancelled)
        PROVE  Kept
    BY <1>3 DEF CloseOrCancelOrder
  <1>4. ASSUME NEW legs \in SUBSET OrderIds, NEW q \in Quantities \ {0}, SubmitOCOOrderLogs(legs, q)
        PROVE  Kept
    BY <1>4 DEF SubmitOCOOrderLogs
  <1>5. ASSUME NEW legs \in SUBSET OrderIds, NEW q \in Quantities \ {0}, NEW found \in BOOLEAN,
               SubmitOCOOrder(legs, q, found)
        PROVE  Kept
    BY <1>0, <1>5 DEF SubmitOCOOrder, New
  <1>6. CASE AddMessageToLog
    BY <1>6 DEF AddMessageToLog
  <1>7. ASSUME NEW id \in OrderIds, Fill(id)
        PROVE  Kept
    BY <1>7 DEF Fill
  <1> QED BY <1>1, <1>2, <1>3, <1>4, <1>5, <1>6, <1>7 DEF Next, Study

(* An order becomes Filled by the report on its entry or never.            *)
THEOREM ExitNeverFilledHolds == Spec => ExitNeverFilled
  BY InitInv, StepInv, StepNeverFilled, PTL DEF Spec, ExitNeverFilled

-----------------------------------------------------------------------------
(* CloseOrCancelOrder calls an exit while it holds scMutex, and every      *)
(* function of the platform waits for scMutex: once a call has come so     *)
(* far, no step of the study's thread is left, whatever the market does.   *)
LEMMA StepHangs == LockInv /\ Next /\ pc # "idle" => UNCHANGED <<pc, scMutex, closing, tracked>>
  <1> SUFFICES ASSUME LockInv, Next, pc # "idle"
               PROVE  UNCHANGED <<pc, scMutex, closing, tracked>>
    OBVIOUS
  <1>1. scMutex = "held"
    BY DEF LockInv
  <1>2. ~Study
    BY <1>1 DEF Study, Entry, Exit, CloseOrCancelOrder, SubmitOCOOrderLogs, SubmitOCOOrder,
                AddMessageToLog, Idle
  <1> QED BY <1>2 DEF Next, Fill

(* A call that closes or cancels an order never returns.                   *)
THEOREM CloseNeverReturns == Spec => [][pc = "exit" => pc' = "exit"]_vars
  <1>1. LockInv /\ [Next]_vars => [pc = "exit" => pc' = "exit"]_vars
    BY StepHangs
  <1> QED BY <1>1, InitInv, StepInv, PTL DEF Spec
=============================================================================
