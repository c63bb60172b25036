--------------------------- MODULE TradeSystemProofs ---------------------------
(***************************************************************************)
(* Proofs about TradeSystem, for every set of pending orders, every set of *)
(* order ids, every filter chain and every strategy.                       *)
(***************************************************************************)
EXTENDS TradeSystem, TLAPS

(* A function over some order ids with executed orders as values is a map  *)
(* of orders, and the other way round.                                     *)
LEMMA OrdersIntro ==
  ASSUME NEW S \in SUBSET OrderIds, NEW f \in [S -> ExecutedOrder]
  PROVE  f \in Orders
BY DEF Orders

LEMMA OrdersElim ==
  ASSUME NEW f \in Orders
  PROVE  DOMAIN f \in SUBSET OrderIds /\ f \in [DOMAIN f -> ExecutedOrder]
BY DEF Orders

LEMMA NoOrdersType == NoOrders \in Orders /\ DOMAIN NoOrders = {}
<1>1. NoOrders \in [{} -> ExecutedOrder] /\ DOMAIN NoOrders = {}
  BY DEF NoOrders
<1>2. QED  BY <1>1, OrdersIntro

(* The loop that stores a vector of orders yields a map of orders over the *)
(* ids of both.                                                            *)
LEMMA StoreOrdersType ==
  ASSUME NEW a \in Orders, NEW b \in Orders
  PROVE  /\ StoreOrders(a, b) \in Orders
         /\ DOMAIN StoreOrders(a, b) = DOMAIN a \cup DOMAIN b
         /\ \A id \in DOMAIN StoreOrders(a, b) : StoreOrders(a, b)[id] =
              IF id \in DOMAIN b THEN b[id] ELSE a[id]
<1>1. /\ DOMAIN a \in SUBSET OrderIds /\ a \in [DOMAIN a -> ExecutedOrder]
      /\ DOMAIN b \in SUBSET OrderIds /\ b \in [DOMAIN b -> ExecutedOrder]
  BY OrdersElim
<1>2. StoreOrders(a, b) \in [DOMAIN a \cup DOMAIN b -> ExecutedOrder]
  BY <1>1 DEF StoreOrders
<1>3. StoreOrders(a, b) \in Orders
  BY <1>1, <1>2, OrdersIntro
<1>4. QED  BY <1>2, <1>3 DEF StoreOrders

(* r is the map a after the reports m, those in a final status erased. *)
AfterReports(r, a, m, final) ==
  /\ r \in Orders
  /\ DOMAIN r = {id \in DOMAIN a \cup DOMAIN m :
                   id \in DOMAIN m => m[id].status \notin final}
  /\ \A id \in DOMAIN r : r[id] = IF id \in DOMAIN m THEN m[id] ELSE a[id]

(* The loop that stores reports and erases final ones yields such a map. *)
LEMMA StoreManagedResult ==
  ASSUME NEW a \in Orders, NEW m \in Orders,
         NEW final \in SUBSET OrderStatus
  PROVE  AfterReports(StoreManaged(a, m, final), a, m, final)
<1> DEFINE D == {id \in DOMAIN a \cup DOMAIN m :
                   id \in DOMAIN m => m[id].status \notin final}
<1>1. /\ DOMAIN a \in SUBSET OrderIds /\ a \in [DOMAIN a -> ExecutedOrder]
      /\ DOMAIN m \in SUBSET OrderIds /\ m \in [DOMAIN m -> ExecutedOrder]
  BY OrdersElim
<1>2. StoreManaged(a, m, final) \in [D -> ExecutedOrder]
  BY <1>1 DEF StoreManaged
<1>3. StoreManaged(a, m, final) \in Orders
  BY <1>1, <1>2, OrdersIntro
<1>4. QED  BY <1>2, <1>3 DEF StoreManaged, AfterReports

(* The second pass over the reports, in Process, decides alone: the first  *)
(* pass, in TradeSystem::ManageActiveOrders, leaves no trace.              *)
THEOREM SecondPassDecides ==
  ASSUME NEW a \in Orders, NEW m \in Orders
  PROVE  StoreManaged(StoreManaged(a, m, ManagerFinal), m, ProcessFinal)
           = StoreManaged(a, m, ProcessFinal)
<1> DEFINE first == StoreManaged(a, m, ManagerFinal)
           twice == StoreManaged(first, m, ProcessFinal)
           once == StoreManaged(a, m, ProcessFinal)
<1>0. ManagerFinal \in SUBSET OrderStatus /\ ProcessFinal \in SUBSET OrderStatus
  BY DEF ManagerFinal, ProcessFinal, OrderStatus
<1>1. AfterReports(first, a, m, ManagerFinal)
  BY <1>0, StoreManagedResult
<1>2. first \in Orders
  BY <1>1 DEF AfterReports
<1>3. AfterReports(once, a, m, ProcessFinal)
  BY <1>0, StoreManagedResult
<1> HIDE DEF first
<1>4. AfterReports(twice, first, m, ProcessFinal)
  BY <1>0, <1>2, StoreManagedResult
<1> HIDE DEF twice, once
<1>5. DOMAIN twice = DOMAIN once /\ \A id \in DOMAIN once : twice[id] = once[id]
  BY <1>1, <1>3, <1>4 DEF AfterReports, ManagerFinal, ProcessFinal
<1>6. /\ twice \in [DOMAIN twice -> ExecutedOrder]
      /\ once \in [DOMAIN once -> ExecutedOrder]
  BY <1>3, <1>4, OrdersElim DEF AfterReports
<1>7. twice = once
  BY <1>5, <1>6
<1>8. QED  BY <1>7 DEF first, twice, once

(* What a vector of reports comes to is a map of orders.                   *)
LEMMA ReportsAreOrders == Reports \subseteq Orders
<1> SUFFICES ASSUME NEW r \in Reports PROVE r \in Orders
  OBVIOUS
<1>1. PICK S \in SUBSET OrderIds :
        r \in [S -> [status : OrderStatus, acceptable : RiskFlags]]
  BY DEF Reports
<1>2. [status : OrderStatus, acceptable : RiskFlags] \subseteq ExecutedOrder
  BY TradeSystemAssumption DEF TradeSystemAssumption, ExecutedOrder
<1>3. r \in [S -> ExecutedOrder]
  BY <1>1, <1>2
<1>4. QED  BY <1>3, OrdersIntro

(* What Process stores back after the risk audit is what it already had.   *)
LEMMA AuditStoresNothingNew ==
  ASSUME TypeOK, CloseOrCancelOrderReturns
  PROVE  activeOrders' = activeOrders
<1> DEFINE back == [id \in ToClose |-> activeOrders[id]]
<1>1. /\ activeOrders \in Orders
      /\ DOMAIN activeOrders \in SUBSET OrderIds
      /\ activeOrders \in [DOMAIN activeOrders -> ExecutedOrder]
  BY OrdersElim DEF TypeOK
<1>2. ToClose \subseteq DOMAIN activeOrders
  BY DEF ToClose, Unacceptable
<1>3. DOMAIN back = ToClose /\ \A id \in ToClose : back[id] = activeOrders[id]
  OBVIOUS
<1> HIDE DEF back
<1>4. StoreOrders(activeOrders, back)
        = [id \in DOMAIN activeOrders |-> activeOrders[id]]
  BY <1>2, <1>3 DEF StoreOrders
<1>5. activeOrders' = activeOrders \/ activeOrders' = StoreOrders(activeOrders, back)
  BY DEF CloseOrCancelOrderReturns, back
<1>6. QED  BY <1>1, <1>4, <1>5

-----------------------------------------------------------------------------
(* Whatever happens, the variables keep their types. *)
LEMMA InitType == Init => TypeOK
<1> SUFFICES ASSUME Init PROVE TypeOK
  OBVIOUS
<1>1. passedPositionAudit \in BOOLEAN
  BY DEF Init
<1>2. filterIndex \in 0..NumFilters
  BY TradeSystemAssumption DEF Init, TradeSystemAssumption
<1>3. QED  BY <1>1, <1>2, NoOrdersType DEF Init, TypeOK, Stage

LEMMA ManagedType ==
  ASSUME TypeOK, ManageActiveOrders
  PROVE  /\ managedOrders' \in Orders
         /\ AfterReports(activeOrders', activeOrders, managedOrders', ProcessFinal)
<1>1. managedOrders' \in Orders /\ activeOrders \in Orders
  BY ReportsAreOrders, NoOrdersType DEF ManageActiveOrders, TypeOK
<1>2. activeOrders' = StoreManaged(activeOrders, managedOrders', ProcessFinal)
  BY <1>1, SecondPassDecides DEF ManageActiveOrders
<1>3. ProcessFinal \in SUBSET OrderStatus
  BY DEF ProcessFinal, OrderStatus
<1>4. QED  BY <1>1, <1>2, <1>3, StoreManagedResult

(* What remains of a type-correct state when Process returns. *)
LEMMA ReturnType ==
  ASSUME TypeOK, Return, activeOrders' \in Orders
  PROVE  TypeOK'
<1>1. passedPositionAudit' \in BOOLEAN
  BY DEF Return
<1>2. filterIndex' \in 0..NumFilters
  BY TradeSystemAssumption DEF Return, TradeSystemAssumption
<1>3. QED  BY <1>1, <1>2, NoOrdersType DEF Return, TypeOK, Stage

LEMMA StepType == TypeOK /\ [Next]_vars => TypeOK'
<1> SUFFICES ASSUME TypeOK, [Next]_vars PROVE TypeOK'
  OBVIOUS
<1> USE TradeSystemAssumption DEF TradeSystemAssumption, Stage
<1>0. ToClose \subseteq OrderIds
  BY OrdersElim DEF TypeOK, ToClose, Unacceptable
<1>1. CASE RiskAuditActiveOrders
  BY <1>0, <1>1 DEF RiskAuditActiveOrders, TypeOK, locals
<1>2. CASE CloseOrCancelOrderReturns
  <2>1. activeOrders' = activeOrders
    BY <1>2, AuditStoresNothingNew
  <2>2. QED  BY <1>0, <1>2, <2>1 DEF CloseOrCancelOrderReturns, TypeOK, locals
<1>3. CASE ManageActiveOrders
  <2>1. managedOrders' \in Orders /\ activeOrders' \in Orders
    BY <1>3, ManagedType DEF AfterReports
  <2>2. DOMAIN managedOrders' \subseteq OrderIds
    BY <2>1, OrdersElim
  <2>3. QED  BY <1>3, <2>1, <2>2 DEF ManageActiveOrders, TypeOK
<1>4. CASE GenerateNothing \/ OrderProcessorThrows
  BY <1>4, ReturnType DEF GenerateNothing, OrderProcessorThrows, TypeOK
<1>5. CASE GeneratePendingOrders
  BY <1>5, NoOrdersType DEF GeneratePendingOrders, TypeOK
<1>6. CASE AuditPosition
  <2>1. CASE Return
    BY <1>6, <2>1, ReturnType DEF AuditPosition, TypeOK
  <2>2. CASE ~Return
    BY <1>6, <2>2 DEF AuditPosition, TypeOK, history
  <2>3. QED  BY <2>1, <2>2
<1>7. CASE RiskAuditPendingOrders
  <2>1. CASE Return
    BY <1>7, <2>1, ReturnType DEF RiskAuditPendingOrders, TypeOK
  <2>2. CASE ~Return
    BY <1>7, <2>2 DEF RiskAuditPendingOrders, ValidOrders, TypeOK
  <2>3. QED  BY <2>1, <2>2
<1>8. CASE FilterPendingOrders
  BY <1>8 DEF FilterPendingOrders, TypeOK
<1>9. CASE FiltersDone
  BY <1>9 DEF FiltersDone, TypeOK, locals, history
<1>10. ASSUME NEW o \in PendingRefs, Submit(o) PROVE TypeOK'
  <2>1. PICK reports \in Reports :
          executedOrders' = StoreOrders(executedOrders, reports)
    BY <1>10 DEF Submit
  <2>2. executedOrders' \in Orders
    BY <2>1, ReportsAreOrders, StoreOrdersType DEF TypeOK
  <2>3. QED  BY <1>10, <2>2 DEF Submit, TypeOK
<1>11. CASE ExecutePendingOrders
  <2>1. activeOrders' \in Orders
    BY <1>11, StoreOrdersType DEF ExecutePendingOrders, TypeOK
  <2>2. QED  BY <1>11, <2>1, ReturnType DEF ExecutePendingOrders
<1>12. CASE UNCHANGED vars
  BY <1>12 DEF vars, locals, history, TypeOK
<1>13. QED
  BY <1>1, <1>2, <1>3, <1>4, <1>5, <1>6, <1>7, <1>8, <1>9, <1>10, <1>11, <1>12
  DEF Next, Process

(* Type correctness: every reachable state is well typed.                  *)
THEOREM TypeCorrect == Spec => []TypeOK
<1>1. QED  BY InitType, StepType, PTL DEF Spec

-----------------------------------------------------------------------------
(* The batch at every stage: it comes from this cycle's generation; after  *)
(* the audit it holds acceptable orders only; what was rejected never      *)
(* comes back; nothing is submitted before the execute stage, which only a *)
(* position that passed and a whole chain of filters lead to.              *)
GateInv ==
  /\ EntryGated
  /\ pendingOrders \subseteq generated \ rejected
  /\ pc \in {"filter", "execute"} => pendingOrders \subseteq acceptable
  /\ pc \in {"audit", "filter", "execute"} => passedPositionAudit
  /\ pc = "execute" => filterIndex = NumFilters
  /\ pc # "execute" => submitted = {}
  /\ pc \in {"idle", "closing", "manage", "generate", "position"} => rejected = {}

LEMMA ReturnGate == Return => GateInv'
BY DEF Return, GateInv, EntryGated

LEMMA StepGate == TypeOK /\ GateInv /\ [Next]_vars => GateInv'
<1> SUFFICES ASSUME TypeOK, GateInv, [Next]_vars PROVE GateInv'
  OBVIOUS
<1>1. CASE Return
  BY <1>1, ReturnGate
<1> USE DEF GateInv, EntryGated
<1>2. CASE RiskAuditActiveOrders
  BY <1>2 DEF RiskAuditActiveOrders, locals
<1>3. CASE CloseOrCancelOrderReturns
  BY <1>3 DEF CloseOrCancelOrderReturns, locals
<1>4. CASE ManageActiveOrders
  BY <1>4 DEF ManageActiveOrders
<1>5. CASE GeneratePendingOrders
  BY <1>5 DEF GeneratePendingOrders
<1>6. CASE AuditPosition /\ ~Return
  BY <1>6 DEF AuditPosition, history
<1>7. CASE RiskAuditPendingOrders /\ ~Return
  <2>1. /\ pc = "audit" /\ pc' = "filter"
        /\ pendingOrders' = pendingOrders \cap acceptable
        /\ rejected' = rejected \cup (pendingOrders \ (pendingOrders \cap acceptable))
        /\ UNCHANGED <<acceptable, passedPositionAudit, filterIndex, generated,
                       submitted>>
    BY <1>7 DEF RiskAuditPendingOrders, ValidOrders
  <2>2. submitted' = {} /\ passedPositionAudit'
    BY <2>1
  <2>3. pendingOrders' \subseteq generated' \ rejected'
    BY <2>1
  <2>4. QED  BY <2>1, <2>2, <2>3
<1>8. CASE FilterPendingOrders
  BY <1>8 DEF FilterPendingOrders
<1>9. CASE FiltersDone
  BY <1>9 DEF FiltersDone, locals, history
<1>10. ASSUME NEW o \in PendingRefs, Submit(o) PROVE GateInv'
  BY <1>10 DEF Submit
<1>11. CASE UNCHANGED vars
  BY <1>11 DEF vars, locals, history
<1>12. QED
  BY <1>1, <1>2, <1>3, <1>4, <1>5, <1>6, <1>7, <1>8, <1>9, <1>10, <1>11
  DEF Next, Process, GenerateNothing, OrderProcessorThrows, ExecutePendingOrders

(* Every entry handed to the order manager was generated in this cycle,    *)
(* has an acceptable risk and passed the audits and every filter.          *)
THEOREM EntriesAreGated == Spec => []EntryGated
<1>1. Init => GateInv
  BY DEF Init, GateInv, EntryGated
<1>2. GateInv => EntryGated
  BY DEF GateInv
<1>3. QED  BY <1>1, <1>2, StepGate, TypeCorrect, PTL DEF Spec

-----------------------------------------------------------------------------
(* From the end of the audit on, an order still flagged unacceptable       *)
(* either had its close requested in this cycle or was reported on since.  *)
CloseInv ==
  /\ pc = "manage" => Unacceptable(activeOrders) \subseteq closeRequested
  /\ pc \notin {"idle", "closing", "manage"} =>
       Unacceptable(activeOrders) \subseteq closeRequested \cup reported

LEMMA StepClose == TypeOK /\ CloseInv /\ [Next]_vars => CloseInv'
<1> SUFFICES ASSUME TypeOK, CloseInv, [Next]_vars PROVE CloseInv'
  OBVIOUS
<1> USE DEF CloseInv
<1>1. CASE Return
  BY <1>1 DEF Return
<1>2. CASE RiskAuditActiveOrders
  BY <1>2 DEF RiskAuditActiveOrders, ToClose
<1>3. CASE CloseOrCancelOrderReturns
  <2>1. activeOrders' = activeOrders
    BY <1>3, AuditStoresNothingNew
  <2>2. QED  BY <1>3, <2>1 DEF CloseOrCancelOrderReturns, ToClose, Unacceptable
<1>4. CASE ManageActiveOrders
  <2>1. AfterReports(activeOrders', activeOrders, managedOrders', ProcessFinal)
    BY <1>4, ManagedType
  <2>2. ASSUME NEW id \in DOMAIN activeOrders', ~activeOrders'[id].acceptable,
               id \notin DOMAIN managedOrders'
        PROVE  id \in closeRequested
    <3>1. id \in DOMAIN activeOrders /\ activeOrders'[id] = activeOrders[id]
      BY <2>1, <2>2 DEF AfterReports
    <3>2. QED  BY <1>4, <2>2, <3>1 DEF ManageActiveOrders, Unacceptable
  <2>3. /\ closeRequested' = closeRequested /\ reported' = DOMAIN managedOrders'
        /\ pc' = "generate"
    BY <1>4 DEF ManageActiveOrders
  <2>4. QED  BY <2>2, <2>3 DEF Unacceptable
<1>5. CASE /\ UNCHANGED <<activeOrders, closeRequested, reported>>
           /\ \/ pc' = pc
              \/ pc \notin {"idle", "closing", "manage"} /\ pc' # "manage"
  BY <1>5
<1>6. CASE GeneratePendingOrders
  BY <1>5, <1>6 DEF GeneratePendingOrders
<1>7. CASE AuditPosition /\ ~Return
  BY <1>5, <1>7 DEF AuditPosition, history
<1>8. CASE RiskAuditPendingOrders /\ ~Return
  BY <1>5, <1>8 DEF RiskAuditPendingOrders
<1>9. CASE FilterPendingOrders \/ FiltersDone
  BY <1>5, <1>9 DEF FilterPendingOrders, FiltersDone, history
<1>10. ASSUME NEW o \in PendingRefs, Submit(o) PROVE CloseInv'
  BY <1>5, <1>10 DEF Submit
<1>11. CASE UNCHANGED vars
  BY <1>5, <1>11 DEF vars, history
<1>12. QED
  BY <1>1, <1>2, <1>3, <1>4, <1>6, <1>7, <1>8, <1>9, <1>10, <1>11
  DEF Next, Process, GenerateNothing, OrderProcessorThrows, ExecutePendingOrders

(* No entry is placed while a tracked order with an unacceptable risk has  *)
(* neither had its close requested nor been reported on in this cycle.     *)
THEOREM ClosesBeforeEntries == Spec => []CloseBeforeEntry
<1>1. Init => CloseInv
  BY DEF Init, CloseInv
<1>2. CloseInv => CloseBeforeEntry
  BY DEF CloseInv, CloseBeforeEntry
<1>3. QED  BY <1>1, <1>2, StepClose, TypeCorrect, PTL DEF Spec

-----------------------------------------------------------------------------
(* What a step may do to an order that is active before it. *)
TrackedStep ==
  \A id \in DOMAIN activeOrders :
    \/ id \in DOMAIN activeOrders' /\ activeOrders'[id] = activeOrders[id]
    \/ /\ pc = "manage" /\ id \in DOMAIN managedOrders'
       /\ IF managedOrders'[id].status = "None"
          THEN /\ id \in DOMAIN activeOrders'
               /\ activeOrders'[id] = managedOrders'[id]
          ELSE id \notin DOMAIN activeOrders'
    \/ /\ pc = "execute" /\ id \in DOMAIN executedOrders
       /\ id \in DOMAIN activeOrders'
       /\ activeOrders'[id] = executedOrders[id]

LEMMA StepTracked == TypeOK /\ [Next]_vars => TrackedStep
<1> SUFFICES ASSUME TypeOK, [Next]_vars PROVE TrackedStep
  OBVIOUS
<1>1. CASE activeOrders' = activeOrders
  BY <1>1 DEF TrackedStep
<1>2. CASE ManageActiveOrders
  <2>1. /\ AfterReports(activeOrders', activeOrders, managedOrders', ProcessFinal)
        /\ managedOrders' \in Orders
    BY <1>2, ManagedType
  <2>2. pc = "manage"
    BY <1>2 DEF ManageActiveOrders
  <2>3. \A id \in DOMAIN managedOrders' :
          managedOrders'[id].status \in {"None", "Filled", "Cancelled"}
    <3>1. managedOrders' \in [DOMAIN managedOrders' -> ExecutedOrder]
      BY <2>1, OrdersElim
    <3>2. \A id \in DOMAIN managedOrders' : managedOrders'[id] \in ExecutedOrder
      BY <3>1
    <3>3. QED  BY <3>2 DEF ExecutedOrder, OrderStatus
  <2>4. QED  BY <2>1, <2>2, <2>3 DEF AfterReports, ProcessFinal, TrackedStep
<1>3. CASE ExecutePendingOrders
  <2>1. activeOrders' = StoreOrders(activeOrders, executedOrders) /\ pc = "execute"
    BY <1>3 DEF ExecutePendingOrders
  <2>2. /\ DOMAIN activeOrders' = DOMAIN activeOrders \cup DOMAIN executedOrders
        /\ \A id \in DOMAIN activeOrders' : activeOrders'[id] =
             IF id \in DOMAIN executedOrders THEN executedOrders[id]
                                             ELSE activeOrders[id]
    BY <2>1 DEF StoreOrders
  <2>3. QED  BY <2>1, <2>2 DEF TrackedStep
<1>4. CASE CloseOrCancelOrderReturns
  BY <1>1, <1>4, AuditStoresNothingNew
<1>5. QED
  BY <1>1, <1>2, <1>3, <1>4 DEF Next, Process, RiskAuditActiveOrders,
     GenerateNothing, GeneratePendingOrders, AuditPosition,
     RiskAuditPendingOrders, FilterPendingOrders, FiltersDone, Submit,
     OrderProcessorThrows, vars

(* An active order is changed or dropped only by a report about it: no     *)
(* audit, no close and no other stage ever touches it.                     *)
THEOREM TrackedUntilFinalHolds == Spec => TrackedUntilFinal
<1>1. TypeOK /\ [Next]_vars => [TrackedStep]_vars
  BY StepTracked
<1>2. Spec => [][TrackedStep]_vars
  BY <1>1, TypeCorrect, PTL DEF Spec
<1>3. QED  BY <1>2 DEF TrackedStep, TrackedUntilFinal
=============================================================================
