------------------------------ MODULE TradeSystem ------------------------------
(***************************************************************************)
(* One trade iteration of TradeSystem::Process, which the Sierra Chart     *)
(* study callback runs again and again on a single thread:                 *)
(*                                                                         *)
(*   idle -> closing -> manage -> generate -> position -> audit -> filter  *)
(*        -> execute                                                       *)
(*                                                                         *)
(* with the early return to idle the code has at each stage.  The stages   *)
(* work on activeOrders_, the orders the system believes it owns.  What is *)
(* behind an interface is not the library's: the order processor reports   *)
(* any orders it likes, the position's verdict is any verdict, and a call  *)
(* of CloseOrCancelOrder may or may not return.  Filters are taken to do   *)
(* what their name says: they keep some of the orders they are given.  The *)
(* managers are DefaultRiskManager and DefaultOrderManager.                *)
(***************************************************************************)
EXTENDS Naturals, FiniteSets

CONSTANTS
  PendingRefs,    \* the pending orders the strategy can generate in one cycle
  OrderIds,       \* the order ids a report can carry (a bound)
  NumFilters,     \* length of pendingOrderFilters_, 0 when it is nullopt
  RiskFlags       \* values orderRisk.acceptable can have on an order somebody built

ASSUME TradeSystemAssumption ==
  /\ NumFilters \in Nat
  /\ RiskFlags \subseteq BOOLEAN

VARIABLES
  pc,             \* the stage of Process, "idle" between two calls
  activeOrders,   \* activeOrders_: order id -> the order as last reported
  managedOrders,  \* what ManageActiveOrders returned, until its last reader is done
  pendingOrders,  \* the vector handed from stage to stage
  acceptable,     \* the pending orders whose orderRisk.acceptable is true
  passedPositionAudit, \* the verdict on the position in this cycle
  filterIndex,    \* filters of the chain already run
  executedOrders  \* results collected by DefaultOrderManager::ExecutePendingOrders

(* History of the current cycle, read by the properties only. *)
VARIABLES
  generated,      \* pending orders of this cycle
  rejected,       \* pending orders the audit or a filter took out of the batch
  submitted,      \* pending orders handed to the order processor
  closeRequested, \* active orders passed to CloseOrCancelOrder
  reported        \* ids the order processor reported on in the manage stage

locals == <<managedOrders, pendingOrders, acceptable, passedPositionAudit,
            filterIndex, executedOrders>>
history == <<generated, rejected, submitted, closeRequested, reported>>
vars == <<pc, activeOrders, locals, history>>

Stage == {"idle", "closing", "manage", "generate", "position", "audit",
          "filter", "execute"}

(* OrderStatus::None stands for PartiallyFilled as well: no code that is   *)
(* modelled here tells the two apart, nor Rejected from Cancelled.         *)
OrderStatus == {"None", "Filled", "Cancelled"}
ExecutedOrder == [status : OrderStatus, acceptable : BOOLEAN]
Orders == UNION {[S -> ExecutedOrder] : S \in SUBSET OrderIds}
NoOrders == [id \in {} |-> [status |-> "None", acceptable |-> FALSE]]

(* What a vector of reports comes to: of several reports on one order both *)
(* loops below leave what the last one says.                               *)
Reports ==
  UNION {[S -> [status : OrderStatus, acceptable : RiskFlags]] :
           S \in SUBSET OrderIds}

-----------------------------------------------------------------------------
(* The operations on the map activeOrders_. *)

(* activeOrders_[order.orderId] = order, for every order of a vector. *)
StoreOrders(active, orders) ==
  [id \in DOMAIN active \cup DOMAIN orders |->
     IF id \in DOMAIN orders THEN orders[id] ELSE active[id]]

(* The same loop with the orders in a final status erased instead. *)
StoreManaged(active, managed, final) ==
  [id \in {i \in DOMAIN active \cup DOMAIN managed :
             i \in DOMAIN managed => managed[i].status \notin final} |->
     IF id \in DOMAIN managed THEN managed[id] ELSE active[id]]

(* The statuses on which each of the two passes over the reports erases. *)
ManagerFinal == {"Cancelled"}
ProcessFinalOnlyFilled == {"Filled"}
ProcessFinal == {"Filled", "Cancelled"}

Unacceptable(orders) == {id \in DOMAIN orders : ~orders[id].acceptable}

-----------------------------------------------------------------------------
Init ==
  /\ pc = "idle"
  /\ activeOrders = NoOrders
  /\ managedOrders = NoOrders /\ executedOrders = NoOrders
  /\ pendingOrders = {} /\ acceptable = {} /\ passedPositionAudit = FALSE
  /\ filterIndex = 0
  /\ generated = {} /\ rejected = {} /\ submitted = {}
  /\ closeRequested = {} /\ reported = {}

(* Process returns: its locals are gone, and the cycle's history with them. *)
Return ==
  /\ pc' = "idle"
  /\ managedOrders' = NoOrders /\ executedOrders' = NoOrders
  /\ pendingOrders' = {} /\ acceptable' = {} /\ passedPositionAudit' = FALSE
  /\ filterIndex' = 0
  /\ generated' = {} /\ rejected' = {} /\ submitted' = {}
  /\ closeRequested' = {} /\ reported' = {}

(* The active orders the risk manager closes: AuditActiveOrders reads the  *)
(* flag the order was built with; EvaluateActiveOrder's result is dropped. *)
ToCloseUnfilledOnly ==
  {id \in Unacceptable(activeOrders) : activeOrders[id].status # "Filled"}
ToClose == Unacceptable(activeOrders)

(* A call of Process for which ManageSession returned true: the audit of   *)
(* the active orders begins, with the first call of CloseOrCancelOrder if  *)
(* there is an order to close.                                             *)
RiskAuditActiveOrders ==
  /\ pc = "idle"
  /\ \/ /\ ToClose = {}
        /\ pc' = "manage"
        /\ UNCHANGED closeRequested
     \/ /\ pc' = "closing"
        /\ \E id \in ToClose : closeRequested' = {id}
  /\ UNCHANGED <<activeOrders, locals, generated, rejected, submitted, reported>>

(* The mutated form of the step below ends the audit with its first close. *)
FirstCloseReturns ==
  /\ pc = "closing"
  /\ pc' = "manage"
  /\ activeOrders' =
       StoreOrders(activeOrders, [id \in closeRequested |-> activeOrders[id]])
  /\ UNCHANGED <<closeRequested, locals, generated, rejected, submitted, reported>>

(* A call of CloseOrCancelOrder returns, whatever it did, and its result   *)
(* is dropped: the audit goes on to the next order, or ends, and Process   *)
(* stores the orders the audit was given back where they were.  Nothing    *)
(* says that the call returns: SierraOrders shows one that never does.     *)
CloseOrCancelOrderReturns ==
  /\ pc = "closing"
  /\ \/ /\ \E id \in ToClose \ closeRequested :
             closeRequested' = closeRequested \cup {id}
        /\ UNCHANGED <<pc, activeOrders>>
     \/ /\ ToClose \subseteq closeRequested
        /\ pc' = "manage"
        /\ activeOrders' =
             StoreOrders(activeOrders, [id \in ToClose |-> activeOrders[id]])
        /\ UNCHANGED closeRequested
  /\ UNCHANGED <<locals, generated, rejected, submitted, reported>>

(* The order processor sees every active order and may report on any order *)
(* for it, tracked or not.  The reports are stored twice, by               *)
(* TradeSystem::ManageActiveOrders and again by Process, which also erases *)
(* the filled ones.                                                        *)
ManageActiveOrders ==
  /\ pc = "manage"
  /\ managedOrders' \in (IF DOMAIN activeOrders = {} THEN {NoOrders} ELSE Reports)
  /\ activeOrders' =
       StoreManaged(StoreManaged(activeOrders, managedOrders', ManagerFinal),
                    managedOrders', ProcessFinal)
  /\ reported' = DOMAIN managedOrders'
  /\ pc' = "generate"
  /\ UNCHANGED <<pendingOrders, acceptable, passedPositionAudit, filterIndex,
                 executedOrders, generated, rejected, submitted, closeRequested>>

(* SignalManager::GeneratePendingOrders returned nullopt. *)
GenerateNothing ==
  /\ pc = "generate"
  /\ Return
  /\ UNCHANGED activeOrders

GeneratePendingOrders ==
  /\ pc = "generate"
  /\ \E batch \in SUBSET PendingRefs :
       /\ pendingOrders' = batch
       /\ generated' = batch
       /\ \E flag \in [batch -> RiskFlags] :
            acceptable' = {o \in batch : flag[o]}
  /\ managedOrders' = NoOrders
  /\ pc' = "position"
  /\ UNCHANGED <<activeOrders, passedPositionAudit, filterIndex, executedOrders,
                 rejected, submitted, closeRequested, reported>>

(* GetPositionData and AuditPosition run once, before the batch.  The      *)
(* verdict is the position risk processor's: the library has no limit.     *)
AuditPosition ==
  /\ pc = "position"
  /\ \/ /\ pc' = "audit"
        /\ passedPositionAudit' = TRUE
        /\ UNCHANGED <<managedOrders, pendingOrders, acceptable, filterIndex,
                       executedOrders, history>>
     \/ Return
  /\ UNCHANGED activeOrders

(* DefaultRiskManager::AuditPendingOrders keeps the orders whose own flag  *)
(* is set; nullopt, and the end of the cycle, when none is left.           *)
ValidOrdersAll == pendingOrders
ValidOrders == pendingOrders \cap acceptable

RiskAuditPendingOrders ==
  /\ pc = "audit"
  /\ \/ /\ ValidOrders # {}
        /\ pc' = "filter"
        /\ pendingOrders' = ValidOrders
        /\ rejected' = rejected \cup (pendingOrders \ ValidOrders)
        /\ UNCHANGED <<managedOrders, acceptable, passedPositionAudit,
                       filterIndex, executedOrders, generated, submitted,
                       closeRequested, reported>>
     \/ ValidOrders = {} /\ Return
  /\ UNCHANGED activeOrders

(* The next filter of the chain, applied to what the previous one left. *)
FilterPendingOrders ==
  /\ pc = "filter" /\ filterIndex < NumFilters
  /\ \E kept \in SUBSET pendingOrders :
       /\ pendingOrders' = kept
       /\ rejected' = rejected \cup (pendingOrders \ kept)
  /\ filterIndex' = filterIndex + 1
  /\ UNCHANGED <<pc, activeOrders, managedOrders, acceptable,
                 passedPositionAudit, executedOrders, generated, submitted,
                 closeRequested, reported>>

FiltersDone ==
  /\ pc = "filter" /\ filterIndex = NumFilters
  /\ pc' = "execute"
  /\ UNCHANGED <<activeOrders, locals, history>>

(* The order processor is given pending order o and answers with a vector  *)
(* of any orders: none for an entry that is refused or whose details are   *)
(* not found, two for an OCO order, filled, resting or otherwise.          *)
Submit(o) ==
  /\ pc = "execute" /\ o \in pendingOrders
  /\ pendingOrders' = pendingOrders \ {o}
  /\ submitted' = submitted \cup {o}
  /\ \E reports \in Reports :
       executedOrders' = StoreOrders(executedOrders, reports)
  /\ UNCHANGED <<pc, activeOrders, managedOrders, acceptable,
                 passedPositionAudit, filterIndex, generated, rejected,
                 closeRequested, reported>>

(* The order processor throws, as SubmitOCOOrder does for a leg without    *)
(* details: nothing in Process catches it, and the vector is lost.         *)
OrderProcessorThrows ==
  /\ \/ pc = "manage" /\ DOMAIN activeOrders # {}
     \/ pc = "execute" /\ pendingOrders # {}
  /\ Return
  /\ UNCHANGED activeOrders

(* The batch is done: every executed order becomes active, whatever its    *)
(* status, and Process returns.                                            *)
ExecutePendingOrders ==
  /\ pc = "execute" /\ pendingOrders = {}
  /\ activeOrders' = StoreOrders(activeOrders, executedOrders)
  /\ Return

Process ==
  \/ RiskAuditActiveOrders
  \/ ManageActiveOrders
  \/ GenerateNothing
  \/ GeneratePendingOrders
  \/ AuditPosition
  \/ RiskAuditPendingOrders
  \/ FilterPendingOrders
  \/ FiltersDone
  \/ \E o \in PendingRefs : Submit(o)
  \/ OrderProcessorThrows
  \/ ExecutePendingOrders

Next == Process \/ CloseOrCancelOrderReturns

Spec == Init /\ [][Next]_vars

(* The study callback keeps calling Process, and Process keeps running but *)
(* for a call of CloseOrCancelOrder, which need not return.                *)
FairSpec == Spec /\ WF_vars(Process)

-----------------------------------------------------------------------------
(* Every variable stays in its type. *)
TypeOK ==
  /\ pc \in Stage
  /\ activeOrders \in Orders /\ managedOrders \in Orders
  /\ executedOrders \in Orders
  /\ pendingOrders \subseteq PendingRefs /\ acceptable \subseteq PendingRefs
  /\ passedPositionAudit \in BOOLEAN
  /\ filterIndex \in 0..NumFilters
  /\ generated \subseteq PendingRefs /\ rejected \subseteq PendingRefs
  /\ submitted \subseteq PendingRefs
  /\ closeRequested \subseteq OrderIds /\ reported \subseteq OrderIds

(* Process hands the order manager an order only if the strategy generated *)
(* it in this very cycle, its risk was acceptable, neither the audit nor   *)
(* any filter of the chain had taken it out, the whole chain has run and   *)
(* the position passed its audit; no order goes in twice.                  *)
EntryGated ==
  /\ submitted \subseteq (generated \cap acceptable) \ rejected
  /\ submitted # {} => passedPositionAudit /\ filterIndex = NumFilters
  /\ pc = "execute" => pendingOrders \cap submitted = {}

(* Risk is reduced before it is added: while entries are placed, every     *)
(* tracked order flagged unacceptable has had its close requested in this  *)
(* cycle, unless the order processor reported on it after the audit.       *)
CloseBeforeEntry ==
  pc = "execute" => Unacceptable(activeOrders) \subseteq closeRequested \cup reported

(* An order that is tracked changes only in the manage stage, where the    *)
(* last report on it decides whether it stays, or by a report of the batch *)
(* just executed, which never removes it.  An order nobody reported on is  *)
(* untouched, whatever its close came to.                                  *)
TrackedUntilFinal ==
  [][\A id \in DOMAIN activeOrders :
       \/ id \in DOMAIN activeOrders' /\ activeOrders'[id] = activeOrders[id]
       \/ /\ pc = "manage" /\ id \in DOMAIN managedOrders'
          /\ IF managedOrders'[id].status = "None"
             THEN /\ id \in DOMAIN activeOrders'
                  /\ activeOrders'[id] = managedOrders'[id]
             ELSE id \notin DOMAIN activeOrders'
       \/ /\ pc = "execute" /\ id \in DOMAIN executedOrders
          /\ id \in DOMAIN activeOrders'
          /\ activeOrders'[id] = executedOrders[id]]_vars

(* The result of a close is dropped, so nothing but a later cycle can make *)
(* up for one that failed: an order that stays unacceptable is closed      *)
(* again and again, through failed closes, reports that keep it and cycles *)
(* an exception cuts short, unless one of the calls never returns.         *)
CloseIsRetried ==
  \A id \in OrderIds :
    <>[](id \in Unacceptable(activeOrders)) =>
      \/ <>[](pc = "closing")
      \/ []<>(pc = "manage" /\ id \in closeRequested)
=============================================================================
