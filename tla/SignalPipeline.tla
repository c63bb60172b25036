---------------------------- MODULE SignalPipeline ----------------------------
(***************************************************************************)
(* One strategy's way from a chart update to pending orders: the platform  *)
(* decides whether the update is worth an iteration, the generator adds    *)
(* signals to the container, the level manager adds the ones its levels    *)
(* give (through its synchronous Messaging), the processor turns waiting   *)
(* signals into orders, and the ones it marked are cleared.                *)
(*                                                                         *)
(* The strategy "default" runs DefaultSignalGenerator and                  *)
(* DefaultSignalProcessor; "custom" stands for the classes a user derives  *)
(* from SignalGenerator, SignalProcessor, LevelGenerator, LevelProcessor.  *)
(* A mixture is one of its cases: a user's classes may do what the default *)
(* ones do.                                                                *)
(***************************************************************************)
EXTENDS SignalStore

CONSTANTS
  Strategies, \* the strategies a trade system may be built with
  MaxIndex,   \* bound on the bar index
  MaxEmit,    \* bound on the signals a user's class makes in one call
  Prices      \* the closing prices

ASSUME SignalPipelineAssumption ==
  /\ Strategies \subseteq {"default", "custom"}
  /\ MaxIndex \in Nat
  /\ MaxEmit \in Nat
  /\ "default" \in Strategies => {"SIGNAL_1", "SIGNAL_2"} \subseteq SignalKeys

VARIABLES
  setup,     \* how the trade system is built: its strategy, and updateIntervalType_
  sc,        \* the study interface of this call: Index, Close[Index], IsFullRecalculation
  seen,      \* lastBarIndexProcessed and lastClosePrice
  pc,        \* the step of the iteration
  levels,    \* LevelManager::levels: the prices of the levels under every key
  toClear,   \* ids in SignalProcessor::signalsToClear
  consumed,  \* history: ids the generator or the processor took out of the container
  cleared,   \* history: ids that were marked, and the marks worked off
  orders,    \* history: ids of the signals this iteration's orders are for
  levelPass  \* history: ExecuteLevelProcessing ran in this iteration

vars == <<setup, sc, seen, pc, store, nextId, levels, toClear, consumed, cleared, orders, levelPass>>

Signal(k, id, attached) == [signalKey |-> k, id |-> id, attached |-> attached]
NoPrice == 0   \* lastClosePrice before the first bar: no closing price is 0

Init ==
  /\ setup \in [strategy : Strategies, interval : {"New_Bar", "New_Price"}]
  /\ sc = [index |-> 0, close |-> NoPrice, full |-> TRUE]
  /\ seen = [index |-> MaxIndex + 1, close |-> NoPrice]   \* -1 in the code: no bar's index
  /\ pc = "idle"
  /\ store = EmptyStore /\ nextId = 0
  /\ levels = [p \in Prices |-> {}]
  /\ toClear = {} /\ consumed = {} /\ cleared = {} /\ orders = {}
  /\ levelPass = FALSE

(* UpdateSCRef: Sierra Chart calls the study for a bar. *)
UpdateSCRef(i, p, f) ==
  /\ pc = "idle"
  /\ sc' = [index |-> i, close |-> p, full |-> f]
  /\ pc' = "session"
  /\ UNCHANGED <<setup, seen, store, nextId, levels, toClear, consumed, cleared, orders, levelPass>>

-----------------------------------------------------------------------------
(* IsReadyForTradeIteration: outside a full recalculation an update is     *)
(* reported once, because answering TRUE records it.                       *)
Fresh == IF setup.interval = "New_Bar" THEN sc.index # seen.index ELSE sc.close # seen.close
IsReadyForTradeIteration == IF sc.full THEN sc.index = 0 ELSE Fresh
Recorded ==
  IF sc.full \/ ~Fresh THEN seen
  ELSE IF setup.interval = "New_Bar" THEN [seen EXCEPT !.index = sc.index]
  ELSE [seen EXCEPT !.close = sc.close]

(* ManageSession returns before ShouldProceed outside the trading window.  *)
OutsideWindow ==
  /\ pc = "session"
  /\ pc' = "idle"
  /\ UNCHANGED <<setup, sc, seen, store, nextId, levels, toClear, consumed, cleared, orders, levelPass>>

(* ShouldProceed: its throttle interval is 0 in TradeSystem::Process.      *)
ShouldProceed ==
  /\ pc = "session"
  /\ nextId + 2 <= MaxId
  /\ seen' = Recorded
  /\ pc' = IF IsReadyForTradeIteration THEN "generate" ELSE "idle"
  /\ levelPass' = FALSE
  /\ UNCHANGED <<setup, sc, store, nextId, levels, toClear, consumed, cleared, orders>>

(* DefaultSignalGenerator: SIGNAL_1 every time, and SIGNAL_2 for the       *)
(* SIGNAL_1 it takes out of the container.                                 *)
DefaultGenerate ==
  LET had == HasSignal(store, "SIGNAL_1")
      taken == IF had THEN {FrontSignal(store, "SIGNAL_1").id} ELSE {}
      one == Signal("SIGNAL_1", nextId, {})
      two == Signal("SIGNAL_2", nextId + 1, taken)
  IN  /\ setup.strategy = "default"
      /\ consumed' = consumed \cup taken
      /\ store' = AddSignals(IF had THEN PopSignal(store, "SIGNAL_1") ELSE store,
                             IF had THEN <<one, two>> ELSE <<one>>)
      /\ nextId' = nextId + IF had THEN 2 ELSE 1

(* What a user's class makes in one call: signals of any keys, in any      *)
(* number up to the bounds.  Their attachedSignalIds only interest the     *)
(* default processor, and are left empty.                                  *)
Bursts == {ks \in UNION {[1..n -> SignalKeys] : n \in 0..MaxEmit} : nextId + Len(ks) <= MaxId}
NewSignals(ks) == [n \in 1..Len(ks) |-> Signal(ks[n], nextId + n - 1, {})]

(* A user's generator may take out any of the signals that wait.           *)
CustomGenerate(taken, ks) ==
  /\ setup.strategy = "custom"
  /\ consumed' = consumed \cup taken
  /\ store' = AddSignals(RemoveSignals(store, taken), NewSignals(ks))
  /\ nextId' = nextId + Len(ks)

GenerateSignals ==
  /\ pc = "generate"
  /\ DefaultGenerate \/ \E taken \in SUBSET DOMAIN store.byId, ks \in Bursts : CustomGenerate(taken, ks)
  /\ pc' = "levels"
  /\ UNCHANGED <<setup, sc, seen, levels, toClear, cleared, orders, levelPass>>

-----------------------------------------------------------------------------
(* ClearLevels looks a level up under the level's own price.               *)
ClearLevels(ls, gone) == [p \in Prices |-> ls[p] \ (gone \cap {p})]

(* ExecuteLevelProcessing stores the generated levels under the current    *)
(* price, pushes the signals through Messaging, whose synchronous mode     *)
(* calls the subscriber (AddSignal) before PushRequest returns, and clears *)
(* the levels the processor names. The default classes generate nothing.   *)
ExecuteLevelProcessing(generated, ks, gone) ==
  LET stored == [levels EXCEPT ![sc.close] = @ \cup generated]
  IN  /\ gone \subseteq UNION {stored[p] : p \in Prices}
      /\ setup.strategy = "default" => generated = {} /\ ks = <<>> /\ gone = {}
      /\ store' = AddSignals(store, NewSignals(ks))
      /\ nextId' = nextId + Len(ks)
      /\ levels' = ClearLevels(stored, gone)
      /\ levelPass' = TRUE

(* The second call of IsReadyForTradeIteration in one iteration.  A signal *)
(* comes back from its JSON text under the id it was given; the id its     *)
(* constructor draws for nothing is not counted.                           *)
ProcessLevelsAndGenerateSignals ==
  /\ pc = "levels"
  /\ seen' = Recorded
  /\ IF IsReadyForTradeIteration
     THEN \E generated, gone \in SUBSET Prices, ks \in Bursts :
            ExecuteLevelProcessing(generated, ks, gone)
     ELSE UNCHANGED <<store, nextId, levels, levelPass>>
  /\ pc' = "process"
  /\ UNCHANGED <<setup, sc, toClear, consumed, cleared, orders>>

-----------------------------------------------------------------------------
(* DefaultSignalProcessor asks for the id "SIGNAL_2", which is a key: ids  *)
(* are a time stamp and a number, none of them 0..MaxId-1 here. What it    *)
(* marks goes to a list of its own that hides the base class's, so toClear *)
(* would stay as it is.                                                    *)
Signal2AsId == MaxId

DefaultProcess ==
  /\ setup.strategy = "default"
  /\ orders' = IF HasSignalById(store, Signal2AsId)
               THEN store.byId[Signal2AsId].attached \cap DOMAIN store.byId ELSE {}
  /\ UNCHANGED <<store, toClear, consumed>>

(* A user's processor may take out any of the signals that waited and mark *)
(* any that stay, and may make orders for any of them: those it takes, it  *)
(* marks or it does neither to.                                            *)
CustomProcess(taken, marks, traded) ==
  /\ setup.strategy = "custom"
  /\ consumed' = consumed \cup taken
  /\ store' = RemoveSignals(store, taken)
  /\ toClear' = toClear \cup marks
  /\ orders' = traded

ProcessSignals ==
  /\ pc = "process"
  /\ \/ DefaultProcess
     \/ \E taken \in SUBSET DOMAIN store.byId, traded \in SUBSET DOMAIN store.byId :
          \E marks \in SUBSET (DOMAIN store.byId \ taken) : CustomProcess(taken, marks, traded)
  /\ pc' = "clear"
  /\ UNCHANGED <<setup, sc, seen, nextId, levels, cleared, levelPass>>

(* GetSignalsToClear empties the list; every signal on it is removed.      *)
ClearSignalsByKey(ids) ==
  RemoveSignals(store, UNION {IdsOf(store.queues[k]) : k \in {store.byId[i].signalKey : i \in ids}})
ClearNothing(ids) == store
Cleared(ids) == RemoveSignals(store, ids)

ClearProcessedSignals ==
  /\ pc = "clear"
  /\ store' = Cleared(toClear)
  /\ cleared' = cleared \cup toClear
  /\ toClear' = {} /\ orders' = {}
  /\ pc' = "idle"
  /\ UNCHANGED <<setup, sc, seen, nextId, levels, consumed, levelPass>>

Next ==
  \/ \E i \in 0..MaxIndex, p \in Prices, f \in BOOLEAN : UpdateSCRef(i, p, f)
  \/ OutsideWindow \/ ShouldProceed \/ GenerateSignals \/ ProcessLevelsAndGenerateSignals
  \/ ProcessSignals \/ ClearProcessedSignals

Spec == Init /\ [][Next]_vars

-----------------------------------------------------------------------------
Emitted == 0..(nextId - 1)
Waiting == {s.id : s \in Queued(store)}

TypeOK ==
  /\ setup \in [strategy : Strategies, interval : {"New_Bar", "New_Price"}]
  /\ sc \in [index : 0..MaxIndex, close : Prices \cup {NoPrice}, full : BOOLEAN]
  /\ seen \in [index : 0..(MaxIndex + 1), close : Prices \cup {NoPrice}]
  /\ pc \in {"idle", "session", "generate", "levels", "process", "clear"}
  /\ \A k \in SignalKeys : \A s \in Elements(store.queues[k]) :
       s.signalKey = k /\ s.id \in Emitted /\ s.attached \subseteq Emitted
  /\ nextId \in 0..MaxId
  /\ levels \in [Prices -> SUBSET Prices]
  /\ UNION {toClear, consumed, cleared, orders} \subseteq Emitted
  /\ levelPass \in BOOLEAN

(* Every signal ever emitted, by the generator or by a level, still waits  *)
(* unless a user's class took it out or marked it: adding, delivering and  *)
(* clearing lose none, not even one of the same key as a cleared one, and  *)
(* whatever the orders were for.                                           *)
NoSignalLost == Emitted = Waiting \cup consumed \cup cleared

(* No signal is traded twice that was taken or marked when it was traded:  *)
(* it is out of the container when signals are processed again, and no     *)
(* iteration makes an order for what an earlier one cleared.  (Nothing in  *)
(* the library obliges a processor to mark what it makes an order for.)    *)
NoSignalTradedTwice ==
  /\ orders \cap cleared = {}
  /\ pc = "process" => Waiting \cap (consumed \cup cleared) = {}

(* What the code does, against DefaultSignalManager.cpp:13, which says that *)
(* levels are processed immediately: the pass over the levels runs on the  *)
(* first bar of a full recalculation only.  On every other update          *)
(* ShouldProceed has used up the readiness that                            *)
(* ProcessLevelsAndGenerateSignals asks for again.                         *)
LevelsOnlyOnRecalculation ==
  pc \in {"process", "clear"} /\ levelPass => sc.full /\ sc.index = 0
=============================================================================
