------------------------------ MODULE SignalStore ------------------------------
(***************************************************************************)
(* The two containers of SignalContainer and what its operations do to     *)
(* them: a FIFO queue of signals per signal key, and an index of the       *)
(* queued signals by id.  A key without a queue and a key with an empty    *)
(* one answer every call alike, so both are the empty sequence.            *)
(***************************************************************************)
EXTENDS SignalQueue, FiniteSets

CONSTANTS
  SignalKeys,  \* values of TradeSignal::signalKey
  MaxId        \* bound on the ids UniqueIDGenerator gives out

ASSUME SignalStoreAssumption == MaxId \in Nat

VARIABLES
  store,   \* the SignalContainer: unprocessedSignals and signalsById
  nextId   \* UniqueIDGenerator::nextId

EmptyStore == [queues |-> [k \in SignalKeys |-> <<>>],
               byId   |-> [i \in {} |-> [signalKey |-> "", id |-> ""]]]

Queued(st) == UNION {Elements(st.queues[k]) : k \in SignalKeys}

WithoutIds(byId, ids) == [i \in DOMAIN byId \ ids |-> byId[i]]

AddSignal(st, s) ==
  [queues |-> [st.queues EXCEPT ![s.signalKey] = Append(@, s)],
   byId   |-> [i \in DOMAIN st.byId \cup {s.id} |->
                 IF i = s.id THEN s ELSE st.byId[i]]]

(* AddSignal for every signal of a vector, in its order. *)
AddSignals(st, signals) ==
  LET after[n \in 0..Len(signals)] ==
        IF n = 0 THEN st ELSE AddSignal(after[n - 1], signals[n])
  IN  after[Len(signals)]

(* GetSignal and RemoveSignal take the same signal out. *)
HasSignal(st, k) == st.queues[k] # <<>>
FrontSignal(st, k) == Head(st.queues[k])
PeekSignal(st, k) ==
  [st EXCEPT !.byId = WithoutIds(@, {FrontSignal(st, k).id})]
PopSignalKeepsIndex(st, k) == [st EXCEPT !.queues[k] = Tail(@)]
PopSignal(st, k) ==
  [queues |-> [st.queues EXCEPT ![k] = Tail(@)],
   byId   |-> WithoutIds(st.byId, {FrontSignal(st, k).id})]

HasSignalById(st, id) == id \in DOMAIN st.byId

(* The queue is rebuilt from the signals that stay; only the queue of the  *)
(* key found in the index is looked at.                                    *)
RemoveSignalByIdReversing(st, id) ==
  LET k == st.byId[id].signalKey
      kept == Without(st.queues[k], {id})
      stack == [n \in 1..Len(kept) |-> kept[Len(kept) - n + 1]]
  IN  [queues |-> [st.queues EXCEPT ![k] = stack],
       byId   |-> WithoutIds(st.byId, {id})]
RemoveSignalById(st, id) ==
  LET k == st.byId[id].signalKey
  IN  [queues |-> [st.queues EXCEPT ![k] = Without(@, {id})],
       byId   |-> WithoutIds(st.byId, {id})]

RemoveAllSignals(st, k) ==
  [queues |-> [st.queues EXCEPT ![k] = <<>>],
   byId   |-> WithoutIds(st.byId, IdsOf(st.queues[k]))]

(* RemoveSignalById for every id of a set; an id that is gone is skipped. *)
RemoveSignals(st, ids) ==
  [queues |-> [k \in SignalKeys |-> Without(st.queues[k], ids)],
   byId   |-> WithoutIds(st.byId, ids)]
=============================================================================
