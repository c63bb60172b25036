---------------------------- MODULE SignalContainer ----------------------------
(***************************************************************************)
(* The SignalContainer singleton and the threads that share it: the study  *)
(* thread with the signal generator and processor, and the thread that     *)
(* delivers the signals of the level manager.  Every operation holds mtx_  *)
(* from its first line to its last, so it is one step; between two calls   *)
(* of a client anything can happen.                                        *)
(***************************************************************************)
EXTENDS SignalStore

CONSTANT Clients   \* the threads that call the container

SignalIds == 0..(MaxId - 1)

VARIABLES
  held,      \* signals a client has in hand: built by it or returned to it
  answer     \* what the last call returned

containerVars == <<store, nextId, held, answer>>

Reply(ok, signals) == [ok |-> ok, signals |-> signals]
Signals == [signalKey : SignalKeys, id : SignalIds]

ContainerInit ==
  /\ store = EmptyStore
  /\ nextId = 0
  /\ held = [c \in Clients |-> {}]
  /\ answer = Reply(FALSE, {})

(* TradeSignal(): a fresh id, and a key its builder chooses. *)
TradeSignal(c, k) ==
  /\ nextId < MaxId
  /\ LET s == [signalKey |-> k, id |-> nextId] IN
       /\ held' = [held EXCEPT ![c] = @ \cup {s}]
       /\ answer' = Reply(TRUE, {s})
  /\ nextId' = nextId + 1
  /\ UNCHANGED store

(* A client adds a signal it holds, once. *)
AddSignalCall(c, s) ==
  /\ s \in held[c]
  /\ store' = AddSignal(store, s)
  /\ held' = [held EXCEPT ![c] = @ \ {s}]
  /\ answer' = Reply(FALSE, {})
  /\ UNCHANGED nextId

GetSignal(c, k) ==
  /\ IF HasSignal(store, k)
     THEN /\ answer' = Reply(TRUE, {FrontSignal(store, k)})
          /\ store' = PopSignal(store, k)
          /\ held' = [held EXCEPT ![c] = @ \cup {FrontSignal(store, k)}]
     ELSE answer' = Reply(FALSE, {}) /\ UNCHANGED <<store, held>>
  /\ UNCHANGED nextId

(* A copy is returned; the signal stays where it is. *)
GetSignalById(id) ==
  /\ answer' = IF HasSignalById(store, id) THEN Reply(TRUE, {store.byId[id]})
               ELSE Reply(FALSE, {})
  /\ UNCHANGED <<store, held, nextId>>

RemoveSignalByIdCall(id) ==
  /\ answer' = Reply(HasSignalById(store, id), {})
  /\ store' = IF HasSignalById(store, id) THEN RemoveSignalById(store, id) ELSE store
  /\ UNCHANGED <<held, nextId>>

RemoveSignal(k) ==
  /\ answer' = Reply(HasSignal(store, k), {})
  /\ store' = IF HasSignal(store, k) THEN PopSignal(store, k) ELSE store
  /\ UNCHANGED <<held, nextId>>

RemoveAllSignalsCall(k) ==
  /\ answer' = Reply(FALSE, {})
  /\ store' = RemoveAllSignals(store, k)
  /\ UNCHANGED <<held, nextId>>

ContainerNext ==
  \/ \E c \in Clients, k \in SignalKeys : TradeSignal(c, k) \/ GetSignal(c, k)
  \/ \E c \in Clients : \E s \in held[c] : AddSignalCall(c, s)
  \/ \E id \in SignalIds : GetSignalById(id) \/ RemoveSignalByIdCall(id)
  \/ \E k \in SignalKeys : RemoveSignal(k) \/ RemoveAllSignalsCall(k)

ContainerSpec == ContainerInit /\ [][ContainerNext]_containerVars

-----------------------------------------------------------------------------
(* The index lists exactly the signals that wait in a queue, with the very *)
(* same contents, and every queue those of its own key, whatever mix of    *)
(* calls got there.                                                        *)
IndexAgrees ==
  /\ {store.byId[i] : i \in DOMAIN store.byId} = Queued(store)
  /\ \A i \in DOMAIN store.byId : store.byId[i].id = i
  /\ \A k \in SignalKeys : \A s \in Elements(store.queues[k]) : s.signalKey = k

(* A signal is in one place only: in one position of one queue, or in the  *)
(* hands of one client; two clients are never handed the same signal.      *)
OnePlace ==
  /\ \A k \in SignalKeys : Cardinality(Elements(store.queues[k])) = Len(store.queues[k])
  /\ \A c \in Clients : held[c] \cap Queued(store) = {}
  /\ \A c, d \in Clients : c # d => held[c] \cap held[d] = {}

(* The container answers every call as the index-free pool does, which     *)
(* never reorders the signals that stay in a queue.                        *)
Pool == INSTANCE SignalPool WITH pool <- store.queues
ImplementsPool == Pool!Spec
=============================================================================
