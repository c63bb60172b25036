------------------------------- MODULE SignalPool -------------------------------
(***************************************************************************)
(* What SignalContainer promises its clients, without the index: the       *)
(* signals of every key wait in arrival order, each signal is handed out   *)
(* at most once, and a signal can be found or removed by its id exactly    *)
(* while it waits.                                                         *)
(***************************************************************************)
EXTENDS SignalQueue

CONSTANTS SignalKeys, SignalIds, Clients

VARIABLES
  pool,    \* the waiting signals of every key, oldest first
  held,    \* the signals a client has built or was handed and has not added
  answer   \* what the last call returned: TRUE or FALSE, and the signal if any

vars == <<pool, held, answer>>

Reply(ok, signals) == [ok |-> ok, signals |-> signals]
Waiting == {[signalKey |-> k, id |-> i] : k \in SignalKeys, i \in SignalIds}
             \cap UNION {Elements(pool[k]) : k \in SignalKeys}
Held == UNION {held[c] : c \in Clients}

Init == pool = [k \in SignalKeys |-> <<>>]
        /\ held = [c \in Clients |-> {}] /\ answer = Reply(FALSE, {})

Create(c, s) ==
  /\ \A t \in Waiting \cup Held : t.id # s.id
  /\ held' = [held EXCEPT ![c] = @ \cup {s}]
  /\ answer' = Reply(TRUE, {s})
  /\ UNCHANGED pool

Add(c, s) ==
  /\ s \in held[c]
  /\ pool' = [pool EXCEPT ![s.signalKey] = Append(@, s)]
  /\ held' = [held EXCEPT ![c] = @ \ {s}]
  /\ answer' = Reply(FALSE, {})

Get(c, k) ==
  IF pool[k] = <<>>
  THEN answer' = Reply(FALSE, {}) /\ UNCHANGED <<pool, held>>
  ELSE /\ answer' = Reply(TRUE, {Head(pool[k])})
       /\ pool' = [pool EXCEPT ![k] = Tail(@)]
       /\ held' = [held EXCEPT ![c] = @ \cup {Head(pool[k])}]

Find(id) ==
  /\ LET found == {s \in Waiting : s.id = id} IN answer' = Reply(found # {}, found)
  /\ UNCHANGED <<pool, held>>

RemoveId(id) ==
  /\ answer' = Reply(\E s \in Waiting : s.id = id, {})
  /\ pool' = [k \in SignalKeys |-> Without(pool[k], {id})]
  /\ UNCHANGED held

RemoveFirst(k) ==
  /\ answer' = Reply(pool[k] # <<>>, {})
  /\ pool' = [pool EXCEPT ![k] = IF @ = <<>> THEN @ ELSE Tail(@)]
  /\ UNCHANGED held

RemoveAll(k) ==
  /\ answer' = Reply(FALSE, {})
  /\ pool' = [pool EXCEPT ![k] = <<>>]
  /\ UNCHANGED held

Next ==
  \/ \E c \in Clients, k \in SignalKeys, i \in SignalIds :
       \/ Create(c, [signalKey |-> k, id |-> i])
       \/ Add(c, [signalKey |-> k, id |-> i])
  \/ \E c \in Clients, k \in SignalKeys : Get(c, k)
  \/ \E i \in SignalIds : Find(i) \/ RemoveId(i)
  \/ \E k \in SignalKeys : RemoveFirst(k) \/ RemoveAll(k)

Spec == Init /\ [][Next]_vars
=============================================================================
