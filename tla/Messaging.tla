------------------------------- MODULE Messaging -------------------------------
(***************************************************************************)
(* Messaging in asynchronous mode: the threads that push requests into the *)
(* bounded queue, the thread that hands them to the subscribers while it   *)
(* holds mtx_, the component that subscribes once its server is already    *)
(* running, and the destructor that stops the thread.                      *)
(*                                                                         *)
(* mtx_ is taken for one step by everyone but the processing thread, which *)
(* keeps it from its wake-up to the end of the callbacks.                  *)
(***************************************************************************)
EXTENDS Naturals, Sequences

CONSTANTS
  Producers,   \* the threads that call PushRequest
  PerProducer, \* bound on the requests of a producer
  Capacity     \* of request_queue_, 1024 in the code

ASSUME MessagingAssumption == PerProducer \in Nat /\ Capacity \in Nat \ {0}

VARIABLES
  queue,      \* request_queue_
  running,    \* running_
  mtx,        \* "free", or "thread" while the processing thread holds it
  thread,     \* where ProcessRequests is
  current,    \* the request it has popped
  subscribed, \* subscribers_ has its callback
  producer,   \* what a producer does next: push or notify
  pushed,     \* how many requests a producer has pushed
  stop,       \* where Stop is
  accepted,   \* history: the requests that got into the queue, in order
  delivered,  \* history: the requests the callback was called with, in order
  missed      \* history: the requests popped before it was subscribed, in order

vars == <<queue, running, mtx, thread, current, subscribed, producer, pushed, stop,
          accepted, delivered, missed>>

Init ==
  /\ queue = <<>> /\ running = TRUE /\ mtx = "free"
  /\ thread = "top" /\ current = <<>>
  /\ subscribed = FALSE
  /\ producer = [p \in Producers |-> "push"]
  /\ pushed = [p \in Producers |-> 0]
  /\ stop = "none"
  /\ accepted = <<>> /\ delivered = <<>> /\ missed = <<>>

-----------------------------------------------------------------------------
(* Subscribe waits for the callbacks that are being made.                  *)
Subscribe ==
  /\ ~subscribed /\ stop = "none" /\ mtx = "free"
  /\ subscribed' = TRUE
  /\ UNCHANGED <<queue, running, mtx, thread, current, producer, pushed, stop,
                 accepted, delivered, missed>>

(* The queue refuses a request when it is full, and nobody looks.          *)
PushRequestReplacing(p) ==
  /\ producer[p] = "push" /\ pushed[p] < PerProducer /\ stop = "none" /\ mtx = "free"
  /\ LET r == <<p, pushed[p] + 1>> IN
       /\ queue' = IF Len(queue) < Capacity THEN Append(queue, r) ELSE Append(Tail(queue), r)
       /\ accepted' = Append(accepted, r)
  /\ pushed' = [pushed EXCEPT ![p] = @ + 1]
  /\ producer' = [producer EXCEPT ![p] = "notify"]
  /\ UNCHANGED <<running, mtx, thread, current, subscribed, stop, delivered, missed>>
PushRequest(p) ==
  /\ producer[p] = "push" /\ pushed[p] < PerProducer /\ stop = "none" /\ mtx = "free"
  /\ LET r == <<p, pushed[p] + 1>> IN
       IF Len(queue) < Capacity
       THEN queue' = Append(queue, r) /\ accepted' = Append(accepted, r)
       ELSE UNCHANGED <<queue, accepted>>
  /\ pushed' = [pushed EXCEPT ![p] = @ + 1]
  /\ producer' = [producer EXCEPT ![p] = "notify"]
  /\ UNCHANGED <<running, mtx, thread, current, subscribed, stop, delivered, missed>>

(* notify_one wakes the thread if it waits now.                            *)
Woken == IF thread = "waiting" THEN "woken" ELSE thread

NotifyNobody(p) ==
  /\ producer[p] = "notify"
  /\ producer' = [producer EXCEPT ![p] = "push"]
  /\ UNCHANGED <<queue, running, mtx, thread, current, subscribed, pushed, stop,
                 accepted, delivered, missed>>
Notify(p) ==
  /\ producer[p] = "notify"
  /\ thread' = Woken
  /\ producer' = [producer EXCEPT ![p] = "push"]
  /\ UNCHANGED <<queue, running, mtx, current, subscribed, pushed, stop,
                 accepted, delivered, missed>>

-----------------------------------------------------------------------------
Loop ==
  /\ thread = "top"
  /\ thread' = IF running THEN "lock" ELSE "done"
  /\ UNCHANGED <<queue, running, mtx, current, subscribed, producer, pushed, stop,
                 accepted, delivered, missed>>

(* cv_.wait: with the lock, go on if there is a reason to, else release    *)
(* the lock and wait. A request is popped under the lock.                  *)
Wait ==
  /\ thread \in {"lock", "woken"} /\ mtx = "free"
  /\ IF running /\ queue = <<>>
     THEN thread' = "waiting" /\ UNCHANGED <<queue, mtx, current>>
     ELSE IF queue = <<>>
     THEN thread' = "done" /\ UNCHANGED <<queue, mtx, current>>
     ELSE /\ thread' = "callback" /\ mtx' = "thread"
          /\ current' = Head(queue) /\ queue' = Tail(queue)
  /\ UNCHANGED <<running, subscribed, producer, pushed, stop, accepted, delivered, missed>>

SpuriousWakeup ==
  /\ thread = "waiting"
  /\ thread' = "woken"
  /\ UNCHANGED <<queue, running, mtx, current, subscribed, producer, pushed, stop,
                 accepted, delivered, missed>>

Callbacks ==
  /\ thread = "callback"
  /\ IF subscribed
     THEN delivered' = Append(delivered, current) /\ UNCHANGED missed
     ELSE missed' = Append(missed, current) /\ UNCHANGED delivered
  /\ thread' = "top" /\ mtx' = "free" /\ current' = <<>>
  /\ UNCHANGED <<queue, running, subscribed, producer, pushed, stop, accepted>>

-----------------------------------------------------------------------------
(* Stop, from the destructor, when no producer calls any more.             *)
StopRunning ==
  /\ stop = "none" /\ mtx = "free"
  /\ \A p \in Producers : producer[p] = "push"
  /\ running' = FALSE
  /\ stop' = "notify"
  /\ UNCHANGED <<queue, mtx, thread, current, subscribed, producer, pushed,
                 accepted, delivered, missed>>

StopSilently ==
  /\ stop = "notify"
  /\ stop' = "join"
  /\ UNCHANGED <<queue, running, mtx, thread, current, subscribed, producer, pushed,
                 accepted, delivered, missed>>
StopNotify ==
  /\ stop = "notify"
  /\ thread' = Woken
  /\ stop' = "join"
  /\ UNCHANGED <<queue, running, mtx, current, subscribed, producer, pushed,
                 accepted, delivered, missed>>

StopJoin ==
  /\ stop = "join" /\ thread = "done"
  /\ stop' = "stopped"
  /\ UNCHANGED <<queue, running, mtx, thread, current, subscribed, producer, pushed,
                 accepted, delivered, missed>>

ProcessRequests == Loop \/ Wait \/ Callbacks
Stop == StopRunning \/ StopNotify \/ StopJoin

Next ==
  \/ Subscribe \/ SpuriousWakeup \/ ProcessRequests \/ Stop
  \/ \E p \in Producers : PushRequest(p) \/ Notify(p)

Spec == Init /\ [][Next]_vars

(* A thread that can go on does. Nobody has to push, subscribe or destroy. *)
FairSpec ==
  /\ Spec
  /\ WF_vars(ProcessRequests)
  /\ WF_vars(StopNotify \/ StopJoin)
  /\ \A p \in Producers : WF_vars(Notify(p))

-----------------------------------------------------------------------------
Requests == Producers \X (1..PerProducer)

TypeOK ==
  /\ queue \in Seq(Requests) /\ Len(queue) <= Capacity
  /\ running \in BOOLEAN /\ subscribed \in BOOLEAN
  /\ mtx = IF thread = "callback" THEN "thread" ELSE "free"
  /\ thread \in {"top", "lock", "waiting", "woken", "callback", "done"}
  /\ current \in IF thread = "callback" THEN Requests ELSE {<<>>}
  /\ producer \in [Producers -> {"push", "notify"}]
  /\ pushed \in [Producers -> 0..PerProducer]
  /\ stop \in {"none", "notify", "join", "stopped"}

(* No request that got into the queue is lost, repeated or overtaken: they *)
(* are taken in the order in which they got in, the subscriber gets each   *)
(* one taken since it subscribed, and misses only the ones before.         *)
InHand == IF thread = "callback" THEN <<current>> ELSE <<>>
TakenInOrder ==
  /\ accepted = missed \o (delivered \o (InHand \o queue))
  /\ delivered # <<>> => subscribed

(* The processing thread never sleeps on a request or on a stop that       *)
(* nobody is about to wake it for.                                         *)
NoLostWakeup ==
  thread = "waiting" /\ (queue # <<>> \/ ~running) =>
    stop = "notify" \/ \E p \in Producers : producer[p] = "notify"

(* Until the component is destroyed, every queued request is taken; and    *)
(* the destructor does not wait for ever for its thread.                   *)
QueueIsDrained == queue # <<>> ~> (queue = <<>> \/ ~running)
StopReturns == stop = "notify" ~> stop = "stopped"
=============================================================================
