---------------------------- MODULE MessagingProofs ----------------------------
(***************************************************************************)
(* For any number of producers, any number of requests and any capacity:   *)
(* the type invariant, delivery in order, and no lost wakeup.              *)
(***************************************************************************)
EXTENDS Messaging, SequenceTheorems, TLAPS

(* What Append and \o do to each other.                                    *)
LEMMA AppendOutside ==
  ASSUME NEW S, NEW s \in Seq(S), NEW t \in Seq(S), NEW e \in S
  PROVE  /\ s \o t \in Seq(S)
         /\ s \o Append(t, e) = Append(s \o t, e)
         /\ Append(s, e) \o t = s \o (<<e>> \o t)
<1>1. <<e>> \in Seq(S) /\ s \o t \in Seq(S)
  OBVIOUS
<1>2. s \o Append(t, e) = s \o (t \o <<e>>)
  BY AppendIsConcat
<1>3. s \o (t \o <<e>>) = (s \o t) \o <<e>>
  BY <1>1, ConcatAssociative
<1>4. (s \o t) \o <<e>> = Append(s \o t, e)
  BY <1>1, AppendIsConcat
<1>5. Append(s, e) \o t = (s \o <<e>>) \o t
  BY AppendIsConcat
<1>6. (s \o <<e>>) \o t = s \o (<<e>> \o t)
  BY <1>1, ConcatAssociative
<1>7. QED  BY <1>1, <1>2, <1>3, <1>4, <1>5, <1>6

LEMMA HeadAndTail ==
  ASSUME NEW S, NEW q \in Seq(S), q # <<>>
  PROVE  /\ Head(q) \in S /\ Tail(q) \in Seq(S) /\ Len(Tail(q)) = Len(q) - 1
         /\ <<Head(q)>> \o Tail(q) = q
OBVIOUS

LEMMA EmptyLeft ==
  ASSUME NEW S, NEW q \in Seq(S)
  PROVE  <<>> \o q = q
OBVIOUS

-----------------------------------------------------------------------------
LEMMA InitType == Init => TypeOK
<1> SUFFICES ASSUME Init PROVE TypeOK
  OBVIOUS
<1>1. queue \in Seq(Requests) /\ Len(queue) = 0
  BY DEF Init
<1>2. 0 \in 0..PerProducer /\ 0 <= Capacity
  BY MessagingAssumption DEF MessagingAssumption
<1>3. /\ producer \in [Producers -> {"push", "notify"}]
      /\ pushed \in [Producers -> 0..PerProducer]
  BY <1>2 DEF Init
<1>4. QED  BY <1>1, <1>2, <1>3 DEF Init, TypeOK

LEMMA StepType == TypeOK /\ [Next]_vars => TypeOK'
<1> SUFFICES ASSUME TypeOK, [Next]_vars PROVE TypeOK'
  OBVIOUS
<1> USE MessagingAssumption DEF MessagingAssumption
<1>1. CASE Subscribe
  BY <1>1 DEF Subscribe, TypeOK
<1>2. CASE SpuriousWakeup
  BY <1>2 DEF SpuriousWakeup, TypeOK
<1>3. CASE Loop
  BY <1>3 DEF Loop, TypeOK
<1>4. CASE Wait
  <2>1. CASE queue = <<>>
    BY <1>4, <2>1 DEF Wait, TypeOK
  <2>2. CASE queue # <<>>
    <3>1. /\ thread' = "callback" /\ mtx' = "thread"
          /\ current' = Head(queue) /\ queue' = Tail(queue)
      BY <1>4, <2>2 DEF Wait
    <3>2. /\ Head(queue) \in Requests /\ Tail(queue) \in Seq(Requests)
          /\ Len(Tail(queue)) <= Capacity
      BY <2>2, HeadAndTail DEF TypeOK
    <3>3. QED  BY <1>4, <3>1, <3>2 DEF Wait, TypeOK
  <2>3. QED  BY <2>1, <2>2
<1>5. CASE Callbacks
  BY <1>5 DEF Callbacks, TypeOK
<1>6. CASE Stop
  BY <1>6 DEF Stop, StopRunning, StopNotify, StopJoin, Woken, TypeOK
<1>7. ASSUME NEW p \in Producers, PushRequest(p) PROVE TypeOK'
  <2> DEFINE r == <<p, pushed[p] + 1>>
  <2>1. pushed[p] + 1 \in 1..PerProducer /\ r \in Requests
    BY <1>7 DEF PushRequest, TypeOK, Requests
  <2>2. queue' \in Seq(Requests) /\ Len(queue') <= Capacity
    <3>1. /\ queue \in Seq(Requests) /\ Len(queue) <= Capacity
          /\ Len(queue) \in Nat /\ Capacity \in Nat
      BY DEF TypeOK
    <3>2. /\ Append(queue, r) \in Seq(Requests)
          /\ Len(Append(queue, r)) = Len(queue) + 1
      BY <2>1, <3>1, AppendProperties
    <3>3. queue' = IF Len(queue) < Capacity THEN Append(queue, r) ELSE queue
      BY <1>7 DEF PushRequest
    <3>4. QED  BY <3>1, <3>2, <3>3
  <2>3. pushed' \in [Producers -> 0..PerProducer]
    BY <1>7, <2>1 DEF PushRequest, TypeOK
  <2>4. QED  BY <1>7, <2>2, <2>3 DEF PushRequest, TypeOK
<1>8. ASSUME NEW p \in Producers, Notify(p) PROVE TypeOK'
  BY <1>8 DEF Notify, Woken, TypeOK
<1>9. CASE UNCHANGED vars
  BY <1>9 DEF vars, TypeOK
<1>10. QED
  BY <1>1, <1>2, <1>3, <1>4, <1>5, <1>6, <1>7, <1>8, <1>9 DEF Next, ProcessRequests

(* The queue never exceeds its capacity, and mtx_ is held exactly while    *)
(* the callbacks of a popped request are made.                             *)
THEOREM TypeCorrect == Spec => []TypeOK
BY InitType, StepType, PTL DEF Spec

-----------------------------------------------------------------------------
LEMMA StepWakeup == TypeOK /\ NoLostWakeup /\ [Next]_vars => NoLostWakeup'
<1> SUFFICES ASSUME TypeOK, NoLostWakeup, [Next]_vars PROVE NoLostWakeup'
  OBVIOUS
<1> USE DEF NoLostWakeup
<1>1. CASE Subscribe \/ SpuriousWakeup \/ Loop \/ Callbacks
  BY <1>1 DEF Subscribe, SpuriousWakeup, Loop, Callbacks
<1>2. CASE Wait
  BY <1>2 DEF Wait
<1>3. CASE Stop
  BY <1>3 DEF Stop, StopRunning, StopNotify, StopJoin, Woken
<1>4. ASSUME NEW p \in Producers, PushRequest(p) PROVE NoLostWakeup'
  BY <1>4 DEF PushRequest, TypeOK
<1>5. ASSUME NEW p \in Producers, Notify(p) PROVE NoLostWakeup'
  BY <1>5 DEF Notify, Woken
<1>6. CASE UNCHANGED vars
  BY <1>6 DEF vars
<1>7. QED
  BY <1>1, <1>2, <1>3, <1>4, <1>5, <1>6 DEF Next, ProcessRequests

(* notify_one is called after the lock is released, and still the thread   *)
(* never sleeps on a request or a stop that no one is about to announce.   *)
THEOREM WakeupsAreNotLost == Spec => []NoLostWakeup
<1>1. Init => NoLostWakeup
  BY DEF Init, NoLostWakeup
<1>2. QED  BY <1>1, StepWakeup, TypeCorrect, PTL DEF Spec

-----------------------------------------------------------------------------
(* Delivery in order, with the histories in their types.                   *)
OrderInv ==
  /\ TakenInOrder
  /\ missed \in Seq(Requests) /\ delivered \in Seq(Requests)

LEMMA InHandType ==
  ASSUME TypeOK
  PROVE  InHand \in Seq(Requests) /\ InHand \o queue \in Seq(Requests)
BY DEF TypeOK, InHand

LEMMA StepOrder == TypeOK /\ OrderInv /\ [Next]_vars => OrderInv'
<1> SUFFICES ASSUME TypeOK, OrderInv, [Next]_vars PROVE OrderInv'
  OBVIOUS
<1>0. /\ missed \in Seq(Requests) /\ delivered \in Seq(Requests)
      /\ queue \in Seq(Requests)
      /\ accepted = missed \o (delivered \o (InHand \o queue))
      /\ delivered # <<>> => subscribed
  BY DEF OrderInv, TakenInOrder, TypeOK
<1>1. ASSUME UNCHANGED <<accepted, missed, delivered, queue, current>>,
             InHand' = InHand, subscribed => subscribed'
      PROVE  OrderInv'
  BY <1>0, <1>1 DEF OrderInv, TakenInOrder
<1>2. CASE Subscribe
  BY <1>1, <1>2 DEF Subscribe, InHand
<1>3. CASE SpuriousWakeup \/ Loop
  BY <1>1, <1>3 DEF SpuriousWakeup, Loop, InHand
<1>4. CASE Stop
  BY <1>1, <1>4 DEF Stop, StopRunning, StopNotify, StopJoin, Woken, InHand
<1>5. ASSUME NEW p \in Producers, Notify(p) PROVE OrderInv'
  BY <1>1, <1>5 DEF Notify, Woken, InHand
<1>6. CASE Wait
  <2>1. CASE queue = <<>>
    BY <1>1, <1>6, <2>1 DEF Wait, InHand
  <2>2. CASE queue # <<>>
    <3>1. /\ InHand = <<>> /\ InHand' = <<Head(queue)>> /\ queue' = Tail(queue)
          /\ UNCHANGED <<accepted, missed, delivered, subscribed>>
      BY <1>6, <2>2 DEF Wait, InHand
    <3>2. InHand' \o queue' = InHand \o queue
      BY <1>0, <2>2, <3>1, HeadAndTail, EmptyLeft
    <3>3. QED  BY <1>0, <3>1, <3>2 DEF OrderInv, TakenInOrder
  <2>3. QED  BY <2>1, <2>2
<1>7. CASE Callbacks
  <2>1. /\ InHand = <<current>> /\ InHand' = <<>> /\ queue' = queue
        /\ current \in Requests /\ accepted' = accepted /\ subscribed' = subscribed
    BY <1>7 DEF Callbacks, InHand, TypeOK
  <2>2. InHand' \o queue' = queue
    BY <1>0, <2>1, EmptyLeft
  <2>3. CASE subscribed
    <3>1. delivered' = Append(delivered, current) /\ missed' = missed
      BY <1>7, <2>3 DEF Callbacks
    <3>2. Append(delivered, current) \o queue = delivered \o (<<current>> \o queue)
      <4>1. delivered \in Seq(Requests) /\ queue \in Seq(Requests) /\ current \in Requests
        BY <1>0, <2>1
      <4>2. QED  BY <4>1, AppendOutside
    <3>3. delivered' \in Seq(Requests)
      BY <1>0, <2>1, <3>1, AppendProperties
    <3>4. accepted' = missed' \o (delivered' \o (InHand' \o queue'))
      BY <1>0, <2>1, <2>2, <3>1, <3>2
    <3>5. QED  BY <1>0, <2>1, <2>3, <3>1, <3>3, <3>4 DEF OrderInv, TakenInOrder
  <2>4. CASE ~subscribed
    <3>1. /\ missed' = Append(missed, current) /\ delivered' = delivered
          /\ delivered = <<>>
      BY <1>0, <1>7, <2>4 DEF Callbacks
    <3>2. /\ delivered \o (InHand \o queue) = <<current>> \o queue
          /\ delivered \o queue = queue
      BY <1>0, <2>1, <3>1, EmptyLeft, InHandType
    <3>3. missed' \o queue = missed \o (<<current>> \o queue)
      BY <1>0, <2>1, <3>1, AppendOutside
    <3>4. missed' \in Seq(Requests)
      BY <1>0, <2>1, <3>1, AppendProperties
    <3>5. accepted' = missed' \o (delivered' \o (InHand' \o queue'))
      BY <1>0, <2>1, <2>2, <3>1, <3>2, <3>3
    <3>6. QED  BY <1>0, <2>1, <3>1, <3>4, <3>5 DEF OrderInv, TakenInOrder
  <2>5. QED  BY <2>3, <2>4
<1>8. ASSUME NEW p \in Producers, PushRequest(p) PROVE OrderInv'
  <2> DEFINE r == <<p, pushed[p] + 1>>
  <2>1. /\ InHand' = InHand
        /\ UNCHANGED <<missed, delivered, current, subscribed>>
    BY <1>8 DEF PushRequest, InHand
  <2>2. CASE Len(queue) < Capacity
    <3>1. queue' = Append(queue, r) /\ accepted' = Append(accepted, r)
      BY <1>8, <2>2 DEF PushRequest
    <3>2. r \in Requests
      BY <1>8, MessagingAssumption DEF PushRequest, TypeOK, Requests, MessagingAssumption
    <3> HIDE DEF r
    <3>3. InHand \o Append(queue, r) = Append(InHand \o queue, r)
      BY <1>0, <3>2, InHandType, AppendOutside
    <3>4. /\ delivered \o Append(InHand \o queue, r) = Append(delivered \o (InHand \o queue), r)
          /\ delivered \o (InHand \o queue) \in Seq(Requests)
      BY <1>0, <3>2, InHandType, AppendOutside
    <3>5. missed \o Append(delivered \o (InHand \o queue), r)
            = Append(missed \o (delivered \o (InHand \o queue)), r)
      <4> DEFINE rest == delivered \o (InHand \o queue)
      <4>1. rest \in Seq(Requests)
        BY <3>4
      <4> HIDE DEF rest
      <4>2. missed \o Append(rest, r) = Append(missed \o rest, r)
        BY <1>0, <3>2, <4>1, AppendOutside
      <4>3. QED  BY <4>2 DEF rest
    <3>6. accepted' = missed' \o (delivered' \o (InHand' \o queue'))
      BY <1>0, <2>1, <3>1, <3>3, <3>4, <3>5
    <3>7. QED  BY <1>0, <2>1, <3>6 DEF OrderInv, TakenInOrder
  <2>3. CASE ~(Len(queue) < Capacity)
    BY <1>1, <1>8, <2>1, <2>3 DEF PushRequest
  <2>4. QED  BY <2>2, <2>3
<1>9. CASE UNCHANGED vars
  BY <1>1, <1>9 DEF vars, InHand
<1>10. QED
  BY <1>2, <1>3, <1>4, <1>5, <1>6, <1>7, <1>8, <1>9 DEF Next, ProcessRequests

(* Every request the queue accepted is delivered once and in order, except *)
(* those taken before the component subscribed, which reach nobody.        *)
THEOREM DeliveryIsInOrder == Spec => []TakenInOrder
<1>1. Init => OrderInv
  BY DEF Init, OrderInv, TakenInOrder, InHand
<1>2. OrderInv => TakenInOrder
  BY DEF OrderInv
<1>3. QED  BY <1>1, <1>2, StepOrder, TypeCorrect, PTL DEF Spec
=============================================================================
