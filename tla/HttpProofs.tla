------------------------------- MODULE HttpProofs -------------------------------
(***************************************************************************)
(* Proofs about the two ends of the library's HTTP, in three parts: what   *)
(* appending to a queue and taking from it does; the client, for any       *)
(* number of requests and any pool; the servers, for any posts, any queue  *)
(* and any pool.  Client and servers share an argument: a request or post  *)
(* is in one place at a time on its way.                                   *)
(***************************************************************************)
EXTENDS HttpClient, Servers, FiniteSetTheorems, SequenceTheorems, TLAPS

-----------------------------------------------------------------------------
(* Part 1. Queues, of requests and dummies or of whatever comes once only. *)
Once(q) == \A i, j \in 1..Len(q) : q[i] = q[j] /\ q[i] # Dummy => i = j
Unique(q) == \A i, j \in 1..Len(q) : q[i] = q[j] => i = j

(* Appending to a queue and taking its head.                               *)
LEMMA AppendIn ==
  ASSUME NEW S, NEW q \in Seq(S), NEW e \in S
  PROVE  /\ Append(q, e) \in Seq(S)
         /\ \A x : In(x, Append(q, e)) <=> In(x, q) \/ x = e
         /\ Once(q) /\ (~In(e, q) \/ e = Dummy) => Once(Append(q, e))
         /\ Unique(q) /\ ~In(e, q) => Unique(Append(q, e))
  <1> DEFINE a == Append(q, e)
  <1>1. /\ a \in Seq(S) /\ Len(a) = Len(q) + 1 /\ Len(q) \in Nat
        /\ a[Len(q) + 1] = e /\ \A i \in 1..Len(q) : a[i] = q[i]
    OBVIOUS
  <1>2. 1..Len(a) = 1..Len(q) \cup {Len(q) + 1}
    BY <1>1
  <1> HIDE DEF a
  <1>3. \A x : In(x, a) <=> In(x, q) \/ x = e
    BY <1>1, <1>2 DEF In
  <1>4. Once(q) /\ (~In(e, q) \/ e = Dummy) => Once(a)
    BY <1>1, <1>2 DEF In, Once
  <1>5. Unique(q) /\ ~In(e, q) => Unique(a)
    BY <1>1, <1>2 DEF In, Unique
  <1> QED BY <1>1, <1>3, <1>4, <1>5 DEF a

LEMMA TailIn ==
  ASSUME NEW S, NEW q \in Seq(S), q # <<>>
  PROVE  /\ Head(q) \in S /\ Tail(q) \in Seq(S)
         /\ In(Head(q), q)
         /\ \A x : In(x, Tail(q)) => In(x, q)
         /\ \A x : In(x, q) => x = Head(q) \/ In(x, Tail(q))
         /\ Once(q) => Once(Tail(q))
         /\ Once(q) /\ Head(q) # Dummy => ~In(Head(q), Tail(q))
         /\ Unique(q) => Unique(Tail(q)) /\ ~In(Head(q), Tail(q))
  <1> DEFINE t == Tail(q)
  <1>1. /\ t \in Seq(S) /\ Len(t) = Len(q) - 1 /\ Len(q) \in Nat \ {0}
        /\ Head(q) \in S /\ Head(q) = q[1] /\ \A i \in 1..Len(t) : t[i] = q[i + 1]
    OBVIOUS
  <1>2. \A i \in 1..Len(t) : i + 1 \in 1..Len(q) /\ i + 1 # 1
    BY <1>1
  <1> HIDE DEF t
  <1>3. In(Head(q), q) /\ \A x : In(x, t) => In(x, q)
    BY <1>1, <1>2 DEF In
  <1>4. Once(q) => Once(t)
    BY <1>1, <1>2 DEF Once
  <1>5. Once(q) /\ Head(q) # Dummy => ~In(Head(q), t)
    BY <1>1, <1>2 DEF Once, In
  <1>6. Unique(q) => Unique(t) /\ ~In(Head(q), t)
    BY <1>1, <1>2 DEF Unique, In
  <1>7. \A x : In(x, q) => x = Head(q) \/ In(x, t)
    <2>1. ASSUME NEW i \in 1..Len(q), i # 1 PROVE i - 1 \in 1..Len(t) /\ t[i - 1] = q[i]
      BY <1>1, <2>1
    <2> QED BY <1>1, <2>1 DEF In
  <1> QED BY <1>1, <1>3, <1>4, <1>5, <1>6, <1>7 DEF t

LEMMA ShortSequences ==
  ASSUME NEW a, NEW b
  PROVE  /\ Append(<<a>>, b) = <<a, b>>
         /\ Len(<<>>) = 0 /\ Len(<<a>>) = 1 /\ Len(<<a, b>>) = 2
  <1> DEFINE S == {a, b}
             s == Append(<<a>>, b)
             t == <<a, b>>
  <1>1. /\ s \in Seq(S) /\ t \in Seq(S) /\ <<a>> \in Seq(S)
        /\ Len(<<>>) = 0 /\ Len(<<a>>) = 1 /\ Len(t) = 2
    OBVIOUS
  <1>2. Len(s) = 2 /\ s[1] = a /\ s[2] = b /\ t[1] = a /\ t[2] = b
    BY <1>1
  <1> HIDE DEF s, t, S
  <1>3. s = t
    BY <1>1, <1>2, SeqEqual
  <1> QED BY <1>1, <1>3 DEF s, t

-----------------------------------------------------------------------------
(* Part 2. The client.                                                     *)

(* A request is queued, taken, posted or in a task, and only one of them.  *)
PlaceOf(r) ==
  /\ In(r, queue) => r \in sent /\ task[r] = "none" /\ taken # r /\ ~In(r, posted)
  /\ taken = r => r \in sent /\ task[r] = "none" /\ ~In(r, posted) /\ worker = "post"
  /\ In(r, posted) => r \in sent /\ task[r] = "none"
  /\ task[r] # "none" => r \in sent
CallsOf(r) ==
  /\ task[r] \in {"none", "exchange"} => calls[r] = <<>>
  /\ task[r] = "again" => calls[r] = <<TRUE>> /\ r \in Throwing
  /\ task[r] = "done" => \/ calls[r] \in {<<TRUE>>, <<FALSE>>}
                         \/ calls[r] = <<TRUE, FALSE>> /\ r \in Throwing

Inv ==
  /\ TypeOK /\ IsFiniteSet(Busy)
  /\ Once(queue) /\ Once(posted)
  /\ \A r \in Requests : PlaceOf(r) /\ CallsOf(r)

LEMMA InitInv == Init => Inv
  <1> SUFFICES ASSUME Init PROVE Inv
    OBVIOUS
  <1>1. Busy = {}
    BY DEF Init, Busy
  <1>2. Cardinality({}) = 0 /\ IsFiniteSet({}) /\ 0 <= PoolSize
    BY FS_EmptySet, ThreadPoolAssumption
  <1>3. /\ queue \in Seq(Requests \cup {Dummy}) /\ posted \in Seq(Requests)
        /\ Len(queue) = 0 /\ Len(posted) = 0
    BY DEF Init
  <1>4. /\ task \in [Requests -> {"none", "exchange", "again", "done"}]
        /\ calls \in [Requests -> Seq(BOOLEAN)]
    BY DEF Init
  <1>5. TypeOK
    BY <1>1, <1>2, <1>3, <1>4 DEF Init, TypeOK
  <1>6. Once(queue) /\ Once(posted) /\ \A x : ~In(x, queue) /\ ~In(x, posted)
    BY <1>3 DEF Once, In
  <1>7. \A r \in Requests : PlaceOf(r) /\ CallsOf(r)
    BY <1>6, HttpClientAssumption DEF Init, PlaceOf, CallsOf
  <1> QED BY <1>1, <1>2, <1>5, <1>6, <1>7 DEF Inv

-----------------------------------------------------------------------------
(* The steps that move no request and call nothing.                        *)
LEMMA StepQuiet ==
  ASSUME Inv, ConstructQueue \/ Test \/ PopUnbuilt \/ Destroy \/ Join \/ UNCHANGED vars
  PROVE  Inv'
  <1>1. /\ UNCHANGED <<queue, posted, task, calls, sent, taken>>
        /\ worker' = worker \/ worker # "post"
    BY DEF ConstructQueue, Test, PopUnbuilt, Destroy, Join, vars
  <1>2. TypeOK' /\ Busy' = Busy
    BY DEF Inv, TypeOK, Busy, ConstructQueue, Test, PopUnbuilt, Destroy, Join, vars
  <1>3. \A r \in Requests : PlaceOf(r)' /\ CallsOf(r)'
    BY <1>1 DEF Inv, PlaceOf, CallsOf
  <1> QED BY <1>1, <1>2, <1>3 DEF Inv

LEMMA StepSend ==
  ASSUME Inv, NEW r \in Requests, SendRequest(r)
  PROVE  Inv'
  <1>1. /\ r \notin sent /\ queue' = Append(queue, r) /\ sent' = sent \cup {r}
        /\ UNCHANGED <<built, broken, running, worker, taken, posted, task, calls, owner>>
    BY DEF SendRequest
  <1>2. /\ ~In(r, queue) /\ ~In(r, posted) /\ taken # r /\ task[r] = "none"
    BY <1>1 DEF Inv, PlaceOf
  <1>3. queue \in Seq(Requests \cup {Dummy}) /\ r \in Requests \cup {Dummy}
    BY DEF Inv, TypeOK
  <1>4. /\ queue' \in Seq(Requests \cup {Dummy}) /\ Once(queue')
        /\ \A x : In(x, queue') <=> In(x, queue) \/ x = r
    BY <1>1, <1>2, <1>3, AppendIn DEF Inv
  <1>5. TypeOK' /\ Busy' = Busy
    BY <1>1, <1>4 DEF Inv, TypeOK, Busy
  <1>6. \A s \in Requests : PlaceOf(s)' /\ CallsOf(s)'
    BY <1>1, <1>2, <1>4 DEF Inv, PlaceOf, CallsOf
  <1> QED BY <1>1, <1>4, <1>5, <1>6 DEF Inv

LEMMA StepPop ==
  ASSUME Inv, Pop
  PROVE  Inv'
  <1>1. /\ worker = "pop" /\ queue # <<>> /\ taken' = Head(queue) /\ queue' = Tail(queue)
        /\ worker' = "post"
        /\ UNCHANGED <<built, broken, running, posted, task, calls, owner, sent>>
    BY DEF Pop
  <1>2. /\ taken' \in Requests \cup {Dummy} /\ queue' \in Seq(Requests \cup {Dummy})
        /\ In(taken', queue) /\ Once(queue')
        /\ \A x : In(x, queue') => In(x, queue)
        /\ taken' # Dummy => ~In(taken', queue')
    BY <1>1, TailIn DEF Inv, TypeOK
  <1>3. TypeOK' /\ Busy' = Busy
    BY <1>1, <1>2 DEF Inv, TypeOK, Busy
  <1>4. \A r \in Requests : PlaceOf(r)' /\ CallsOf(r)'
    BY <1>1, <1>2, HttpClientAssumption DEF Inv, PlaceOf, CallsOf
  <1> QED BY <1>1, <1>2, <1>3, <1>4 DEF Inv

LEMMA StepPost ==
  ASSUME Inv, Post
  PROVE  Inv'
  <1>1. /\ worker = "post" /\ worker' = "test" /\ taken' = Dummy
        /\ posted' = IF taken = Dummy THEN posted ELSE Append(posted, taken)
        /\ UNCHANGED <<queue, built, broken, running, task, calls, owner, sent>>
    BY DEF Post
  <1>2. CASE taken = Dummy
    <2>1. TypeOK' /\ Busy' = Busy
      BY <1>1, <1>2 DEF Inv, TypeOK, Busy
    <2>2. \A r \in Requests : PlaceOf(r)' /\ CallsOf(r)'
      BY <1>1, <1>2, HttpClientAssumption DEF Inv, PlaceOf, CallsOf
    <2> QED BY <1>1, <1>2, <2>1, <2>2 DEF Inv
  <1>3. CASE taken # Dummy
    <2>1. /\ taken \in Requests /\ posted \in Seq(Requests)
          /\ ~In(taken, posted) /\ ~In(taken, queue) /\ taken \in sent /\ task[taken] = "none"
      BY <1>3 DEF Inv, TypeOK, PlaceOf
    <2>2. /\ posted' \in Seq(Requests) /\ Once(posted')
          /\ \A x : In(x, posted') <=> In(x, posted) \/ x = taken
      BY <1>1, <1>3, <2>1, AppendIn DEF Inv
    <2>3. TypeOK' /\ Busy' = Busy
      BY <1>1, <2>2 DEF Inv, TypeOK, Busy
    <2>4. \A r \in Requests : PlaceOf(r)' /\ CallsOf(r)'
      BY <1>1, <2>1, <2>2, HttpClientAssumption DEF Inv, PlaceOf, CallsOf
    <2> QED BY <1>1, <2>2, <2>3, <2>4 DEF Inv
  <1> QED BY <1>2, <1>3

LEMMA StepDummy ==
  ASSUME Inv, PushDummy
  PROVE  Inv'
  <1>1. /\ queue' = Append(queue, Dummy) /\ owner' = "joining"
        /\ UNCHANGED <<built, broken, running, worker, taken, posted, task, calls, sent>>
    BY DEF PushDummy
  <1>2. /\ queue' \in Seq(Requests \cup {Dummy}) /\ Once(queue')
        /\ \A x : In(x, queue') <=> In(x, queue) \/ x = Dummy
    BY <1>1, AppendIn DEF Inv, TypeOK
  <1>3. TypeOK' /\ Busy' = Busy
    BY <1>1, <1>2 DEF Inv, TypeOK, Busy
  <1>4. \A r \in Requests : PlaceOf(r)' /\ CallsOf(r)'
    BY <1>1, <1>2, HttpClientAssumption DEF Inv, PlaceOf, CallsOf
  <1> QED BY <1>1, <1>2, <1>3, <1>4 DEF Inv

(* The pool starts a task only on a thread that is free.                   *)
LEMMA StepStart ==
  ASSUME Inv, StartTask
  PROVE  Inv'
  <1>1. PICK r \in Requests : r = Head(posted)
    BY TailIn DEF Inv, TypeOK, StartTask
  <1>2. /\ posted # <<>> /\ Cardinality(Busy) < PoolSize /\ posted' = Tail(posted)
        /\ task' = [task EXCEPT ![r] = "exchange"]
        /\ UNCHANGED <<queue, built, broken, running, worker, taken, calls, owner, sent>>
    BY <1>1 DEF StartTask, HasFreeThread
  <1>3. /\ posted' \in Seq(Requests) /\ Once(posted') /\ In(r, posted)
        /\ \A x : In(x, posted') => In(x, posted)
        /\ ~In(r, posted')
    BY <1>1, <1>2, TailIn, HttpClientAssumption DEF Inv, TypeOK
  <1>4. r \in sent /\ task[r] = "none" /\ ~In(r, queue) /\ taken # r /\ calls[r] = <<>>
    BY <1>3 DEF Inv, PlaceOf, CallsOf
  <1>5. Busy' = Busy \cup {r} /\ r \notin Busy
    BY <1>2, <1>4 DEF Busy, Inv, TypeOK
  <1>6. IsFiniteSet(Busy') /\ Cardinality(Busy') = Cardinality(Busy) + 1
        /\ Cardinality(Busy) \in Nat
    BY <1>5, FS_AddElement, FS_CardinalityType DEF Inv
  <1>7. Cardinality(Busy') <= PoolSize
    BY <1>2, <1>6, ThreadPoolAssumption
  <1>8. TypeOK'
    BY <1>2, <1>3, <1>7 DEF Inv, TypeOK
  <1>9. \A s \in Requests : PlaceOf(s)' /\ CallsOf(s)'
    BY <1>2, <1>3, <1>4 DEF Inv, PlaceOf, CallsOf, TypeOK
  <1> QED BY <1>2, <1>3, <1>6, <1>8, <1>9 DEF Inv

(* A callback is called with an answer, and where it throws once more.     *)
LEMMA StepTask ==
  ASSUME Inv, NEW r \in Requests, Task(r)
  PROVE  Inv'
  <1>1. /\ task[r] \in {"exchange", "again"}
        /\ \E next \in {"again", "done"} : task' = [task EXCEPT ![r] = next]
        /\ \E success \in BOOLEAN : calls' = [calls EXCEPT ![r] = Append(@, success)]
        /\ UNCHANGED <<queue, built, broken, running, worker, taken, posted, owner, sent>>
    BY DEF Task, Exchange, CallAgain
  <1>2. /\ task \in [Requests -> {"none", "exchange", "again", "done"}]
        /\ calls \in [Requests -> Seq(BOOLEAN)]
    BY DEF Inv, TypeOK
  <1>3. Busy' \subseteq Busy
    BY <1>1, <1>2 DEF Busy
  <1>4. IsFiniteSet(Busy') /\ Cardinality(Busy') <= PoolSize
    <2>1. IsFiniteSet(Busy') /\ Cardinality(Busy') <= Cardinality(Busy)
      BY <1>3, FS_Subset DEF Inv
    <2>2. Cardinality(Busy) \in Nat /\ Cardinality(Busy') \in Nat /\ Cardinality(Busy) <= PoolSize
      BY <2>1, FS_CardinalityType DEF Inv, TypeOK
    <2> QED BY <2>1, <2>2, ThreadPoolAssumption
  <1>5. /\ task' \in [Requests -> {"none", "exchange", "again", "done"}]
        /\ \A s \in Requests : s # r => task'[s] = task[s] /\ calls'[s] = calls[s]
        /\ task'[r] \in {"again", "done"}
    BY <1>1, <1>2
  <1>6. calls' \in [Requests -> Seq(BOOLEAN)]
    <2>1. \A success \in BOOLEAN : Append(calls[r], success) \in Seq(BOOLEAN)
      BY <1>2
    <2> QED BY <1>1, <1>2, <2>1
  <1>7. TypeOK'
    BY <1>1, <1>4, <1>5, <1>6 DEF Inv, TypeOK
  <1>8. \A s \in Requests : PlaceOf(s)'
    BY <1>1, <1>5 DEF Inv, PlaceOf
  <1>9. CallsOf(r)'
    <2>1. CASE CallAgain(r)
      <3>1. /\ calls[r] = <<TRUE>> /\ r \in Throwing /\ task'[r] = "done"
            /\ calls'[r] = Append(calls[r], FALSE)
        BY <1>2, <2>1 DEF CallAgain, Inv, CallsOf
      <3>2. Append(<<TRUE>>, FALSE) = <<TRUE, FALSE>>
        BY ShortSequences
      <3> QED BY <3>1, <3>2 DEF CallsOf
    <2>2. ASSUME NEW success \in BOOLEAN, Exchange(r, success)
          PROVE  CallsOf(r)'
      <3>1. /\ calls[r] = <<>> /\ calls'[r] = Append(calls[r], success)
            /\ task'[r] = IF success /\ r \in Throwing THEN "again" ELSE "done"
        BY <1>2, <2>2 DEF Exchange, Inv, CallsOf
      <3>2. calls'[r] = <<success>>
        BY <3>1
      <3> QED BY <3>1, <3>2 DEF CallsOf
    <2> QED BY <2>1, <2>2 DEF Task
  <1>10. \A s \in Requests : CallsOf(s)'
    BY <1>5, <1>9 DEF Inv, CallsOf
  <1> QED BY <1>1, <1>4, <1>7, <1>8, <1>10 DEF Inv

LEMMA StepInv == Inv /\ [Next]_vars => Inv'
  BY StepQuiet, StepSend, StepPop, StepPost, StepDummy, StepStart, StepTask
     DEF Next, Worker, Destructor

-----------------------------------------------------------------------------
(* The queues hold requests, and no more tasks run than the pool allows.   *)
THEOREM TypeCorrect == Spec => []TypeOK
  <1>1. Inv => TypeOK
    BY DEF Inv
  <1> QED BY <1>1, InitInv, StepInv, PTL DEF Spec

(* A callback is called a second time only if it threw on an answer.       *)
THEOREM CallbacksAreCalledOnce == Spec => []OneCallUnlessItThrew
  <1>1. Inv => OneCallUnlessItThrew
    <2> SUFFICES ASSUME Inv, NEW r \in Requests
                 PROVE  /\ Len(calls[r]) <= IF r \in Throwing THEN 2 ELSE 1
                        /\ Len(calls[r]) = 2 => calls[r] = <<TRUE, FALSE>>
      BY DEF OneCallUnlessItThrew
    <2>1. CallsOf(r) /\ task[r] \in {"none", "exchange", "again", "done"}
      BY DEF Inv, TypeOK
    <2>2. \/ calls[r] \in {<<>>, <<TRUE>>, <<FALSE>>}
          \/ calls[r] = <<TRUE, FALSE>> /\ r \in Throwing
      BY <2>1 DEF CallsOf
    <2>3. Len(<<>>) = 0 /\ Len(<<TRUE>>) = 1 /\ Len(<<FALSE>>) = 1 /\ Len(<<TRUE, FALSE>>) = 2
      BY ShortSequences
    <2>4. CASE calls[r] \in {<<>>, <<TRUE>>, <<FALSE>>}
      <3>1. Len(calls[r]) = 0 \/ Len(calls[r]) = 1
        BY <2>3, <2>4
      <3>2. \A n : n = 0 \/ n = 1 => n <= 1 /\ n <= 2 /\ n # 2
        OBVIOUS
      <3> QED BY <3>1, <3>2
    <2>5. CASE calls[r] = <<TRUE, FALSE>> /\ r \in Throwing
      BY <2>3, <2>5
    <2> QED BY <2>2, <2>4, <2>5
  <1> QED BY <1>1, InitInv, StepInv, PTL DEF Spec

-----------------------------------------------------------------------------
(* Every request sent is somewhere: queued, taken, posted to the pool or   *)
(* in a task, which has called back when it is done. When the destructor   *)
(* has returned, every request is with the pool: none was left queued by   *)
(* the thread the destructor waited for. EveryRequestAnswered rests on it. *)
RequestsAreKept ==
  \A r \in sent :
    /\ In(r, queue) \/ taken = r \/ In(r, posted) \/ task[r] # "none"
    /\ task[r] = "done" => calls[r] # <<>>
    /\ owner = "gone" => In(r, posted) \/ task[r] # "none"

(* The thread ends after the last request was queued, and with none left.  *)
KeptInv ==
  /\ \A r \in sent : In(r, queue) \/ taken = r \/ In(r, posted) \/ task[r] # "none"
  /\ ~built <=> owner = "constructing"
  /\ running <=> owner \in {"constructing", "alive"}
  /\ worker = "done" => ~running /\ \A r \in Requests : ~In(r, queue)
  /\ owner = "gone" => worker = "done"
  /\ JoinIsWoken

LEMMA KeptInvInit == Init => KeptInv
  BY DEF Init, KeptInv, JoinIsWoken

LEMMA KeptInvStep == Inv /\ KeptInv /\ [Next]_vars => KeptInv'
  <1> SUFFICES ASSUME Inv, KeptInv, [Next]_vars PROVE KeptInv'
    OBVIOUS
  <1>1. TypeOK /\ queue \in Seq(Requests \cup {Dummy}) /\ posted \in Seq(Requests) /\ sent \subseteq Requests
    BY DEF Inv, TypeOK
  <1>2. CASE ConstructQueue \/ PopUnbuilt \/ Destroy \/ Join \/ UNCHANGED vars
    BY <1>2 DEF KeptInv, JoinIsWoken, ConstructQueue, PopUnbuilt, Destroy, Join, vars
  <1>3. CASE Test
    <2>1. queue = <<>> => \A r \in Requests : ~In(r, queue)
      BY DEF In
    <2> QED BY <1>3, <2>1 DEF KeptInv, JoinIsWoken, Test
  <1>4. CASE Pop
    <2>1. \A x : In(x, queue) => x = taken' \/ In(x, queue')
      BY <1>1, <1>4, TailIn DEF Pop
    <2>2. ASSUME NEW r \in sent'
          PROVE  In(r, queue') \/ taken' = r \/ In(r, posted') \/ task'[r] # "none"
      <3>1. r \in sent /\ r \in Requests /\ worker = "pop"
        BY <1>1, <1>4 DEF Pop
      <3>2. taken # r
        BY <3>1 DEF Inv, PlaceOf
      <3> QED BY <1>4, <2>1, <3>1, <3>2 DEF KeptInv, JoinIsWoken, Pop
    <2> QED BY <1>4, <2>2 DEF KeptInv, JoinIsWoken, Pop
  <1>5. CASE Post
    <2>1. ASSUME NEW r \in sent'
          PROVE  In(r, queue') \/ taken' = r \/ In(r, posted') \/ task'[r] # "none"
      <3>1. r \in sent /\ r \in Requests /\ r # Dummy
        BY <1>1, <1>5, HttpClientAssumption DEF Post
      <3>2. In(r, posted) \/ taken = r => In(r, posted')
        <4>1. CASE taken = Dummy
          BY <1>5, <3>1, <4>1 DEF Post
        <4>2. CASE taken # Dummy
          <5>1. taken \in Requests /\ posted' = Append(posted, taken)
            BY <1>1, <1>5, <4>2 DEF Post, TypeOK
          <5> QED BY <1>1, <5>1, AppendIn
        <4> QED BY <4>1, <4>2
      <3> QED BY <1>5, <3>1, <3>2 DEF KeptInv, JoinIsWoken, Post
    <2> QED BY <1>5, <2>1 DEF KeptInv, JoinIsWoken, Post
  <1>6. CASE PushDummy
    <2>1. \A x : In(x, queue') <=> In(x, queue) \/ x = Dummy
      BY <1>1, <1>6, AppendIn DEF PushDummy
    <2>2. queue' # <<>>
      BY <1>1, <1>6 DEF PushDummy
    <2> QED BY <1>6, <2>1, <2>2, HttpClientAssumption DEF KeptInv, JoinIsWoken, PushDummy
  <1>7. ASSUME NEW r \in Requests, SendRequest(r) PROVE KeptInv'
    <2>1. \A x : In(x, queue') <=> In(x, queue) \/ x = r
      BY <1>1, <1>7, AppendIn DEF SendRequest
    <2> QED BY <1>7, <2>1 DEF KeptInv, JoinIsWoken, SendRequest
  <1>8. CASE StartTask
    <2>1. PICK r \in Requests : r = Head(posted)
      BY <1>1, <1>8, TailIn DEF StartTask
    <2>2. task' = [task EXCEPT ![r] = "exchange"] /\ posted' = Tail(posted) /\ posted # <<>>
          /\ UNCHANGED <<queue, built, broken, running, worker, taken, calls, owner, sent>>
      BY <1>8, <2>1 DEF StartTask
    <2>3. \A x : In(x, posted) => x = r \/ In(x, posted')
      BY <1>1, <2>1, <2>2, TailIn
    <2>4. ASSUME NEW s \in sent'
          PROVE  In(s, queue') \/ taken' = s \/ In(s, posted') \/ task'[s] # "none"
      <3>1. s \in sent /\ task'[r] = "exchange" /\ (s # r => task'[s] = task[s])
        BY <1>1, <2>2 DEF TypeOK
      <3> QED BY <2>2, <2>3, <3>1 DEF KeptInv, JoinIsWoken
    <2> QED BY <2>2, <2>4 DEF KeptInv, JoinIsWoken
  <1>9. ASSUME NEW r \in Requests, Task(r) PROVE KeptInv'
    <2>1. /\ \E next \in {"again", "done"} : task' = [task EXCEPT ![r] = next]
          /\ UNCHANGED <<queue, built, broken, running, worker, taken, posted, owner, sent>>
      BY <1>9 DEF Task, Exchange, CallAgain
    <2>2. \A s \in sent : task[s] # "none" => task'[s] # "none"
      BY <1>1, <2>1 DEF TypeOK
    <2> QED BY <2>1, <2>2 DEF KeptInv, JoinIsWoken
  <1> QED BY <1>2, <1>3, <1>4, <1>5, <1>6, <1>7, <1>8, <1>9 DEF Next, Worker, Destructor

(* No request is lost, however many hang and whenever the client is        *)
(* destroyed: the thread hands every one on before it ends.                *)
THEOREM RequestsAreKeptHolds == Spec => []RequestsAreKept
  <1>1. ASSUME Inv, KeptInv PROVE RequestsAreKept
    <2> SUFFICES ASSUME NEW r \in sent
                 PROVE  /\ In(r, queue) \/ taken = r \/ In(r, posted) \/ task[r] # "none"
                        /\ task[r] = "done" => calls[r] # <<>>
                        /\ owner = "gone" => In(r, posted) \/ task[r] # "none"
      BY DEF RequestsAreKept
    <2>1. r \in Requests /\ PlaceOf(r) /\ CallsOf(r)
      BY <1>1 DEF Inv, TypeOK
    <2>2. <<TRUE>> # <<>> /\ <<FALSE>> # <<>> /\ <<TRUE, FALSE>> # <<>>
      BY ShortSequences
    <2>3. task[r] = "done" => calls[r] # <<>>
      BY <2>1, <2>2 DEF CallsOf
    <2>4. In(r, queue) \/ taken = r \/ In(r, posted) \/ task[r] # "none"
      BY <1>1 DEF KeptInv
    <2>5. owner = "gone" => ~In(r, queue) /\ taken # r
      BY <1>1, <2>1 DEF KeptInv, PlaceOf
    <2> QED BY <2>3, <2>4, <2>5
  <1> QED BY <1>1, InitInv, StepInv, KeptInvInit, KeptInvStep, PTL DEF Spec

(* Whenever the client is destroyed, its destructor is not left waiting    *)
(* for a thread that nobody will wake.                                     *)
THEOREM JoinIsWokenHolds == Spec => []JoinIsWoken
  <1>1. KeptInv => JoinIsWoken
    BY DEF KeptInv
  <1> QED BY <1>1, InitInv, StepInv, KeptInvInit, KeptInvStep, PTL DEF Spec

-----------------------------------------------------------------------------
(* Part 3. The servers.                                                    *)

(* A post waits in one backlog, is a request to read, or has been answered *)
(* and is on its way to the tuner, and has one place of those at a time.   *)
PostPlace(p) ==
  /\ \A s \in ServerNames : In(p, backlog[s]) => conn[p] = "waiting" /\ at[p] = s
  /\ Handled(p) => conn[p] = "accepted"
  /\ In(p, tunerQueue) \/ Tuning(p) \/ In(p, tuned) \/ p \in dropped =>
       conn[p] \in {"answered", "closed"} /\ p \in ForTuning
  /\ p \in dropped => ~In(p, tunerQueue) /\ ~Tuning(p) /\ ~In(p, tuned)
  /\ In(p, tunerQueue) => ~Tuning(p) /\ ~In(p, tuned)
  /\ Tuning(p) => ~In(p, tuned)
  /\ \A job \in {"handle", "tune"} : Job(job, p) \in busy => ~In(Job(job, p), tasks)
(* No server was got before it was started, and what became of the post    *)
(* has the reason RepliesAreTrue gives.                                    *)
PostReply(p) ==
  /\ conn[p] # "none" => life[at[p]] # "none"
  /\ conn[p] = "answered" => at[p] = Target(p)
  /\ conn[p] = "closed" => at[p] # Target(p) \/ ~Running(at[p]) \/ p \in Faulty
  /\ conn[p] = "reset" => ~Running(at[p])

QueuesUnique ==
  /\ \A s \in ServerNames : Unique(backlog[s])
  /\ Unique(tasks) /\ Unique(tunerQueue) /\ Unique(tuned)
ListeningIsStarted == \A s \in ServerNames : acceptor[s] = "listening" => life[s] # "none"

ServersInv ==
  /\ ServersTypeOK /\ IsFiniteSet(busy)
  /\ QueuesUnique /\ ListeningIsStarted
  /\ \A p \in Posts : PostPlace(p)
  /\ \A p \in Posts : PostReply(p)

Jobs == [job : {"handle", "tune"}, post : Posts]

LEMMA JobsDiffer ==
  ASSUME NEW j, NEW k, NEW p, NEW q
  PROVE  Job(j, p) = Job(k, q) <=> j = k /\ p = q
  BY DEF Job

LEMMA JobOfPost ==
  /\ \A t \in Jobs : t.post \in Posts /\ t.job \in {"handle", "tune"} /\ t = Job(t.job, t.post)
  /\ \A p \in Posts : Job("handle", p) \in Jobs /\ Job("tune", p) \in Jobs
  BY DEF Jobs, Job

(* A server that is no longer up never is again.                           *)
LifeGoesOn ==
  \A s \in ServerNames : /\ life[s] # "none" => life'[s] # "none"
                         /\ life[s] # "none" /\ ~Running(s) => ~Running(s)'

LEMMA ReplyIsKept ==
  ASSUME ServersInv, NEW p \in Posts, LifeGoesOn, conn'[p] = conn[p], at'[p] = at[p]
  PROVE  PostReply(p)'
  <1>1. at[p] \in ServerNames /\ PostReply(p)
    BY DEF ServersInv, ServersTypeOK
  <1> QED BY <1>1 DEF PostReply, LifeGoesOn, Target, Running

LEMMA ServersInvInit == ServersInit => ServersInv
  <1> SUFFICES ASSUME ServersInit PROVE ServersInv
    OBVIOUS
  <1>1. /\ backlog = [s \in ServerNames |-> <<>>] /\ tasks = <<>> /\ busy = {} /\ tunerQueue = <<>>
        /\ tuned = <<>> /\ dropped = {} /\ conn = [p \in Posts |-> "none"]
    BY DEF ServersInit
  <1>2. Cardinality(busy) = 0 /\ IsFiniteSet(busy) /\ Len(<<>>) = 0
    BY <1>1, FS_EmptySet
  <1>3. \A x : ~In(x, <<>>)
    BY <1>2 DEF In
  <1>4. Unique(<<>>)
    BY <1>2 DEF Unique
  <1>5. ServersTypeOK
    <2>1. /\ life \in [ServerNames -> {"none", "up", "stopping", "joining", "gone"}]
          /\ acceptor \in [ServerNames -> {"closed", "listening", "deaf"}]
          /\ thread \in [ServerNames -> {"none", "accept", "done"}]
          /\ at \in [Posts -> ServerNames]
      BY DEF ServersInit, ServerNames, Target
    <2>2. /\ backlog \in [ServerNames -> Seq(Posts)] /\ tasks \in Seq(Jobs)
          /\ tunerQueue \in Seq(ForTuning) /\ tuned \in Seq(ForTuning)
      BY <1>1
    <2>3. program \in {"runs", "misused", "terminated"} /\ held = 0
      BY DEF ServersInit
    <2>4. /\ held \in 0..Hung /\ Cardinality(busy) + held <= PoolSize
          /\ Len(tunerQueue) <= QueueCap
      BY <1>1, <1>2, <2>3, ServersAssumption, ThreadPoolAssumption
    <2> QED BY <1>1, <2>1, <2>2, <2>3, <2>4 DEF ServersTypeOK, Jobs
  <1>6. QueuesUnique /\ ListeningIsStarted
    BY <1>1, <1>4 DEF QueuesUnique, ListeningIsStarted, ServersInit
  <1>7. \A p \in Posts : PostPlace(p) /\ PostReply(p)
    BY <1>1, <1>3 DEF PostPlace, PostReply, Handled, Tuning
  <1> QED BY <1>2, <1>5, <1>6, <1>7 DEF ServersInv

(* The steps that move no post: they change servers and threads only.      *)
LEMMA StepServersQuiet ==
  ASSUME ServersInv,
         UNCHANGED <<backlog, conn, at, tasks, busy, held, tunerQueue, dropped, tuned, program>>,
         LifeGoesOn, ListeningIsStarted',
         life' \in [ServerNames -> {"none", "up", "stopping", "joining", "gone"}],
         acceptor' \in [ServerNames -> {"closed", "listening", "deaf"}],
         thread' \in [ServerNames -> {"none", "accept", "done"}]
  PROVE  ServersInv'
  <1>1. ServersTypeOK' /\ IsFiniteSet(busy')
    BY DEF ServersInv, ServersTypeOK
  <1>2. QueuesUnique'
    BY DEF ServersInv, QueuesUnique
  <1>3. \A p \in Posts : PostPlace(p)'
    BY DEF ServersInv, PostPlace, Handled, Tuning
  <1>4. \A p \in Posts : PostReply(p)'
    BY ReplyIsKept
  <1> QED BY <1>1, <1>2, <1>3, <1>4 DEF ServersInv

(* HttpClient's exchanges take no thread that a task is in.                *)
LEMMA StepHoldThreads ==
  ASSUME ServersInv, HoldThreads
  PROVE  ServersInv'
  <1>1. /\ held' \in 0..Hung /\ Cardinality(busy) + held' <= PoolSize
        /\ UNCHANGED <<life, acceptor, thread, backlog, conn, at, tasks, busy, tunerQueue, dropped,
                       tuned, program>>
    BY DEF HoldThreads
  <1>2. ServersTypeOK' /\ IsFiniteSet(busy')
    BY <1>1 DEF ServersInv, ServersTypeOK
  <1>3. QueuesUnique' /\ ListeningIsStarted' /\ LifeGoesOn
    BY <1>1 DEF ServersInv, QueuesUnique, ListeningIsStarted, LifeGoesOn, Running
  <1>4. \A p \in Posts : PostPlace(p)'
    BY <1>1 DEF ServersInv, PostPlace, Handled, Tuning
  <1>5. \A p \in Posts : PostReply(p)'
    BY <1>1, <1>3, ReplyIsKept
  <1> QED BY <1>2, <1>3, <1>4, <1>5 DEF ServersInv

LEMMA StepLifeAndAccept ==
  ASSUME ServersInv, NEW s \in ServerNames,
         Start(s) \/ AcceptError(s) \/ Stop(s) \/ JoinAccept(s)
  PROVE  ServersInv'
  <1>1. /\ life \in [ServerNames -> {"none", "up", "stopping", "joining", "gone"}]
        /\ acceptor \in [ServerNames -> {"closed", "listening", "deaf"}]
        /\ thread \in [ServerNames -> {"none", "accept", "done"}]
        /\ ListeningIsStarted
    BY DEF ServersInv, ServersTypeOK
  <1>2. UNCHANGED <<backlog, conn, at, tasks, busy, held, tunerQueue, dropped, tuned, program>>
    BY DEF Start, AcceptError, Stop, JoinAccept
  <1>3. CASE Start(s)
    <2>1. PICK a \in {"listening", "deaf"} : acceptor' = [acceptor EXCEPT ![s] = a]
      BY <1>3 DEF Start
    <2>2. /\ life[s] = "none" /\ life' = [life EXCEPT ![s] = "up"]
          /\ thread' = [thread EXCEPT ![s] = "accept"]
      BY <1>3 DEF Start
    <2>3. LifeGoesOn /\ ListeningIsStarted'
      BY <1>1, <2>1, <2>2 DEF LifeGoesOn, ListeningIsStarted, Running
    <2> QED BY <1>1, <1>2, <2>1, <2>2, <2>3, StepServersQuiet
  <1>4. CASE AcceptError(s)
    <2>1. UNCHANGED <<life, acceptor>> /\ thread' \in [ServerNames -> {"none", "accept", "done"}]
      BY <1>1, <1>4 DEF AcceptError, NextAccept
    <2>2. LifeGoesOn /\ ListeningIsStarted'
      BY <1>1, <2>1 DEF LifeGoesOn, ListeningIsStarted, Running
    <2> QED BY <1>1, <1>2, <2>1, <2>2, StepServersQuiet
  <1>5. CASE Stop(s) \/ JoinAccept(s)
    <2>1. UNCHANGED <<acceptor, thread>>
          /\ \E l \in {"stopping", "gone"} : life' = [life EXCEPT ![s] = l]
      BY <1>5 DEF Stop, JoinAccept
    <2>2. LifeGoesOn /\ ListeningIsStarted'
      BY <1>1, <2>1 DEF LifeGoesOn, ListeningIsStarted, Running
    <2> QED BY <1>1, <1>2, <2>1, <2>2, StepServersQuiet
  <1> QED BY <1>3, <1>4, <1>5

(* A client connects to one of the servers that listen.                    *)
LEMMA StepConnect ==
  ASSUME ServersInv, NEW p \in Posts, Connect(p)
  PROVE  ServersInv'
  <1>1. PICK s \in ServerNames : /\ acceptor[s] = "listening" /\ at' = [at EXCEPT ![p] = s]
                                 /\ backlog' = [backlog EXCEPT ![s] = Append(@, p)]
    BY DEF Connect
  <1>2. /\ conn[p] = "none" /\ conn' = [conn EXCEPT ![p] = "waiting"]
        /\ UNCHANGED <<life, acceptor, thread, tasks, busy, held, tunerQueue, dropped, tuned,
                       program>>
    BY DEF Connect
  <1>3. ServersTypeOK /\ \A q \in Posts : PostPlace(q) /\ PostReply(q)
    BY DEF ServersInv
  <1>4. \A r \in ServerNames : ~In(p, backlog[r])
    BY <1>2, <1>3 DEF PostPlace
  <1>5. backlog[s] \in Seq(Posts) /\ Unique(backlog[s])
    BY DEF ServersInv, ServersTypeOK, QueuesUnique
  <1>6. /\ Append(backlog[s], p) \in Seq(Posts) /\ Unique(Append(backlog[s], p))
        /\ \A x : In(x, Append(backlog[s], p)) <=> In(x, backlog[s]) \/ x = p
    BY <1>4, <1>5, AppendIn
  <1>7. /\ backlog' \in [ServerNames -> Seq(Posts)] /\ backlog'[s] = Append(backlog[s], p)
        /\ \A r \in ServerNames : r # s => backlog'[r] = backlog[r]
    BY <1>1, <1>3, <1>6 DEF ServersTypeOK
  <1>8. /\ at' \in [Posts -> ServerNames] /\ at'[p] = s /\ conn'[p] = "waiting"
        /\ conn' \in [Posts -> {"none", "waiting", "accepted", "answered", "closed", "reset"}]
        /\ \A q \in Posts : q # p => at'[q] = at[q] /\ conn'[q] = conn[q]
    BY <1>1, <1>2, <1>3 DEF ServersTypeOK
  <1>9. ServersTypeOK'
    BY <1>2, <1>3, <1>7, <1>8 DEF ServersTypeOK
  <1>10. QueuesUnique'
    BY <1>2, <1>6, <1>7 DEF ServersInv, QueuesUnique
  <1>11. ASSUME NEW q \in Posts PROVE PostPlace(q)'
    <2>1. PostPlace(q)
      BY <1>3
    <2>2. CASE q = p
      BY <1>2, <1>4, <1>6, <1>7, <1>8, <2>1, <2>2 DEF PostPlace, Handled, Tuning
    <2>3. CASE q # p
      <3>1. \A r \in ServerNames : In(q, backlog'[r]) => In(q, backlog[r])
        BY <1>6, <1>7, <2>3
      <3>2. at'[q] = at[q] /\ conn'[q] = conn[q]
        BY <1>8, <2>3
      <3> QED BY <1>2, <2>1, <3>1, <3>2 DEF PostPlace, Handled, Tuning
    <2> QED BY <2>2, <2>3
  <1>12. LifeGoesOn
    BY <1>2 DEF LifeGoesOn, Running
  <1>13. ASSUME NEW q \in Posts PROVE PostReply(q)'
    <2>1. CASE q = p
      BY <1>1, <1>2, <1>8, <2>1 DEF PostReply, ServersInv, ListeningIsStarted
    <2>2. CASE q # p
      BY <1>8, <1>12, <2>2, ReplyIsKept
    <2> QED BY <2>1, <2>2
  <1> QED BY <1>2, <1>9, <1>10, <1>11, <1>13 DEF ServersInv, ListeningIsStarted

(* The accepted connection leaves its backlog and becomes a task.          *)
LEMMA StepAcceptPost ==
  ASSUME ServersInv, NEW s \in ServerNames, AcceptPost(s)
  PROVE  ServersInv'
  <1>1. ServersTypeOK /\ \A q \in Posts : PostPlace(q) /\ PostReply(q)
    BY DEF ServersInv
  <1>2. backlog[s] \in Seq(Posts) /\ backlog[s] # <<>> /\ Unique(backlog[s])
    BY DEF AcceptPost, ServersInv, ServersTypeOK, QueuesUnique
  <1>3. PICK p \in Posts : p = Head(backlog[s])
    BY <1>2, TailIn
  <1>4. /\ conn' = [conn EXCEPT ![p] = "accepted"] /\ tasks' = Append(tasks, Job("handle", p))
        /\ backlog' = [backlog EXCEPT ![s] = Tail(@)]
        /\ UNCHANGED <<life, acceptor, at, busy, held, tunerQueue, dropped, tuned, program>>
    BY <1>3 DEF AcceptPost
  <1>5. thread' \in [ServerNames -> {"none", "accept", "done"}]
    BY <1>1 DEF AcceptPost, NextAccept, ServersTypeOK
  <1>6. /\ Tail(backlog[s]) \in Seq(Posts) /\ In(p, backlog[s]) /\ Unique(Tail(backlog[s]))
        /\ ~In(p, Tail(backlog[s])) /\ \A x : In(x, Tail(backlog[s])) => In(x, backlog[s])
    BY <1>2, <1>3, TailIn
  <1>7. /\ backlog' \in [ServerNames -> Seq(Posts)] /\ backlog'[s] = Tail(backlog[s])
        /\ \A r \in ServerNames : r # s => backlog'[r] = backlog[r]
    BY <1>1, <1>4, <1>6 DEF ServersTypeOK
  <1>8. conn[p] = "waiting" /\ at[p] = s
    BY <1>1, <1>6 DEF PostPlace
  <1>9. \A r \in ServerNames : ~In(p, backlog'[r])
    <2>1. \A r \in ServerNames : In(p, backlog[r]) => at[p] = r
      BY <1>1 DEF PostPlace
    <2> QED BY <1>6, <1>7, <1>8, <2>1
  <1>10. tasks \in Seq(Jobs) /\ Job("handle", p) \in Jobs /\ Unique(tasks)
    BY <1>1, JobOfPost DEF ServersTypeOK, Jobs, ServersInv, QueuesUnique
  <1>11. ~In(Job("handle", p), tasks) /\ Job("handle", p) \notin busy
    BY <1>1, <1>8 DEF PostPlace, Handled
  <1>12. /\ tasks' \in Seq(Jobs) /\ Unique(tasks')
         /\ \A x : In(x, tasks') <=> In(x, tasks) \/ x = Job("handle", p)
    BY <1>4, <1>10, <1>11, AppendIn
  <1>13. /\ conn' \in [Posts -> {"none", "waiting", "accepted", "answered", "closed", "reset"}]
         /\ conn'[p] = "accepted" /\ \A q \in Posts : q # p => conn'[q] = conn[q]
    BY <1>1, <1>4 DEF ServersTypeOK
  <1>14. ServersTypeOK'
    BY <1>1, <1>4, <1>5, <1>7, <1>12, <1>13 DEF ServersTypeOK, Jobs
  <1>15. QueuesUnique'
    BY <1>4, <1>6, <1>7, <1>12 DEF ServersInv, QueuesUnique
  <1>16. ASSUME NEW q \in Posts PROVE PostPlace(q)'
    <2>1. PostPlace(q)
      BY <1>1
    <2>2. \A r \in ServerNames : In(q, backlog'[r]) => In(q, backlog[r]) /\ q # p
      BY <1>6, <1>7, <1>9
    <2>3. /\ In(Job("tune", q), tasks') <=> In(Job("tune", q), tasks)
          /\ In(Job("handle", q), tasks') <=> In(Job("handle", q), tasks) \/ q = p
      BY <1>12, JobsDiffer
    <2>4. CASE q = p
      BY <1>4, <1>8, <1>9, <1>11, <1>13, <2>1, <2>3, <2>4 DEF PostPlace, Handled, Tuning
    <2>5. CASE q # p
      BY <1>4, <1>13, <2>1, <2>2, <2>3, <2>5 DEF PostPlace, Handled, Tuning
    <2> QED BY <2>4, <2>5
  <1>17. LifeGoesOn
    BY <1>4 DEF LifeGoesOn, Running
  <1>18. ASSUME NEW q \in Posts PROVE PostReply(q)'
    <2>1. CASE q = p
      BY <1>1, <1>4, <1>8, <1>13, <2>1 DEF PostReply
    <2>2. CASE q # p
      BY <1>4, <1>13, <1>17, <2>2, ReplyIsKept
    <2> QED BY <2>1, <2>2
  <1> QED BY <1>4, <1>14, <1>15, <1>16, <1>18 DEF ServersInv, ListeningIsStarted

(* The connections a closed acceptor held are reset.                       *)
LEMMA StepCloseAcceptor ==
  ASSUME ServersInv, NEW s \in ServerNames, CloseAcceptor(s)
  PROVE  ServersInv'
  <1>1. ServersTypeOK /\ \A q \in Posts : PostPlace(q) /\ PostReply(q)
    BY DEF ServersInv
  <1>2. /\ life[s] = "stopping" /\ life' = [life EXCEPT ![s] = "joining"]
        /\ acceptor' = [acceptor EXCEPT ![s] = "closed"]
        /\ backlog' = [backlog EXCEPT ![s] = <<>>]
        /\ UNCHANGED <<thread, at, tasks, busy, held, tunerQueue, dropped, tuned, program>>
    BY DEF CloseAcceptor
  <1>3. \A q \in Posts : conn'[q] = IF In(q, backlog[s]) THEN "reset" ELSE conn[q]
    <2>1. DOMAIN backlog[s] = 1..Len(backlog[s])
      BY <1>1 DEF ServersTypeOK
    <2> QED BY <2>1 DEF CloseAcceptor, In
  <1>4. conn' \in [Posts -> {"none", "waiting", "accepted", "answered", "closed", "reset"}]
    BY <1>1 DEF CloseAcceptor, ServersTypeOK
  <1>5. Unique(<<>>) /\ \A x : ~In(x, <<>>)
    BY DEF Unique, In
  <1>6. /\ backlog' \in [ServerNames -> Seq(Posts)] /\ backlog'[s] = <<>>
        /\ \A r \in ServerNames : r # s => backlog'[r] = backlog[r]
    BY <1>1, <1>2 DEF ServersTypeOK
  <1>7. /\ life' \in [ServerNames -> {"none", "up", "stopping", "joining", "gone"}]
        /\ acceptor' \in [ServerNames -> {"closed", "listening", "deaf"}]
        /\ life'[s] = "joining" /\ acceptor'[s] = "closed"
        /\ \A r \in ServerNames : r # s => life'[r] = life[r] /\ acceptor'[r] = acceptor[r]
    BY <1>1, <1>2 DEF ServersTypeOK
  <1>8. ServersTypeOK'
    BY <1>1, <1>2, <1>4, <1>6, <1>7 DEF ServersTypeOK
  <1>9. QueuesUnique' /\ ListeningIsStarted' /\ LifeGoesOn
    BY <1>2, <1>5, <1>6, <1>7 DEF ServersInv, QueuesUnique, ListeningIsStarted, LifeGoesOn, Running
  <1>10. ASSUME NEW q \in Posts PROVE PostPlace(q)' /\ PostReply(q)'
    <2>1. PostPlace(q) /\ PostReply(q)
      BY <1>1
    <2>2. CASE In(q, backlog[s])
      <3>1. conn'[q] = "reset" /\ conn[q] = "waiting" /\ at[q] = s /\ at' = at
        BY <1>2, <1>3, <2>1, <2>2 DEF PostPlace
      <3>2. \A r \in ServerNames : ~In(q, backlog'[r])
        <4>1. \A r \in ServerNames : In(q, backlog[r]) => at[q] = r
          BY <2>1 DEF PostPlace
        <4> QED BY <1>5, <1>6, <3>1, <4>1
      <3>3. PostPlace(q)'
        BY <1>2, <2>1, <3>1, <3>2 DEF PostPlace, Handled, Tuning
      <3>4. PostReply(q)'
        BY <1>7, <3>1 DEF PostReply, Running
      <3> QED BY <3>3, <3>4
    <2>3. CASE ~In(q, backlog[s])
      <3>1. conn'[q] = conn[q] /\ at'[q] = at[q]
        BY <1>2, <1>3, <2>3
      <3>2. PostPlace(q)'
        BY <1>2, <1>5, <1>6, <2>1, <3>1 DEF PostPlace, Handled, Tuning
      <3>3. PostReply(q)'
        BY <1>9, <3>1, ReplyIsKept
      <3> QED BY <3>2, <3>3
    <2> QED BY <2>2, <2>3
  <1> QED BY <1>2, <1>8, <1>9, <1>10 DEF ServersInv

(* A task that starts leaves the queue of the pool.                        *)
LEMMA StepRunTask ==
  ASSUME ServersInv, RunTask
  PROVE  ServersInv'
  <1>1. ServersTypeOK /\ \A q \in Posts : PostPlace(q) /\ PostReply(q)
    BY DEF ServersInv
  <1>2. tasks \in Seq(Jobs) /\ tasks # <<>> /\ Unique(tasks)
    BY DEF RunTask, ServersInv, ServersTypeOK, QueuesUnique, Jobs
  <1>3. PICK j \in {"handle", "tune"}, p \in Posts : Head(tasks) = Job(j, p)
    BY <1>2, TailIn, JobOfPost
  <1>4. Job(j, p).job = j /\ Job(j, p).post = p
    BY DEF Job
  <1>5. /\ tasks' = Tail(tasks) /\ Cardinality(busy) + held < PoolSize
        /\ UNCHANGED <<life, acceptor, thread, backlog, at, held, tunerQueue, dropped, tuned>>
    BY DEF RunTask
  <1>6. /\ tasks' \in Seq(Jobs) /\ In(Job(j, p), tasks) /\ Unique(tasks')
        /\ ~In(Job(j, p), tasks') /\ \A x : In(x, tasks') => In(x, tasks)
    BY <1>2, <1>3, <1>5, TailIn
  <1>7. QueuesUnique' /\ ListeningIsStarted' /\ LifeGoesOn
    BY <1>5, <1>6 DEF ServersInv, QueuesUnique, ListeningIsStarted, LifeGoesOn, Running
  <1>8. Job(j, p) \in Jobs /\ Job(j, p) \notin busy
    BY <1>1, <1>6, JobOfPost DEF PostPlace
  <1>9. CASE busy' = busy \cup {Job(j, p)} /\ UNCHANGED <<conn, program>>
    <2>1. IsFiniteSet(busy') /\ Cardinality(busy') = Cardinality(busy) + 1 /\ Cardinality(busy) \in Nat
      BY <1>8, <1>9, FS_AddElement, FS_CardinalityType DEF ServersInv
    <2>2. Cardinality(busy') + held' <= PoolSize
      <3>1. held \in Nat /\ held' = held
        BY <1>1, <1>5, ServersAssumption DEF ServersTypeOK
      <3> QED BY <1>5, <2>1, <3>1, ThreadPoolAssumption
    <2>3. busy' \subseteq Jobs
      BY <1>1, <1>8, <1>9 DEF ServersTypeOK, Jobs
    <2>4. ServersTypeOK'
      BY <1>1, <1>5, <1>6, <1>9, <2>2, <2>3 DEF ServersTypeOK, Jobs
    <2>5. ASSUME NEW q \in Posts PROVE PostPlace(q)' /\ PostReply(q)'
      <3>1. PostPlace(q)
        BY <1>1
      <3>2. ASSUME NEW k
            PROVE  /\ In(Job(k, q), tasks') \/ Job(k, q) \in busy' =>
                        In(Job(k, q), tasks) \/ Job(k, q) \in busy
                   /\ Job(k, q) \in busy' /\ Job(k, q) \notin busy => ~In(Job(k, q), tasks')
        BY <1>6, <1>9
      <3>3. /\ Handled(q)' => Handled(q)
            /\ Tuning(q)' => Tuning(q)
        BY <3>2 DEF Handled, Tuning
      <3>4. ASSUME NEW k \in {"handle", "tune"}
            PROVE  Job(k, q) \in busy' => ~In(Job(k, q), tasks')
        BY <1>6, <3>1, <3>2 DEF PostPlace
      <3>5. PostPlace(q)'
        BY <1>5, <1>9, <3>1, <3>3, <3>4 DEF PostPlace
      <3>6. PostReply(q)'
        BY <1>5, <1>7, <1>9, ReplyIsKept
      <3> QED BY <3>5, <3>6
    <2> QED BY <1>7, <2>1, <2>4, <2>5 DEF ServersInv
  <1>10. CASE /\ j = "handle" /\ life[at[p]] \in {"stopping", "joining"}
              /\ conn' = [conn EXCEPT ![p] = "closed"] /\ UNCHANGED <<busy, program>>
    <2>1. /\ conn' \in [Posts -> {"none", "waiting", "accepted", "answered", "closed", "reset"}]
          /\ conn'[p] = "closed" /\ \A q \in Posts : q # p => conn'[q] = conn[q]
      BY <1>1, <1>10 DEF ServersTypeOK
    <2>2. ServersTypeOK' /\ IsFiniteSet(busy')
      BY <1>1, <1>5, <1>6, <1>10, <2>1 DEF ServersInv, ServersTypeOK, Jobs
    <2>3. conn[p] = "accepted"
      BY <1>1, <1>6, <1>10 DEF PostPlace, Handled
    <2>4. ~Handled(p)'
      BY <1>6, <1>8, <1>10 DEF Handled
    <2>5. ASSUME NEW q \in Posts PROVE PostPlace(q)' /\ PostReply(q)'
      <3>1. PostPlace(q)
        BY <1>1
      <3>2. /\ Handled(q)' => Handled(q)
            /\ Tuning(q)' => Tuning(q)
        BY <1>6, <1>10 DEF Handled, Tuning
      <3>3. ASSUME NEW k \in {"handle", "tune"}
            PROVE  Job(k, q) \in busy' => ~In(Job(k, q), tasks')
        BY <1>6, <1>10, <3>1 DEF PostPlace
      <3>4. CASE q = p
        <4>1. PostPlace(q)'
          BY <1>5, <1>10, <2>1, <2>3, <2>4, <3>1, <3>2, <3>3, <3>4 DEF PostPlace
        <4>2. PostReply(q)'
          BY <1>1, <1>5, <1>10, <2>1, <3>4 DEF PostReply, Running
        <4> QED BY <4>1, <4>2
      <3>5. CASE q # p
        <4>1. PostPlace(q)'
          BY <1>5, <1>10, <2>1, <3>1, <3>2, <3>3, <3>5 DEF PostPlace
        <4>2. PostReply(q)'
          BY <1>5, <1>7, <2>1, <3>5, ReplyIsKept
        <4> QED BY <4>1, <4>2
      <3> QED BY <3>4, <3>5
    <2> QED BY <1>7, <2>2, <2>5 DEF ServersInv
  <1>11. CASE program' \in {"misused", "terminated"} /\ UNCHANGED <<busy, conn>>
    <2>1. ServersTypeOK' /\ IsFiniteSet(busy')
      BY <1>1, <1>5, <1>6, <1>11 DEF ServersInv, ServersTypeOK, Jobs
    <2>2. ASSUME NEW q \in Posts PROVE PostPlace(q)' /\ PostReply(q)'
      <3>1. PostPlace(q)
        BY <1>1
      <3>2. /\ Handled(q)' => Handled(q)
            /\ Tuning(q)' => Tuning(q)
        BY <1>6, <1>11 DEF Handled, Tuning
      <3>3. ASSUME NEW k \in {"handle", "tune"}
            PROVE  Job(k, q) \in busy' => ~In(Job(k, q), tasks')
        BY <1>6, <1>11, <3>1 DEF PostPlace
      <3>4. PostPlace(q)'
        BY <1>5, <1>11, <3>1, <3>2, <3>3 DEF PostPlace
      <3>5. PostReply(q)'
        BY <1>5, <1>7, <1>11, ReplyIsKept
      <3> QED BY <3>4, <3>5
    <2> QED BY <1>7, <2>1, <2>2 DEF ServersInv
  <1>12. \/ busy' = busy \cup {Job(j, p)} /\ UNCHANGED <<conn, program>>
         \/ /\ j = "handle" /\ life[at[p]] \in {"stopping", "joining"}
            /\ conn' = [conn EXCEPT ![p] = "closed"] /\ UNCHANGED <<busy, program>>
         \/ program' \in {"misused", "terminated"} /\ UNCHANGED <<busy, conn>>
    BY <1>3, <1>4 DEF RunTask
  <1> QED BY <1>9, <1>10, <1>11, <1>12

(* A thread of the pool that is done with its task is free again.          *)
LEMMA FewerBusy ==
  ASSUME ServersInv, NEW t, busy' = busy \ {t}, held' = held
  PROVE  /\ busy' \subseteq Jobs /\ IsFiniteSet(busy')
         /\ held' \in 0..Hung /\ Cardinality(busy') + held' <= PoolSize
  <1>1. /\ busy' \subseteq busy /\ busy \subseteq Jobs /\ IsFiniteSet(busy)
        /\ held \in 0..Hung /\ Cardinality(busy) + held <= PoolSize
    BY DEF ServersInv, ServersTypeOK, Jobs
  <1>2. IsFiniteSet(busy') /\ Cardinality(busy') <= Cardinality(busy)
    BY <1>1, FS_Subset
  <1>3. Cardinality(busy) \in Nat /\ Cardinality(busy') \in Nat /\ held \in Nat
    BY <1>1, <1>2, FS_CardinalityType, ServersAssumption
  <1> QED BY <1>1, <1>2, <1>3, ThreadPoolAssumption

(* A server closes the connection of a post whose target it does not know, *)
(* or that cannot be read or parsed.                                       *)
LEMMA StepRefuseOrFail ==
  ASSUME ServersInv, NEW p \in Posts, Refuse(p) \/ Fail(p)
  PROVE  ServersInv'
  <1>1. ServersTypeOK /\ \A q \in Posts : PostPlace(q) /\ PostReply(q)
    BY DEF ServersInv
  <1>2. /\ Job("handle", p) \in busy /\ (at[p] # Target(p) \/ p \in Faulty)
        /\ conn' = [conn EXCEPT ![p] = "closed"] /\ busy' = busy \ {Job("handle", p)}
        /\ UNCHANGED <<life, acceptor, thread, backlog, at, tasks, held, tunerQueue, dropped, tuned,
                       program>>
    BY DEF Refuse, Fail, Read, Knows
  <1>3. /\ conn' \in [Posts -> {"none", "waiting", "accepted", "answered", "closed", "reset"}]
        /\ conn'[p] = "closed" /\ \A q \in Posts : q # p => conn'[q] = conn[q]
    BY <1>1, <1>2 DEF ServersTypeOK
  <1>4. ServersTypeOK' /\ IsFiniteSet(busy')
    BY <1>1, <1>2, <1>3, FewerBusy DEF ServersTypeOK, Jobs
  <1>5. QueuesUnique' /\ ListeningIsStarted' /\ LifeGoesOn
    BY <1>2 DEF ServersInv, QueuesUnique, ListeningIsStarted, LifeGoesOn, Running
  <1>6. conn[p] = "accepted" /\ ~Handled(p)'
    BY <1>1, <1>2 DEF PostPlace, Handled
  <1>7. ASSUME NEW q \in Posts PROVE PostPlace(q)' /\ PostReply(q)'
    <2>1. PostPlace(q)
      BY <1>1
    <2>2. /\ Handled(q)' => Handled(q)
          /\ Tuning(q)' => Tuning(q)
      BY <1>2 DEF Handled, Tuning
    <2>3. ASSUME NEW k \in {"handle", "tune"}
          PROVE  Job(k, q) \in busy' => ~In(Job(k, q), tasks')
      BY <1>2, <2>1 DEF PostPlace
    <2>4. CASE q = p
      <3>1. PostPlace(q)'
        BY <1>2, <1>3, <1>6, <2>1, <2>2, <2>3, <2>4 DEF PostPlace
      <3>2. PostReply(q)'
        BY <1>1, <1>2, <1>3, <1>6, <2>4 DEF PostReply, Target
      <3> QED BY <3>1, <3>2
    <2>5. CASE q # p
      <3>1. PostPlace(q)'
        BY <1>2, <1>3, <2>1, <2>2, <2>3, <2>5 DEF PostPlace
      <3>2. PostReply(q)'
        BY <1>2, <1>3, <1>5, <2>5, ReplyIsKept
      <3> QED BY <3>1, <3>2
    <2> QED BY <2>4, <2>5
  <1> QED BY <1>4, <1>5, <1>7 DEF ServersInv

(* A server pushes the post it has read, if there is room, and answers.    *)
LEMMA StepReceive ==
  ASSUME ServersInv, NEW p \in Posts, Receive(p)
  PROVE  ServersInv'
  <1>1. ServersTypeOK /\ \A q \in Posts : PostPlace(q) /\ PostReply(q)
    BY DEF ServersInv
  <1>2. /\ Job("handle", p) \in busy /\ at[p] = Target(p) /\ busy' = busy \ {Job("handle", p)}
        /\ UNCHANGED <<life, acceptor, thread, backlog, at, tasks, held, tuned>>
    BY DEF Receive, Read, Knows
  <1>3. /\ busy' \subseteq Jobs /\ IsFiniteSet(busy')
        /\ held' \in 0..Hung /\ Cardinality(busy') + held' <= PoolSize
    BY <1>2, FewerBusy
  <1>4. LifeGoesOn /\ ListeningIsStarted'
    BY <1>2 DEF ServersInv, ListeningIsStarted, LifeGoesOn, Running
  <1>5. conn[p] = "accepted" /\ ~Handled(p)'
    BY <1>1, <1>2 DEF PostPlace, Handled
  <1>6. ASSUME NEW q \in Posts
        PROVE  /\ Handled(q)' => Handled(q)
               /\ Tuning(q)' => Tuning(q)
    BY <1>2 DEF Handled, Tuning
  <1>7. ASSUME NEW q \in Posts, NEW k \in {"handle", "tune"}
        PROVE  Job(k, q) \in busy' => ~In(Job(k, q), tasks')
    BY <1>1, <1>2 DEF PostPlace
  <1>8. CASE program' \in {"misused", "terminated"} /\ UNCHANGED <<tunerQueue, dropped, conn>>
    <2>1. ServersTypeOK' /\ QueuesUnique'
      BY <1>1, <1>2, <1>3, <1>8 DEF ServersInv, ServersTypeOK, Jobs, QueuesUnique
    <2>2. ASSUME NEW q \in Posts PROVE PostPlace(q)' /\ PostReply(q)'
      <3>1. PostPlace(q)
        BY <1>1
      <3>2. PostPlace(q)'
        BY <1>2, <1>6, <1>7, <1>8, <3>1 DEF PostPlace
      <3>3. PostReply(q)'
        BY <1>2, <1>4, <1>8, ReplyIsKept
      <3> QED BY <3>2, <3>3
    <2> QED BY <1>3, <1>4, <2>1, <2>2 DEF ServersInv
  <1>9. ASSUME NEW c \in {"answered", "closed"}, c = "closed" => p \in Faulty,
               Push(p), conn' = [conn EXCEPT ![p] = c], UNCHANGED program
        PROVE  ServersInv'
    <2>1. /\ conn' \in [Posts -> {"none", "waiting", "accepted", "answered", "closed", "reset"}]
          /\ conn'[p] = c /\ \A q \in Posts : q # p => conn'[q] = conn[q]
      BY <1>1, <1>9 DEF ServersTypeOK
    <2>2. tunerQueue \in Seq(ForTuning) /\ Unique(tunerQueue) /\ Len(tunerQueue) <= QueueCap
          /\ dropped \subseteq ForTuning
      BY <1>1 DEF ServersTypeOK, ServersInv, QueuesUnique
    <2>3. ~In(p, tunerQueue) /\ ~Tuning(p) /\ ~In(p, tuned) /\ p \notin dropped
      BY <1>1, <1>5 DEF PostPlace
    <2>4. /\ tunerQueue' \in Seq(ForTuning) /\ Unique(tunerQueue') /\ Len(tunerQueue') <= QueueCap
          /\ dropped' \subseteq ForTuning
          /\ \A x : In(x, tunerQueue') => In(x, tunerQueue) \/ (x = p /\ p \in ForTuning)
          /\ \A x : x \in dropped' => x \in dropped \/ (x = p /\ p \in ForTuning)
          /\ ~(In(p, tunerQueue') /\ p \in dropped')
      <3>1. CASE p \in ForTuning /\ Len(tunerQueue) < QueueCap
        <4>1. tunerQueue' = Append(tunerQueue, p) /\ dropped' = dropped
          BY <1>9, <3>1 DEF Push
        <4>2. Len(tunerQueue') = Len(tunerQueue) + 1 /\ Len(tunerQueue) \in Nat
          BY <2>2, <3>1, <4>1
        <4>3. Len(tunerQueue') <= QueueCap
          BY <3>1, <4>2, ServersAssumption
        <4>4. /\ tunerQueue' \in Seq(ForTuning) /\ Unique(tunerQueue')
              /\ \A x : In(x, tunerQueue') <=> In(x, tunerQueue) \/ x = p
          BY <2>2, <2>3, <3>1, <4>1, AppendIn
        <4> QED BY <2>2, <2>3, <3>1, <4>1, <4>3, <4>4
      <3>2. CASE p \in ForTuning /\ ~(Len(tunerQueue) < QueueCap)
        <4>1. tunerQueue' = tunerQueue /\ dropped' = dropped \cup {p}
          BY <1>9, <3>2 DEF Push
        <4> QED BY <2>2, <2>3, <3>2, <4>1
      <3>3. CASE p \notin ForTuning
        <4>1. tunerQueue' = tunerQueue /\ dropped' = dropped
          BY <1>9, <3>3 DEF Push
        <4>2. /\ \A x : In(x, tunerQueue') => In(x, tunerQueue)
              /\ \A x : x \in dropped' => x \in dropped
          BY <4>1
        <4> QED BY <2>2, <2>3, <4>1, <4>2
      <3> QED BY <3>1, <3>2, <3>3
    <2>5. ServersTypeOK' /\ QueuesUnique'
      BY <1>1, <1>2, <1>3, <1>9, <2>1, <2>4 DEF ServersTypeOK, Jobs, ServersInv, QueuesUnique
    <2>6. ASSUME NEW q \in Posts PROVE PostPlace(q)' /\ PostReply(q)'
      <3>1. PostPlace(q)
        BY <1>1
      <3>2. CASE q = p
        <4>1. \A s \in ServerNames : ~In(q, backlog'[s])
          BY <1>2, <1>5, <3>1, <3>2 DEF PostPlace
        <4>2. ~Tuning(q)' /\ ~In(q, tuned')
          BY <1>2, <1>6, <2>3, <3>2
        <4>3. In(q, tunerQueue') \/ q \in dropped' => q \in ForTuning
          BY <2>3, <2>4, <3>2
        <4>4. PostPlace(q)'
          BY <1>5, <1>7, <2>1, <2>4, <3>2, <4>1, <4>2, <4>3 DEF PostPlace
        <4>5. PostReply(q)'
          <5>1. conn[q] # "none" /\ conn'[q] \in {"answered", "closed"} /\ conn'[q] # "reset"
            BY <1>5, <2>1, <3>2
          <5>2. conn'[q] = "closed" => q \in Faulty
            BY <1>9, <2>1, <3>2
          <5> QED BY <1>1, <1>2, <3>2, <5>1, <5>2 DEF PostReply, Target
        <4> QED BY <4>4, <4>5
      <3>3. CASE q # p
        <4>1. PostPlace(q)'
          BY <1>2, <1>6, <1>7, <2>1, <2>4, <3>1, <3>3 DEF PostPlace
        <4>2. PostReply(q)'
          BY <1>2, <1>4, <2>1, <3>3, ReplyIsKept
        <4> QED BY <4>1, <4>2
      <3> QED BY <3>2, <3>3
    <2> QED BY <1>3, <1>4, <2>5, <2>6 DEF ServersInv
  <1>10. CASE Push(p) /\ conn' = [conn EXCEPT ![p] = "answered"] /\ UNCHANGED program
    BY <1>9, <1>10
  <1>11. CASE /\ p \in Faulty /\ Push(p)
              /\ conn' = [conn EXCEPT ![p] = "closed"] /\ UNCHANGED program
    BY <1>9, <1>11
  <1> QED BY <1>8, <1>10, <1>11 DEF Receive

(* The oldest request in the tuning manager's queue becomes a task.        *)
LEMMA StepProcessQueue ==
  ASSUME ServersInv, ProcessQueue
  PROVE  ServersInv'
  <1>1. ServersTypeOK /\ \A q \in Posts : PostPlace(q) /\ PostReply(q)
    BY DEF ServersInv
  <1>2. tunerQueue \in Seq(ForTuning) /\ tunerQueue # <<>> /\ Unique(tunerQueue)
    BY DEF ProcessQueue, ServersInv, ServersTypeOK, QueuesUnique
  <1>3. PICK p \in ForTuning : p = Head(tunerQueue)
    BY <1>2, TailIn
  <1>4. p \in Posts
    BY ServersAssumption
  <1>5. /\ tunerQueue' = Tail(tunerQueue)
        /\ UNCHANGED <<life, acceptor, thread, backlog, conn, at, busy, held, dropped, tuned>>
        /\ \/ tasks' = Append(tasks, Job("tune", p)) /\ UNCHANGED program
           \/ UNCHANGED tasks /\ program' = "terminated"
    BY <1>3 DEF ProcessQueue
  <1>6. /\ tunerQueue' \in Seq(ForTuning) /\ Unique(tunerQueue') /\ In(p, tunerQueue)
        /\ ~In(p, tunerQueue') /\ \A x : In(x, tunerQueue') => In(x, tunerQueue)
    BY <1>2, <1>3, <1>5, TailIn
  <1>7. ~Tuning(p) /\ ~In(p, tuned) /\ p \notin dropped /\ conn[p] \in {"answered", "closed"}
    BY <1>1, <1>4, <1>6 DEF PostPlace
  <1>8. tasks \in Seq(Jobs) /\ Job("tune", p) \in Jobs /\ Unique(tasks)
    BY <1>1, <1>4, JobOfPost DEF ServersTypeOK, Jobs, ServersInv, QueuesUnique
  <1>9. /\ tasks' \in Seq(Jobs) /\ Unique(tasks')
        /\ \A x : In(x, tasks') => In(x, tasks) \/ x = Job("tune", p)
    <2>1. CASE tasks' = Append(tasks, Job("tune", p))
      <3>1. ~In(Job("tune", p), tasks)
        BY <1>7 DEF Tuning
      <3> QED BY <1>8, <2>1, <3>1, AppendIn
    <2>2. CASE tasks' = tasks
      BY <1>8, <2>2
    <2> QED BY <1>5, <2>1, <2>2
  <1>10. Len(tunerQueue') <= QueueCap
    <2>1. Len(tunerQueue') = Len(tunerQueue) - 1 /\ Len(tunerQueue) \in Nat
      BY <1>2, <1>5
    <2>2. Len(tunerQueue) <= QueueCap
      BY <1>1 DEF ServersTypeOK
    <2> QED BY <2>1, <2>2, ServersAssumption
  <1>11. ServersTypeOK' /\ QueuesUnique'
    BY <1>1, <1>5, <1>6, <1>9, <1>10 DEF ServersTypeOK, Jobs, ServersInv, QueuesUnique
  <1>12. LifeGoesOn /\ ListeningIsStarted'
    BY <1>5 DEF ServersInv, ListeningIsStarted, LifeGoesOn, Running
  <1>13. ASSUME NEW q \in Posts PROVE PostPlace(q)' /\ PostReply(q)'
    <2>1. PostPlace(q)
      BY <1>1
    <2>2. /\ In(Job("handle", q), tasks') => In(Job("handle", q), tasks)
          /\ In(Job("tune", q), tasks') => In(Job("tune", q), tasks) \/ q = p
      BY <1>9, JobsDiffer
    <2>3. ASSUME NEW k \in {"handle", "tune"}
          PROVE  Job(k, q) \in busy' => ~In(Job(k, q), tasks')
      <3>1. Job(k, q) \in busy => ~In(Job(k, q), tasks) /\ Job(k, q) # Job("tune", p)
        BY <1>7, <2>1 DEF PostPlace, Tuning
      <3> QED BY <1>5, <1>9, <3>1
    <2>4. /\ Handled(q)' => Handled(q)
          /\ Tuning(q)' => Tuning(q) \/ q = p
      BY <1>5, <2>2 DEF Handled, Tuning
    <2>6. PostPlace(q)'
      <3>1. CASE q = p
        <4>1. ~In(q, tunerQueue') /\ ~In(q, tuned') /\ q \notin dropped'
             /\ conn'[q] \in {"answered", "closed"}
          BY <1>5, <1>6, <1>7, <3>1
        <4> QED BY <1>3, <1>5, <2>1, <2>3, <2>4, <3>1, <4>1 DEF PostPlace
      <3>2. CASE q # p
        BY <1>5, <1>6, <2>1, <2>3, <2>4, <3>2 DEF PostPlace
      <3> QED BY <3>1, <3>2
    <2>5. PostReply(q)'
      BY <1>5, <1>12, ReplyIsKept
    <2> QED BY <2>5, <2>6
  <1> QED BY <1>5, <1>11, <1>12, <1>13 DEF ServersInv

(* The tuner is given a post it has not had before.                        *)
LEMMA StepProcessData ==
  ASSUME ServersInv, NEW p \in Posts, ProcessData(p)
  PROVE  ServersInv'
  <1>1. ServersTypeOK /\ \A q \in Posts : PostPlace(q) /\ PostReply(q)
    BY DEF ServersInv
  <1>2. /\ Job("tune", p) \in busy /\ busy' = busy \ {Job("tune", p)}
        /\ UNCHANGED <<life, acceptor, thread, backlog, conn, at, tasks, held, tunerQueue, dropped>>
    BY DEF ProcessData
  <1>3. /\ busy' \subseteq Jobs /\ IsFiniteSet(busy')
        /\ held' \in 0..Hung /\ Cardinality(busy') + held' <= PoolSize
    BY <1>2, FewerBusy
  <1>4. LifeGoesOn /\ ListeningIsStarted'
    BY <1>2 DEF ServersInv, ListeningIsStarted, LifeGoesOn, Running
  <1>5. /\ p \in ForTuning /\ ~In(p, tuned) /\ ~In(p, tunerQueue) /\ p \notin dropped
        /\ ~Tuning(p)'
    BY <1>1, <1>2 DEF PostPlace, Tuning
  <1>6. conn[p] \in {"answered", "closed"}
    BY <1>1, <1>2 DEF PostPlace, Tuning
  <1>7. tuned \in Seq(ForTuning) /\ Unique(tuned)
        /\ program \in {"runs", "misused", "terminated"}
    BY <1>1 DEF ServersTypeOK, ServersInv, QueuesUnique
  <1>8. /\ tuned' \in Seq(ForTuning) /\ Unique(tuned')
        /\ program' \in {"runs", "misused", "terminated"}
        /\ \A x : In(x, tuned') => In(x, tuned) \/ x = p
    <2>1. CASE program' \in {"misused", "terminated"} /\ tuned' = tuned
      BY <1>7, <2>1
    <2>2. CASE tuned' = Append(tuned, p) /\ program' = program
      BY <1>5, <1>7, <2>2, AppendIn
    <2> QED BY <2>1, <2>2 DEF ProcessData
  <1>9. ServersTypeOK' /\ QueuesUnique'
    BY <1>1, <1>2, <1>3, <1>8 DEF ServersTypeOK, Jobs, ServersInv, QueuesUnique
  <1>10. ASSUME NEW q \in Posts PROVE PostPlace(q)' /\ PostReply(q)'
    <2>1. PostPlace(q)
      BY <1>1
    <2>2. /\ Handled(q)' => Handled(q)
          /\ Tuning(q)' => Tuning(q)
      BY <1>2 DEF Handled, Tuning
    <2>3. ASSUME NEW k \in {"handle", "tune"}
          PROVE  Job(k, q) \in busy' => ~In(Job(k, q), tasks')
      BY <1>2, <2>1 DEF PostPlace
    <2>4. ASSUME q = p PROVE PostPlace(q)'
      <3>1. ~In(q, tunerQueue') /\ ~Tuning(q)' /\ q \notin dropped'
           /\ conn'[q] \in {"answered", "closed"}
        BY <1>2, <1>5, <1>6, <2>4
      <3> QED BY <1>2, <1>5, <2>1, <2>2, <2>3, <2>4, <3>1 DEF PostPlace
    <2>5. ASSUME q # p PROVE PostPlace(q)'
      <3>1. In(q, tuned') => In(q, tuned)
        BY <1>8, <2>5
      <3> QED BY <1>2, <2>1, <2>2, <2>3, <3>1 DEF PostPlace
    <2>6. PostReply(q)'
      BY <1>2, <1>4, ReplyIsKept
    <2> QED BY <2>4, <2>5, <2>6
  <1> QED BY <1>3, <1>4, <1>9, <1>10 DEF ServersInv

LEMMA ServersInvNext == ServersInv /\ [ServersNext]_serversVars => ServersInv'
  <1> SUFFICES ASSUME ServersInv, [ServersNext]_serversVars
               PROVE  ServersInv'
    OBVIOUS
  <1>1. CASE UNCHANGED serversVars
    <2>1. UNCHANGED <<life, acceptor, thread, backlog, conn, at, tasks, busy, held, tunerQueue,
                      dropped, tuned, program>>
      BY <1>1 DEF serversVars
    <2>2. LifeGoesOn /\ ListeningIsStarted'
      BY <2>1 DEF ServersInv, ListeningIsStarted, LifeGoesOn, Running
    <2> QED BY <2>1, <2>2, StepServersQuiet DEF ServersInv, ServersTypeOK
  <1>2. ASSUME NEW s \in ServerNames, Server(s) PROVE ServersInv'
    BY <1>2, StepLifeAndAccept, StepAcceptPost, StepCloseAcceptor DEF Server, Accept
  <1>3. ASSUME NEW p \in Posts, Connect(p) \/ HandleRequest(p) \/ ProcessData(p) PROVE ServersInv'
    BY <1>3, StepConnect, StepRefuseOrFail, StepReceive, StepProcessData DEF HandleRequest
  <1> QED BY <1>1, <1>2, <1>3, StepRunTask, StepHoldThreads, StepProcessQueue DEF ServersNext

-----------------------------------------------------------------------------
(* No pool runs more tasks than it has threads, no queue holds more posts  *)
(* than it may, and only what is meant for tuning is queued for the tuner. *)
THEOREM ServersTypes == ServersSpec => []ServersTypeOK
  <1>1. ServersInv => ServersTypeOK
    BY DEF ServersInv
  <1> QED BY <1>1, ServersInvInit, ServersInvNext, PTL DEF ServersSpec

(* A sequence that repeats nothing is as long as the set of its elements.  *)
LEMMA UniqueLength ==
  ASSUME NEW S, NEW q \in Seq(S), Unique(q)
  PROVE  Cardinality({q[i] : i \in DOMAIN q}) = Len(q)
  <1> DEFINE E == {q[i] : i \in DOMAIN q}
  <1>1. Len(q) \in Nat /\ DOMAIN q = 1..Len(q) /\ q = [n \in 1..Len(q) |-> q[n]]
    OBVIOUS
  <1>2. q \in [1..Len(q) -> E]
    BY <1>1
  <1>3. \A m, n \in 1..Len(q) : q[m] = q[n] => m = n
    BY DEF Unique
  <1>4. \A e \in E : \E n \in 1..Len(q) : q[n] = e
    BY <1>1
  <1>5. q \in Bijection(1..Len(q), E)
    BY <1>2, <1>3, <1>4 DEF Bijection, Injection, Surjection, IsInjective
  <1> HIDE DEF E
  <1>6. Cardinality(E) = Len(q)
    BY <1>1, <1>5, FS_CountingElements DEF ExistsBijection
  <1> QED BY <1>6 DEF E

(* Whatever the clients post, to either server and while either is being   *)
(* stopped, a post is answered by the server it is meant for only; one     *)
(* without a reply is one that cannot be read or parsed, or reached the    *)
(* other server or one that was being stopped; and the tuner is given a    *)
(* post once at most, and not if it found the queue full.                  *)
THEOREM RepliesAreTrueHolds == ServersSpec => []RepliesAreTrue
  <1>1. ASSUME ServersInv PROVE RepliesAreTrue
    <2>1. \A p \in Posts : PostReply(p)
      BY <1>1 DEF ServersInv
    <2>2. tuned \in Seq(ForTuning) /\ Unique(tuned)
      BY <1>1 DEF ServersInv, ServersTypeOK, QueuesUnique
    <2>3. Cardinality(TunedPosts) = Len(tuned)
      BY <2>2, UniqueLength DEF TunedPosts
    <2>4. ASSUME NEW p \in TunedPosts PROVE p \notin dropped
      <3>1. In(p, tuned) /\ p \in Posts
        BY <2>2, ServersAssumption DEF TunedPosts, In
      <3> QED BY <1>1, <3>1 DEF ServersInv, PostPlace
    <2>5. TunedPosts \cap dropped = {}
      BY <2>4
    <2> QED BY <2>1, <2>3, <2>5 DEF RepliesAreTrue, PostReply
  <1> QED BY <1>1, ServersInvInit, ServersInvNext, PTL DEF ServersSpec

-----------------------------------------------------------------------------
(* What keeps a post in its place: nothing is taken away from it.          *)
LEMMA PostStays ==
  ASSUME ServersInv, NEW p \in Posts, PostKept(p), conn'[p] = conn[p], at'[p] = at[p],
         In(p, backlog[at[p]]) => In(p, backlog'[at[p]]),
         acceptor[at[p]] # "closed" => acceptor'[at[p]] # "closed",
         Handled(p) => Handled(p)' \/ program' # "runs",
         \/ ~(In(p, tunerQueue) \/ Tuning(p) \/ In(p, tuned) \/ p \in dropped)
         \/ In(p, tunerQueue') \/ Tuning(p)' \/ In(p, tuned') \/ p \in dropped'
         \/ program' # "runs",
         program # "runs" => program' # "runs"
  PROVE  PostKept(p)'
  BY DEF PostKept

LEMMA KeptConnect ==
  ASSUME ServersInv, PostsAreKept, NEW p \in Posts, Connect(p)
  PROVE  PostsAreKept'
  <1>1. PICK s \in ServerNames : /\ acceptor[s] = "listening" /\ at' = [at EXCEPT ![p] = s]
                                 /\ backlog' = [backlog EXCEPT ![s] = Append(@, p)]
    BY DEF Connect
  <1>2. /\ conn' = [conn EXCEPT ![p] = "waiting"]
        /\ UNCHANGED <<life, acceptor, thread, tasks, busy, held, tunerQueue, dropped, tuned,
                       program>>
    BY DEF Connect
  <1>3. ServersTypeOK
    BY DEF ServersInv
  <1>4. \A x : In(x, Append(backlog[s], p)) <=> In(x, backlog[s]) \/ x = p
    BY <1>3, AppendIn DEF ServersTypeOK
  <1>5. /\ backlog'[s] = Append(backlog[s], p)
        /\ \A r \in ServerNames : r # s => backlog'[r] = backlog[r]
        /\ at'[p] = s /\ conn'[p] = "waiting"
        /\ \A q \in Posts : q # p => at'[q] = at[q] /\ conn'[q] = conn[q]
    BY <1>1, <1>2, <1>3 DEF ServersTypeOK
  <1>6. ASSUME NEW q \in Posts, q # p PROVE PostKept(q)'
    <2>1. at[q] \in ServerNames /\ PostKept(q)
      BY <1>3 DEF ServersTypeOK, PostsAreKept
    <2>2. In(q, backlog[at[q]]) => In(q, backlog'[at[q]])
      BY <1>4, <1>5, <2>1
    <2>3. (Handled(q)' <=> Handled(q)) /\ (Tuning(q)' <=> Tuning(q))
      BY <1>2 DEF Handled, Tuning
    <2> QED BY <1>2, <1>5, <1>6, <2>1, <2>2, <2>3, PostStays
  <1>7. PostKept(p)'
    BY <1>1, <1>2, <1>4, <1>5 DEF PostKept
  <1> QED BY <1>6, <1>7 DEF PostsAreKept

LEMMA KeptAcceptPost ==
  ASSUME ServersInv, PostsAreKept, NEW s \in ServerNames, AcceptPost(s)
  PROVE  PostsAreKept'
  <1>1. ServersTypeOK /\ backlog[s] \in Seq(Posts) /\ backlog[s] # <<>>
    BY DEF AcceptPost, ServersInv, ServersTypeOK
  <1>2. PICK p \in Posts : p = Head(backlog[s])
    BY <1>1, TailIn
  <1>3. /\ conn' = [conn EXCEPT ![p] = "accepted"] /\ tasks' = Append(tasks, Job("handle", p))
        /\ backlog' = [backlog EXCEPT ![s] = Tail(@)]
        /\ UNCHANGED <<life, acceptor, at, busy, held, tunerQueue, dropped, tuned, program>>
    BY <1>2 DEF AcceptPost
  <1>4. \A x : In(x, backlog[s]) => x = p \/ In(x, Tail(backlog[s]))
    BY <1>1, <1>2, TailIn
  <1>5. \A x : In(x, tasks') <=> In(x, tasks) \/ x = Job("handle", p)
    <2>1. tasks \in Seq(Jobs) /\ Job("handle", p) \in Jobs
      BY <1>1, JobOfPost DEF ServersTypeOK, Jobs
    <2> QED BY <1>3, <2>1, AppendIn
  <1>6. /\ backlog'[s] = Tail(backlog[s])
        /\ \A r \in ServerNames : r # s => backlog'[r] = backlog[r]
        /\ conn'[p] = "accepted" /\ \A q \in Posts : q # p => conn'[q] = conn[q]
    BY <1>1, <1>3 DEF ServersTypeOK
  <1>7. ASSUME NEW q \in Posts, q # p PROVE PostKept(q)'
    <2>1. at[q] \in ServerNames /\ PostKept(q)
      BY <1>1 DEF ServersTypeOK, PostsAreKept
    <2>2. In(q, backlog[at[q]]) => In(q, backlog'[at[q]])
      BY <1>4, <1>6, <1>7, <2>1
    <2>3. (Handled(q) => Handled(q)') /\ (Tuning(q) => Tuning(q)')
      BY <1>3, <1>5 DEF Handled, Tuning
    <2> QED BY <1>3, <1>6, <1>7, <2>1, <2>2, <2>3, PostStays
  <1>8. PostKept(p)'
    BY <1>5, <1>6 DEF PostKept, Handled
  <1> QED BY <1>7, <1>8 DEF PostsAreKept

LEMMA KeptCloseAcceptor ==
  ASSUME ServersInv, PostsAreKept, NEW s \in ServerNames, CloseAcceptor(s)
  PROVE  PostsAreKept'
  <1>1. ServersTypeOK
    BY DEF ServersInv
  <1>2. \A q \in Posts : conn'[q] = IF In(q, backlog[s]) THEN "reset" ELSE conn[q]
    <2>1. DOMAIN backlog[s] = 1..Len(backlog[s])
      BY <1>1 DEF ServersTypeOK
    <2> QED BY <2>1 DEF CloseAcceptor, In
  <1>3. /\ \A r \in ServerNames : r # s => backlog'[r] = backlog[r] /\ acceptor'[r] = acceptor[r]
        /\ UNCHANGED <<at, tasks, busy, held, tunerQueue, dropped, tuned, program>>
    BY <1>1 DEF CloseAcceptor, ServersTypeOK
  <1>4. ASSUME NEW q \in Posts PROVE PostKept(q)'
    <2>1. at[q] \in ServerNames /\ PostKept(q)
      BY <1>1 DEF ServersTypeOK, PostsAreKept
    <2>2. (Handled(q) <=> Handled(q)') /\ (Tuning(q) <=> Tuning(q)')
      BY <1>3 DEF Handled, Tuning
    <2>3. CASE In(q, backlog[s])
      <3>1. conn'[q] = "reset"
        BY <1>2, <2>3
      <3> QED BY <3>1 DEF PostKept
    <2>4. CASE ~In(q, backlog[s])
      <3>1. conn'[q] = conn[q] /\ at'[q] = at[q]
        BY <1>2, <1>3, <2>4
      <3>2. CASE at[q] = s
        BY <1>3, <2>1, <2>2, <2>4, <3>1, <3>2 DEF PostKept
      <3>3. CASE at[q] # s
        BY <1>3, <2>1, <2>2, <3>1, <3>3 DEF PostKept
      <3> QED BY <3>2, <3>3
    <2> QED BY <2>3, <2>4
  <1> QED BY <1>4 DEF PostsAreKept

LEMMA KeptQuiet ==
  ASSUME ServersInv, PostsAreKept,
         UNCHANGED <<backlog, conn, at, tasks, busy, tunerQueue, dropped, tuned, program>>,
         \A p \in Posts : conn[p] = "waiting" => acceptor'[at[p]] # "closed"
  PROVE  PostsAreKept'
  BY DEF PostsAreKept, PostKept, Handled, Tuning

LEMMA KeptLifeAndAccept ==
  ASSUME ServersInv, PostsAreKept, NEW s \in ServerNames,
         Start(s) \/ AcceptError(s) \/ Stop(s) \/ JoinAccept(s)
  PROVE  PostsAreKept'
  <1>1. UNCHANGED <<backlog, conn, at, tasks, busy, held, tunerQueue, dropped, tuned, program>>
    BY DEF Start, AcceptError, Stop, JoinAccept
  <1>2. ASSUME NEW p \in Posts, conn[p] = "waiting" PROVE acceptor'[at[p]] # "closed"
    <2>1. at[p] \in ServerNames /\ acceptor[at[p]] # "closed" /\ life[at[p]] # "none"
          /\ acceptor \in [ServerNames -> {"closed", "listening", "deaf"}]
      BY <1>2 DEF ServersInv, ServersTypeOK, PostReply, PostsAreKept, PostKept
    <2>2. CASE Start(s)
      BY <2>1, <2>2 DEF Start
    <2>3. CASE AcceptError(s) \/ Stop(s) \/ JoinAccept(s)
      BY <2>1, <2>3 DEF AcceptError, Stop, JoinAccept
    <2> QED BY <2>2, <2>3
  <1> QED BY <1>1, <1>2, KeptQuiet

LEMMA KeptRunTask ==
  ASSUME ServersInv, PostsAreKept, RunTask
  PROVE  PostsAreKept'
  <1>1. ServersTypeOK /\ tasks \in Seq(Jobs) /\ tasks # <<>>
    BY DEF RunTask, ServersInv, ServersTypeOK, Jobs
  <1>2. PICK j \in {"handle", "tune"}, p \in Posts : Head(tasks) = Job(j, p)
    BY <1>1, TailIn, JobOfPost
  <1>3. Job(j, p).job = j /\ Job(j, p).post = p
    BY DEF Job
  <1>4. /\ tasks' = Tail(tasks)
        /\ UNCHANGED <<life, acceptor, thread, backlog, at, held, tunerQueue, dropped, tuned>>
    BY DEF RunTask
  <1>5. \A x : In(x, tasks) => x = Job(j, p) \/ In(x, tasks')
    BY <1>1, <1>2, <1>4, TailIn
  <1>6. ASSUME NEW q \in Posts PROVE at[q] \in ServerNames /\ PostKept(q)
    BY <1>1 DEF ServersTypeOK, PostsAreKept
  <1>7. CASE busy' = busy \cup {Job(j, p)} /\ UNCHANGED <<conn, program>>
    <2>1. ASSUME NEW q \in Posts PROVE PostKept(q)'
      <3>1. (Handled(q) => Handled(q)') /\ (Tuning(q) => Tuning(q)')
        BY <1>5, <1>7 DEF Handled, Tuning
      <3> QED BY <1>4, <1>6, <1>7, <3>1, PostStays
    <2> QED BY <2>1 DEF PostsAreKept
  <1>8. CASE /\ j = "handle" /\ conn' = [conn EXCEPT ![p] = "closed"] /\ UNCHANGED <<busy, program>>
    <2>1. ASSUME NEW q \in Posts, q # p PROVE PostKept(q)'
      <3>1. Job("handle", q) # Job(j, p) /\ Job("tune", q) # Job(j, p)
        BY <2>1, JobsDiffer
      <3>2. (Handled(q) => Handled(q)') /\ (Tuning(q) => Tuning(q)')
        BY <1>5, <1>8, <3>1 DEF Handled, Tuning
      <3>3. conn'[q] = conn[q]
        BY <1>1, <1>8, <2>1 DEF ServersTypeOK
      <3> QED BY <1>4, <1>6, <1>8, <3>2, <3>3, PostStays
    <2>2. conn'[p] = "closed"
      BY <1>1, <1>8 DEF ServersTypeOK
    <2>3. PostKept(p)'
      BY <2>2 DEF PostKept
    <2> QED BY <2>1, <2>3 DEF PostsAreKept
  <1>9. CASE program' \in {"misused", "terminated"} /\ UNCHANGED <<busy, conn>>
    BY <1>4, <1>6, <1>9 DEF PostsAreKept, PostKept
  <1>10. \/ busy' = busy \cup {Job(j, p)} /\ UNCHANGED <<conn, program>>
         \/ j = "handle" /\ conn' = [conn EXCEPT ![p] = "closed"] /\ UNCHANGED <<busy, program>>
         \/ program' \in {"misused", "terminated"} /\ UNCHANGED <<busy, conn>>
    BY <1>2, <1>3 DEF RunTask
  <1> QED BY <1>7, <1>8, <1>9, <1>10

LEMMA KeptHandleRequest ==
  ASSUME ServersInv, PostsAreKept, NEW p \in Posts, HandleRequest(p)
  PROVE  PostsAreKept'
  <1>1. ServersTypeOK
    BY DEF ServersInv
  <1>2. /\ busy' = busy \ {Job("handle", p)}
        /\ UNCHANGED <<life, acceptor, thread, backlog, at, tasks, held, tuned>>
    BY DEF HandleRequest, Refuse, Fail, Receive
  <1>3. ASSUME NEW q \in Posts PROVE at[q] \in ServerNames /\ PostKept(q)
    BY <1>1 DEF ServersTypeOK, PostsAreKept
  <1>4. ASSUME NEW q \in Posts
        PROVE  /\ q # p /\ Handled(q) => Handled(q)'
               /\ Tuning(q) => Tuning(q)'
    BY <1>2, JobsDiffer DEF Handled, Tuning
  <1>5. CASE program' \in {"misused", "terminated"} /\ UNCHANGED <<tunerQueue, dropped, conn>>
    BY <1>2, <1>3, <1>5 DEF PostsAreKept, PostKept
  <1>6. ASSUME NEW c \in {"answered", "closed"}, conn' = [conn EXCEPT ![p] = c], UNCHANGED program,
               Push(p) \/ (c = "closed" /\ UNCHANGED <<tunerQueue, dropped>>)
        PROVE  PostsAreKept'
    <2>1. conn'[p] = c /\ \A q \in Posts : q # p => conn'[q] = conn[q]
      BY <1>1, <1>6 DEF ServersTypeOK
    <2>2. tunerQueue \in Seq(ForTuning)
      BY <1>1 DEF ServersTypeOK
    <2>3. /\ \A x : In(x, tunerQueue) => In(x, tunerQueue')
          /\ dropped \subseteq dropped'
          /\ c = "answered" /\ p \in ForTuning => In(p, tunerQueue') \/ p \in dropped'
      <3>1. CASE tunerQueue' = Append(tunerQueue, p) /\ p \in ForTuning /\ UNCHANGED dropped
        BY <2>2, <3>1, AppendIn
      <3>2. CASE dropped' = dropped \cup {p} /\ UNCHANGED tunerQueue
        BY <3>2
      <3>3. CASE UNCHANGED <<tunerQueue, dropped>> /\ (c = "closed" \/ p \notin ForTuning)
        BY <3>3
      <3> QED BY <1>6, <3>1, <3>2, <3>3 DEF Push
    <2>4. ASSUME NEW q \in Posts, q # p PROVE PostKept(q)'
      BY <1>2, <1>3, <1>4, <1>6, <2>1, <2>3, <2>4, PostStays
    <2>5. PostKept(p)'
      BY <1>6, <2>1, <2>3 DEF PostKept
    <2> QED BY <2>4, <2>5 DEF PostsAreKept
  <1>7. CASE Refuse(p) \/ Fail(p)
    <2>1. conn' = [conn EXCEPT ![p] = "closed"] /\ UNCHANGED <<program, tunerQueue, dropped>>
      BY <1>7 DEF Refuse, Fail
    <2> QED BY <1>6, <2>1
  <1>8. CASE /\ Push(p) /\ UNCHANGED program
             /\ \/ conn' = [conn EXCEPT ![p] = "answered"]
                \/ conn' = [conn EXCEPT ![p] = "closed"]
    BY <1>6, <1>8
  <1> QED BY <1>5, <1>7, <1>8 DEF HandleRequest, Receive

LEMMA KeptProcessQueue ==
  ASSUME ServersInv, PostsAreKept, ProcessQueue
  PROVE  PostsAreKept'
  <1>1. /\ ServersTypeOK /\ tasks \in Seq(Jobs)
        /\ tunerQueue \in Seq(ForTuning) /\ tunerQueue # <<>>
    BY DEF ProcessQueue, ServersInv, ServersTypeOK, Jobs
  <1>2. PICK p \in ForTuning : p = Head(tunerQueue)
    BY <1>1, TailIn
  <1>3. /\ tunerQueue' = Tail(tunerQueue)
        /\ UNCHANGED <<life, acceptor, thread, backlog, conn, at, busy, held, dropped, tuned>>
        /\ \/ tasks' = Append(tasks, Job("tune", p)) /\ UNCHANGED program
           \/ UNCHANGED tasks /\ program' = "terminated"
    BY <1>2 DEF ProcessQueue
  <1>4. \A x : In(x, tunerQueue) => x = p \/ In(x, tunerQueue')
    BY <1>1, <1>2, <1>3, TailIn
  <1>5. \/ \A x : In(x, tasks') <=> In(x, tasks) \/ x = Job("tune", p)
        \/ UNCHANGED tasks /\ program' = "terminated"
    <2>1. Job("tune", p) \in Jobs
      BY JobOfPost, ServersAssumption
    <2>2. CASE tasks' = Append(tasks, Job("tune", p))
      BY <1>1, <2>1, <2>2, AppendIn
    <2> QED BY <1>3, <2>2
  <1>6. ASSUME NEW q \in Posts PROVE PostKept(q)'
    <2>1. at[q] \in ServerNames /\ PostKept(q)
      BY <1>1 DEF ServersTypeOK, PostsAreKept
    <2>2. /\ (Handled(q) => Handled(q)') /\ (Tuning(q) => Tuning(q)')
          /\ q = p => Tuning(q)' \/ program' # "runs"
      BY <1>3, <1>5 DEF Handled, Tuning
    <2> QED BY <1>3, <1>4, <2>1, <2>2, PostStays
  <1> QED BY <1>6 DEF PostsAreKept

LEMMA KeptProcessData ==
  ASSUME ServersInv, PostsAreKept, NEW p \in Posts, ProcessData(p)
  PROVE  PostsAreKept'
  <1>1. ServersTypeOK /\ tuned \in Seq(ForTuning)
    BY DEF ServersInv, ServersTypeOK
  <1>2. /\ Job("tune", p) \in busy /\ busy' = busy \ {Job("tune", p)}
        /\ UNCHANGED <<life, acceptor, thread, backlog, conn, at, tasks, held, tunerQueue, dropped>>
    BY DEF ProcessData
  <1>3. p \in ForTuning
    BY <1>2 DEF ServersInv, PostPlace, Tuning
  <1>4. ASSUME NEW q \in Posts PROVE at[q] \in ServerNames /\ PostKept(q)
    BY <1>1 DEF ServersTypeOK, PostsAreKept
  <1>5. CASE program' \in {"misused", "terminated"} /\ UNCHANGED tuned
    <2>1. ASSUME NEW q \in Posts PROVE PostKept(q)'
      BY <1>2, <1>4, <1>5 DEF PostKept
    <2> QED BY <2>1 DEF PostsAreKept
  <1>6. CASE tuned' = Append(tuned, p) /\ UNCHANGED program
    <2>1. \A x : In(x, tuned') <=> In(x, tuned) \/ x = p
      BY <1>1, <1>3, <1>6, AppendIn
    <2>2. ASSUME NEW q \in Posts PROVE PostKept(q)'
      <3>1. (Handled(q) => Handled(q)') /\ (q # p /\ Tuning(q) => Tuning(q)')
        BY <1>2, JobsDiffer DEF Handled, Tuning
      <3> QED BY <1>2, <1>4, <1>6, <2>1, <3>1, PostStays
    <2> QED BY <2>2 DEF PostsAreKept
  <1> QED BY <1>5, <1>6 DEF ProcessData

LEMMA KeptNext == ServersInv /\ PostsAreKept /\ [ServersNext]_serversVars => PostsAreKept'
  <1> SUFFICES ASSUME ServersInv, PostsAreKept, [ServersNext]_serversVars
               PROVE  PostsAreKept'
    OBVIOUS
  <1>1. CASE UNCHANGED serversVars
    BY <1>1, KeptQuiet DEF serversVars, PostsAreKept, PostKept
  <1>2. ASSUME NEW s \in ServerNames, Server(s) PROVE PostsAreKept'
    BY <1>2, KeptLifeAndAccept, KeptAcceptPost, KeptCloseAcceptor DEF Server, Accept
  <1>3. ASSUME NEW p \in Posts, Connect(p) \/ HandleRequest(p) \/ ProcessData(p) PROVE PostsAreKept'
    BY <1>3, KeptConnect, KeptHandleRequest, KeptProcessData
  <1>4. CASE HoldThreads
    BY <1>4, KeptQuiet DEF HoldThreads, PostsAreKept, PostKept
  <1> QED BY <1>1, <1>2, <1>3, <1>4, KeptRunTask, KeptProcessQueue DEF ServersNext

(* No post is lost on its way, whichever server is stopped when: one that  *)
(* has not ended is in its place, unless a task used what was destroyed or *)
(* an exception ended the program.                                         *)
THEOREM PostsAreKeptHolds == ServersSpec => []PostsAreKept
  <1>1. ServersInit => PostsAreKept
    BY DEF ServersInit, PostsAreKept, PostKept
  <1> QED BY <1>1, ServersInvInit, ServersInvNext, KeptNext, PTL DEF ServersSpec
=============================================================================
