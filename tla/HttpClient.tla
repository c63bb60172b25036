------------------------------ MODULE HttpClient ------------------------------
(***************************************************************************)
(* HttpClient: callers put requests on a ThreadSafeQueue, the processing   *)
(* thread moves them to the ThreadPool, a thread of the pool talks to the  *)
(* data server (synchronously, with no time limit) and makes the callback, *)
(* and the destructor stops the processing thread with a dummy request.    *)
(*                                                                         *)
(* The processing thread is a member declared before requestQueue_, so it  *)
(* may use the queue before it is constructed.                             *)
(***************************************************************************)
EXTENDS ThreadPool, Sequences

CONSTANTS
  Requests,  \* the requests sent, each with its own callback
  Hanging,   \* requests the data server accepts and never answers
  Throwing   \* requests whose callback throws on the content of an answer

Dummy == "dummy"

ASSUME HttpClientAssumption ==
  /\ Hanging \subseteq Requests /\ Throwing \subseteq Requests
  /\ Dummy \notin Requests

VARIABLES
  queue,   \* requestQueue_
  built,   \* requestQueue_ has been constructed
  broken,  \* the queue was used before: anything may happen to the thread
  running, \* running_
  worker,  \* where ProcessRequests is
  taken,   \* the request it has popped
  posted,  \* tasks waiting in the pool
  task,    \* where each request's task is
  calls,   \* the responses each callback was called with: TRUE for success
  owner,   \* the component whose member the client is
  sent     \* history: the requests sent

vars == <<queue, built, broken, running, worker, taken, posted, task, calls, owner, sent>>

Init ==
  /\ queue = <<>> /\ built = FALSE /\ broken = FALSE /\ running = TRUE
  /\ worker = "test" /\ taken = Dummy
  /\ posted = <<>>
  /\ task = [r \in Requests |-> "none"]
  /\ calls = [r \in Requests |-> <<>>]
  /\ owner = "constructing" /\ sent = {}

-----------------------------------------------------------------------------
ConstructQueue ==
  /\ ~built
  /\ built' = TRUE /\ owner' = "alive"
  /\ UNCHANGED <<queue, broken, running, worker, taken, posted, task, calls, sent>>

SendRequest(r) ==
  /\ owner = "alive" /\ r \notin sent
  /\ queue' = Append(queue, r)
  /\ sent' = sent \cup {r}
  /\ UNCHANGED <<built, broken, running, worker, taken, posted, task, calls, owner>>

-----------------------------------------------------------------------------
(* while (running_ || !requestQueue_.Empty())                              *)
TestWhileRunning ==
  /\ worker = "test"
  /\ worker' = IF running THEN "pop" ELSE "done"
  /\ UNCHANGED <<queue, built, broken, running, taken, posted, task, calls, owner, sent>>
Test ==
  /\ worker = "test"
  /\ worker' = IF running \/ queue # <<>> THEN "pop" ELSE "done"
  /\ UNCHANGED <<queue, built, broken, running, taken, posted, task, calls, owner, sent>>

(* Waiting on a queue that is not there yet: the thread may be lucky, or   *)
(* wait on a condition variable that is then constructed over.             *)
PopUnbuilt ==
  /\ worker = "pop" /\ ~built
  /\ worker' = "lost" /\ broken' = TRUE
  /\ UNCHANGED <<queue, built, running, taken, posted, task, calls, owner, sent>>

Pop ==
  /\ worker = "pop" /\ built /\ queue # <<>>
  /\ taken' = Head(queue) /\ queue' = Tail(queue)
  /\ worker' = "post"
  /\ UNCHANGED <<built, broken, running, posted, task, calls, owner, sent>>

Post ==
  /\ worker = "post"
  /\ posted' = IF taken = Dummy THEN posted ELSE Append(posted, taken)
  /\ worker' = "test" /\ taken' = Dummy
  /\ UNCHANGED <<queue, built, broken, running, task, calls, owner, sent>>

-----------------------------------------------------------------------------
Busy == {r \in Requests : task[r] \in {"exchange", "again"}}

StartTask ==
  /\ posted # <<>> /\ HasFreeThread(Busy)
  /\ task' = [task EXCEPT ![Head(posted)] = "exchange"]
  /\ posted' = Tail(posted)
  /\ UNCHANGED <<queue, built, broken, running, worker, taken, calls, owner, sent>>

(* An answer with status ok, an answer with another status, or an          *)
(* exception on the way: one callback each. A callback that throws on the  *)
(* answer's content is called once more, by the handler of exceptions.     *)
ExchangeRetrying(r, success) ==
  /\ task[r] = "exchange" /\ r \notin Hanging
  /\ calls' = [calls EXCEPT ![r] = Append(@, success)]
  /\ task' = [task EXCEPT ![r] = IF success /\ r \notin Throwing THEN "done" ELSE "again"]
  /\ UNCHANGED <<queue, built, broken, running, worker, taken, posted, owner, sent>>
Exchange(r, success) ==
  /\ task[r] = "exchange" /\ r \notin Hanging
  /\ calls' = [calls EXCEPT ![r] = Append(@, success)]
  /\ task' = [task EXCEPT ![r] = IF success /\ r \in Throwing THEN "again" ELSE "done"]
  /\ UNCHANGED <<queue, built, broken, running, worker, taken, posted, owner, sent>>

CallAgain(r) ==
  /\ task[r] = "again"
  /\ calls' = [calls EXCEPT ![r] = Append(@, FALSE)]
  /\ task' = [task EXCEPT ![r] = "done"]
  /\ UNCHANGED <<queue, built, broken, running, worker, taken, posted, owner, sent>>

-----------------------------------------------------------------------------
(* ~HttpClient: running_ is cleared, a dummy request wakes the thread.     *)
Destroy ==
  /\ owner = "alive"
  /\ running' = FALSE /\ owner' = "waking"
  /\ UNCHANGED <<queue, built, broken, worker, taken, posted, task, calls, sent>>

JoinAtOnce ==
  /\ owner = "waking"
  /\ owner' = "joining"
  /\ UNCHANGED <<queue, built, broken, running, worker, taken, posted, task, calls, sent>>
PushDummy ==
  /\ owner = "waking"
  /\ queue' = Append(queue, Dummy)
  /\ owner' = "joining"
  /\ UNCHANGED <<built, broken, running, worker, taken, posted, task, calls, sent>>

Join ==
  /\ owner = "joining" /\ worker = "done"
  /\ owner' = "gone"
  /\ UNCHANGED <<queue, built, broken, running, worker, taken, posted, task, calls, sent>>

Worker == Test \/ Pop \/ Post
Task(r) == CallAgain(r) \/ \E success \in BOOLEAN : Exchange(r, success)
Destructor == PushDummy \/ Join

Next ==
  \/ ConstructQueue \/ Worker \/ PopUnbuilt \/ StartTask \/ Destroy \/ Destructor
  \/ \E r \in Requests : SendRequest(r) \/ Task(r)

Spec == Init /\ [][Next]_vars

(* Every thread that can go on does; the pool starts its tasks in order;   *)
(* the data server answers or refuses what does not hang.                  *)
FairSpec ==
  /\ Spec
  /\ WF_vars(ConstructQueue) /\ WF_vars(Worker) /\ WF_vars(StartTask) /\ WF_vars(Destructor)
  /\ \A r \in Requests : WF_vars(Task(r))

-----------------------------------------------------------------------------
TypeOK ==
  /\ queue \in Seq(Requests \cup {Dummy})
  /\ {built, broken, running} \subseteq BOOLEAN
  /\ worker \in {"test", "pop", "lost", "post", "done"}
  /\ taken \in Requests \cup {Dummy}
  /\ posted \in Seq(Requests)
  /\ task \in [Requests -> {"none", "exchange", "again", "done"}]
  /\ calls \in [Requests -> Seq(BOOLEAN)]
  /\ owner \in {"constructing", "alive", "waking", "joining", "gone"}
  /\ sent \subseteq Requests
  /\ Cardinality(Busy) <= PoolSize

(* A callback is called once; only where it threw on an answer's content   *)
(* is it called a second time, and then with a failure.                    *)
OneCallUnlessItThrew ==
  \A r \in Requests :
    /\ Len(calls[r]) <= IF r \in Throwing THEN 2 ELSE 1
    /\ Len(calls[r]) = 2 => calls[r] = <<TRUE, FALSE>>

(* The destructor never waits for a thread that waits on an empty queue:   *)
(* the dummy is there, or the thread has passed it and will not wait       *)
(* again, however pushing it and the thread's test of running_ interleave. *)
(* DestructorReturns rests on it.                                          *)
JoinIsWoken == owner = "joining" /\ worker = "pop" => queue # <<>>

(* While fewer requests hang than the pool has threads, every other        *)
(* request gets its callback, even if its owner is destroyed first. Using  *)
(* the queue before its construction is the exception.                     *)
EveryRequestAnswered ==
  \A r \in Requests \ Hanging : r \in sent ~> (calls[r] # <<>> \/ broken)

(* The destructor comes back, however many requests hang in the pool.      *)
DestructorReturns == owner = "waking" ~> (owner = "gone" \/ broken)
=============================================================================
