------------------------------- MODULE ThreadPool -------------------------------
(***************************************************************************)
(* The ThreadPool all components share: so many threads, each with one     *)
(* task at a time, that take the enqueued tasks in order.  What the tasks  *)
(* do is in HttpClient and Servers.                                        *)
(***************************************************************************)
EXTENDS Naturals, FiniteSets, Sequences

CONSTANT PoolSize  \* threads of the ThreadPool, 8 in the code

ASSUME ThreadPoolAssumption == PoolSize \in Nat \ {0}

HasFreeThread(running) == Cardinality(running) < PoolSize

In(x, q) == \E i \in 1..Len(q) : q[i] = x  \* x waits in the queue q
=============================================================================
