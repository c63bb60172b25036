-------------------------------- MODULE Servers --------------------------------
(***************************************************************************)
(* The two HTTP servers of the library, ParameterDataAccessServer ("data") *)
(* and MLTuningManagerServer ("tuning"), from a client's post to its reply *)
(* and on to the tuner. Both accept on 127.0.0.1:5005. Accepted sockets    *)
(* are tasks of the one ThreadPool, which also runs the tuner; an owner    *)
(* that is destroyed stops its server but waits for none of these tasks.   *)
(*                                                                         *)
(* What becomes of a data post after it is queued is in ParameterSync; the *)
(* exchanges of HttpClient, one of which ends a tuner's work, are in that  *)
(* module: here they are threads of the pool that the servers have not.    *)
(***************************************************************************)
EXTENDS ThreadPool, Sequences

CONSTANTS
  Posts,     \* the clients' posts, a connection each
  ForTuning, \* those whose target is /receive-data; the others' is the data server's
  Silent,    \* those of clients that may connect and send nothing, or too little
  Faulty,    \* those that may go wrong: the connection breaks, the body is no JSON
             \*   or is one that the user's tuner throws on
  Hung,      \* threads HttpClient's exchanges may hold at one time
  QueueCap   \* capacity of the tuning manager's Messaging, 1024 in the code

ServerNames == {"data", "tuning"}

ASSUME ServersAssumption ==
  /\ ForTuning \subseteq Posts /\ Silent \subseteq Posts /\ Faulty \subseteq Posts
  /\ Hung \in Nat
  /\ QueueCap \in Nat \ {0}

VARIABLES
  life,       \* each server: "none", "up", "stopping", "joining", "gone"
  acceptor,   \* "listening"; "deaf" if it could not bind; "closed"
  thread,     \* where Accept is: "none", "accept", "done"
  backlog,    \* connections the system holds for the acceptor
  conn,       \* each post: "none", "waiting", "accepted", then "answered", "closed", "reset"
  at,         \* the server that got it
  tasks,      \* tasks waiting in the pool
  busy,       \* tasks in a thread of the pool
  held,       \* threads of the pool that HttpClient's exchanges are in
  tunerQueue, \* request_queue_ of the tuning manager's Messaging
  dropped,    \* history: posts pushed when it was full
  tuned,      \* history: the posts given to the tuner, in that order
  program     \* "runs"; "misused" when a task used a server or a tuner that is gone:
              \*   anything may follow; "terminated" by an exception no thread caught

serversVars ==
  <<life, acceptor, thread, backlog, conn, at, tasks, busy, held, tunerQueue, dropped, tuned,
    program>>

Target(p) == IF p \in ForTuning THEN "tuning" ELSE "data"
Job(job, p) == [job |-> job, post |-> p]

ServersInit ==
  /\ life = [s \in ServerNames |-> "none"]
  /\ acceptor = [s \in ServerNames |-> "closed"]
  /\ thread = [s \in ServerNames |-> "none"]
  /\ backlog = [s \in ServerNames |-> <<>>]
  /\ conn = [p \in Posts |-> "none"] /\ at = [p \in Posts |-> Target(p)]
  /\ tasks = <<>> /\ busy = {} /\ held = 0
  /\ tunerQueue = <<>> /\ dropped = {} /\ tuned = <<>> /\ program = "runs"

-----------------------------------------------------------------------------
(* Server's constructor and Start. The first server binds the port; the    *)
(* second, with reuse_address, shares it or, depending on the system, ends *)
(* its constructor early and is started all the same.                      *)
Start(s) ==
  /\ life[s] = "none" /\ (s = "tuning" => life["data"] = "up")
  /\ \E a \in {"listening", "deaf"} :
       /\ a = "deaf" => \E t \in ServerNames : acceptor[t] = "listening"
       /\ acceptor' = [acceptor EXCEPT ![s] = a]
  /\ life' = [life EXCEPT ![s] = "up"]
  /\ thread' = [thread EXCEPT ![s] = "accept"]
  /\ UNCHANGED <<backlog, conn, at, tasks, busy, held, tunerQueue, dropped, tuned, program>>

(* A client connects: where both servers listen, the system takes one.     *)
Connect(p) ==
  /\ conn[p] = "none"
  /\ \E s \in ServerNames :
       /\ acceptor[s] = "listening"
       /\ at' = [at EXCEPT ![p] = s]
       /\ backlog' = [backlog EXCEPT ![s] = Append(@, p)]
  /\ conn' = [conn EXCEPT ![p] = "waiting"]
  /\ UNCHANGED <<life, acceptor, thread, tasks, busy, held, tunerQueue, dropped, tuned, program>>

(* The accept loop, from one call of accept to the next, with the test of  *)
(* running_ between them. accept waits while there is no connection; on an *)
(* acceptor that is closed or never listened it fails, and while the       *)
(* server runs the failure is logged and accept is called again, at once.  *)
Running(s) == life[s] = "up"
NextAccept(s) == thread' = [thread EXCEPT ![s] = IF Running(s) THEN "accept" ELSE "done"]
AcceptPost(s) ==
  /\ thread[s] = "accept" /\ acceptor[s] = "listening" /\ backlog[s] # <<>>
  /\ conn' = [conn EXCEPT ![Head(backlog[s])] = "accepted"]
  /\ tasks' = Append(tasks, Job("handle", Head(backlog[s])))
  /\ backlog' = [backlog EXCEPT ![s] = Tail(@)]
  /\ NextAccept(s)
  /\ UNCHANGED <<life, acceptor, at, busy, held, tunerQueue, dropped, tuned, program>>

AcceptError(s) ==
  /\ thread[s] = "accept" /\ acceptor[s] # "listening"
  /\ NextAccept(s)
  /\ UNCHANGED <<life, acceptor, backlog, conn, at, tasks, busy, held, tunerQueue, dropped, tuned,
                 program>>

Accept(s) == AcceptPost(s) \/ AcceptError(s)

-----------------------------------------------------------------------------
(* An exchange of HttpClient takes a thread of the pool and has it until   *)
(* the Python server answers, without a time limit.                        *)
HoldThreads ==
  /\ \E n \in 0..Hung : n # held /\ Cardinality(busy) + n <= PoolSize /\ held' = n
  /\ UNCHANGED <<life, acceptor, thread, backlog, conn, at, tasks, busy, tunerQueue, dropped,
                 tuned, program>>

(* The pool starts its tasks in order. HandleRequest is virtual: in a      *)
(* server that is being destroyed it is the base class's, which drops the  *)
(* socket.                                                                 *)
RunTask ==
  /\ tasks # <<>> /\ Cardinality(busy) + held < PoolSize
  /\ tasks' = Tail(tasks)
  /\ LET t == Head(tasks) IN
       \/ /\ t.job = "tune"
          /\ busy' = busy \cup {t} /\ UNCHANGED <<conn, program>>
       \/ /\ t.job = "handle" /\ life[at[t.post]] = "up"
          /\ busy' = busy \cup {t} /\ UNCHANGED <<conn, program>>
       \/ /\ t.job = "handle" /\ life[at[t.post]] \in {"stopping", "joining"}
          /\ conn' = [conn EXCEPT ![t.post] = "closed"] /\ UNCHANGED <<busy, program>>
       \/ /\ t.job = "handle" /\ life[at[t.post]] = "gone"
          /\ program' = "misused" /\ UNCHANGED <<busy, conn>>
  /\ UNCHANGED <<life, acceptor, thread, backlog, at, held, tunerQueue, dropped, tuned>>

(* HandleRequest: the request is read without a time limit; what is posted *)
(* to a target the server knows is pushed to its Messaging, and then       *)
(* answered, whether it found room or not.                                 *)
PushOverwriting(p) ==
  IF p \notin ForTuning THEN UNCHANGED <<tunerQueue, dropped>>
  ELSE /\ tunerQueue' = IF Len(tunerQueue) < QueueCap THEN Append(tunerQueue, p)
                         ELSE Append(Tail(tunerQueue), p)
       /\ UNCHANGED dropped
Push(p) ==
  IF p \notin ForTuning THEN UNCHANGED <<tunerQueue, dropped>>
  ELSE IF Len(tunerQueue) < QueueCap THEN tunerQueue' = Append(tunerQueue, p) /\ UNCHANGED dropped
  ELSE dropped' = dropped \cup {p} /\ UNCHANGED tunerQueue

Read(p) == Job("handle", p) \in busy
KnowsAny(p) == TRUE
Knows(p) == at[p] = Target(p)

Refuse(p) ==
  /\ Read(p) /\ ~Knows(p)
  /\ conn' = [conn EXCEPT ![p] = "closed"]
  /\ busy' = busy \ {Job("handle", p)}
  /\ UNCHANGED <<life, acceptor, thread, backlog, at, tasks, held, tunerQueue, dropped, tuned,
                 program>>

(* http::read throws, or json::parse of a body for the data server: what   *)
(* is caught is logged, and the socket is closed with nothing pushed.      *)
Fail(p) ==
  /\ Read(p) /\ p \in Faulty
  /\ conn' = [conn EXCEPT ![p] = "closed"]
  /\ busy' = busy \ {Job("handle", p)}
  /\ UNCHANGED <<life, acceptor, thread, backlog, at, tasks, held, tunerQueue, dropped, tuned,
                 program>>

(* The tuning server parses nothing. The reply may fail to be written when *)
(* the post has been pushed.                                               *)
Receive(p) ==
  /\ Read(p) /\ Knows(p)
  /\ busy' = busy \ {Job("handle", p)}
  /\ \/ /\ life[at[p]] # "gone"
        /\ Push(p)
        /\ \/ conn' = [conn EXCEPT ![p] = "answered"]
           \/ p \in Faulty /\ conn' = [conn EXCEPT ![p] = "closed"]
        /\ UNCHANGED program
     \/ /\ life[at[p]] = "gone"
        /\ program' = "misused"
        /\ UNCHANGED <<tunerQueue, dropped, conn>>
  /\ UNCHANGED <<life, acceptor, thread, backlog, at, tasks, held, tuned>>

HandleRequest(p) == Refuse(p) \/ Fail(p) \/ Receive(p)

-----------------------------------------------------------------------------
(* MLTuningManager: Messaging's thread calls the subscriber, which parses  *)
(* the request, with no handler for what json::parse throws, and makes a   *)
(* task of its own of it; the tuner's tasks may change places and may run  *)
(* at the same time, and nothing catches what the tuner throws.            *)
ProcessQueueIfFree ==
  /\ tunerQueue # <<>>
  /\ tunerQueue' = Tail(tunerQueue)
  /\ tasks' = IF Cardinality(busy) + held < PoolSize
              THEN Append(tasks, Job("tune", Head(tunerQueue))) ELSE tasks
  /\ UNCHANGED <<life, acceptor, thread, backlog, conn, at, busy, held, dropped, tuned, program>>
ProcessQueue ==
  /\ tunerQueue # <<>>
  /\ tunerQueue' = Tail(tunerQueue)
  /\ \/ /\ tasks' = Append(tasks, Job("tune", Head(tunerQueue)))
        /\ UNCHANGED program
     \/ /\ Head(tunerQueue) \in Faulty
        /\ program' = "terminated"
        /\ UNCHANGED tasks
  /\ UNCHANGED <<life, acceptor, thread, backlog, conn, at, busy, held, dropped, tuned>>

ProcessData(p) ==
  /\ Job("tune", p) \in busy
  /\ busy' = busy \ {Job("tune", p)}
  /\ \/ /\ life["tuning"] # "gone"
        /\ tuned' = Append(tuned, p) /\ UNCHANGED program
     \/ /\ life["tuning"] # "gone" /\ p \in Faulty
        /\ program' = "terminated" /\ UNCHANGED tuned
     \/ /\ life["tuning"] = "gone"
        /\ program' = "misused" /\ UNCHANGED tuned
  /\ UNCHANGED <<life, acceptor, thread, backlog, conn, at, tasks, held, tunerQueue, dropped>>

-----------------------------------------------------------------------------
(* ~Server, of the data server before the tuning server as in              *)
(* ~ParameterManager: Stop clears running_, closes the acceptor, which     *)
(* wakes accept and resets the connections not yet accepted, and joins the *)
(* thread.                                                                 *)
Stop(s) ==
  /\ life[s] = "up" /\ (s = "tuning" => life["data"] = "gone")
  /\ life' = [life EXCEPT ![s] = "stopping"]
  /\ UNCHANGED <<acceptor, thread, backlog, conn, at, tasks, busy, held, tunerQueue, dropped, tuned,
                 program>>

LeaveAcceptor(s) ==
  /\ life[s] = "stopping"
  /\ life' = [life EXCEPT ![s] = "joining"]
  /\ UNCHANGED <<acceptor, thread, backlog, conn, at, tasks, busy, held, tunerQueue, dropped, tuned,
                 program>>
CloseAcceptor(s) ==
  /\ life[s] = "stopping"
  /\ life' = [life EXCEPT ![s] = "joining"]
  /\ acceptor' = [acceptor EXCEPT ![s] = "closed"]
  /\ conn' = [p \in Posts |-> IF \E i \in DOMAIN backlog[s] : backlog[s][i] = p
                              THEN "reset" ELSE conn[p]]
  /\ backlog' = [backlog EXCEPT ![s] = <<>>]
  /\ UNCHANGED <<thread, at, tasks, busy, held, tunerQueue, dropped, tuned, program>>

JoinAccept(s) ==
  /\ life[s] = "joining" /\ thread[s] = "done"
  /\ life' = [life EXCEPT ![s] = "gone"]
  /\ UNCHANGED <<acceptor, thread, backlog, conn, at, tasks, busy, held, tunerQueue, dropped, tuned,
                 program>>

-----------------------------------------------------------------------------
Server(s) == Start(s) \/ Accept(s) \/ Stop(s) \/ CloseAcceptor(s) \/ JoinAccept(s)

(* Nothing is said of the program once a task has used what was destroyed, *)
(* and nothing follows once an exception has ended it.                     *)
ServersNext ==
  /\ program = "runs"
  /\ \/ \E s \in ServerNames : Server(s)
     \/ \E p \in Posts : Connect(p) \/ HandleRequest(p) \/ ProcessData(p)
     \/ RunTask \/ HoldThreads \/ ProcessQueue

ServersSpec == ServersInit /\ [][ServersNext]_serversVars

(* Every thread that can go on does; a destructor that is under way goes   *)
(* on. Nobody has to start or stop a server, nor to connect; a silent      *)
(* client need not send its request, and an exchange that holds a thread   *)
(* of the pool need not end.                                               *)
FairServersSpec ==
  /\ ServersSpec
  /\ \A s \in ServerNames :
       WF_serversVars(Accept(s)) /\ WF_serversVars(CloseAcceptor(s) \/ JoinAccept(s))
  /\ \A p \in Posts \ Silent : WF_serversVars(HandleRequest(p))
  /\ \A p \in Posts : WF_serversVars(ProcessData(p))
  /\ WF_serversVars(RunTask) /\ WF_serversVars(ProcessQueue)

-----------------------------------------------------------------------------
ServersTypeOK ==
  /\ life \in [ServerNames -> {"none", "up", "stopping", "joining", "gone"}]
  /\ acceptor \in [ServerNames -> {"closed", "listening", "deaf"}]
  /\ thread \in [ServerNames -> {"none", "accept", "done"}]
  /\ backlog \in [ServerNames -> Seq(Posts)]
  /\ conn \in [Posts -> {"none", "waiting", "accepted", "answered", "closed", "reset"}]
  /\ at \in [Posts -> ServerNames]
  /\ tasks \in Seq([job : {"handle", "tune"}, post : Posts])
  /\ busy \subseteq [job : {"handle", "tune"}, post : Posts]
  /\ held \in 0..Hung /\ Cardinality(busy) + held <= PoolSize
  /\ tunerQueue \in Seq(ForTuning) /\ Len(tunerQueue) <= QueueCap
  /\ dropped \subseteq ForTuning /\ tuned \in Seq(ForTuning)
  /\ program \in {"runs", "misused", "terminated"}

(* A post is answered by the server it is meant for only; one that gets no *)
(* reply reached the other server, or a server that was being stopped, or  *)
(* is one that may go wrong. The tuner is given a post once at most, and   *)
(* none that found the queue full.                                         *)
TunedPosts == {tuned[i] : i \in DOMAIN tuned}
RepliesAreTrue ==
  /\ \A p \in Posts :
       /\ conn[p] = "answered" => at[p] = Target(p)
       /\ conn[p] = "closed" => at[p] # Target(p) \/ ~Running(at[p]) \/ p \in Faulty
       /\ conn[p] = "reset" => ~Running(at[p])
  /\ Cardinality(TunedPosts) = Len(tuned) /\ TunedPosts \cap dropped = {}

(* The pool has a task to read the post, or to give it to the tuner.       *)
Handled(p) == In(Job("handle", p), tasks) \/ Job("handle", p) \in busy
Tuning(p) == In(Job("tune", p), tasks) \/ Job("tune", p) \in busy
PostKept(p) ==
  /\ conn[p] = "waiting" => In(p, backlog[at[p]]) /\ acceptor[at[p]] # "closed"
  /\ conn[p] = "accepted" => Handled(p) \/ program # "runs"
  /\ conn[p] = "answered" /\ p \in ForTuning =>
       \/ In(p, tunerQueue) \/ Tuning(p) \/ In(p, tuned) \/ p \in dropped
       \/ program # "runs"

(* Every post is somewhere: in the backlog of a server that has not closed *)
(* its acceptor, with the pool, or, once a server has answered "Data       *)
(* received", on its way to the tuner, with the tuner, or dropped because  *)
(* the queue was full. This is what EveryPostEnds and AcknowledgedIsTuned  *)
(* rest on: a thread that goes on finds the post it is to go on with.      *)
PostsAreKept == \A p \in Posts : PostKept(p)

(* While the silent clients and HttpClient's exchanges leave the pool a    *)
(* thread, no other client waits for ever: it is answered, or its          *)
(* connection is closed or reset, whoever stops meanwhile (unless a task   *)
(* used what was destroyed, or an exception ended the program).            *)
EveryPostEnds ==
  \A p \in Posts \ Silent :
    conn[p] = "waiting" ~> (conn[p] \in {"answered", "closed", "reset"} \/ program # "runs")

(* What the tuning server has answered with "Data received" is given to    *)
(* the tuner, if the queue had room for it, until the server is stopped or *)
(* a body that cannot be parsed, or that the tuner throws on, ends the     *)
(* program.                                                                *)
AcknowledgedIsTuned ==
  \A p \in ForTuning :
    conn[p] = "answered" ~>
      (p \in TunedPosts \cup dropped \/ ~Running("tuning") \/ program # "runs")
=============================================================================
