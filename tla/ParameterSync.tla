----------------------------- MODULE ParameterSync -----------------------------
(***************************************************************************)
(* How a change of the trading system or of the parameter group saved in   *)
(* the database reaches the chart: the save is announced to                *)
(* ParameterDataAccessServer, queued in an asynchronous Messaging, fetched *)
(* through HttpClient on a thread of the pool, stored in ParameterManager  *)
(* (which raises tradeSystemStale for a trading system), and applied to    *)
(* the platform by ContextManager::Initialize on the study's thread when   *)
(* TradeSystem::Process next finds nothing to trade.                       *)
(*                                                                         *)
(* A saved document is its version number. Documents of both kinds travel  *)
(* the same way; only their callbacks differ.                              *)
(***************************************************************************)
EXTENDS Integers, Sequences, FiniteSets

CONSTANTS
  Contexts,     \* "live" (paper trading runs the same steps) and "backtest"
  MaxVersion,   \* bound on the versions saved
  MaxGroups,    \* bound on the versions of the parameter group among them
  BadVersions   \* versions whose bar period SetBarPeriod cannot read

ASSUME ParameterSyncAssumption ==
  /\ Contexts \subseteq {"live", "backtest"}
  /\ MaxVersion \in Nat \ {0} /\ MaxGroups \in 0..MaxVersion
  /\ BadVersions \subseteq 1..MaxVersion

Kinds == {"system", "group"}
Versions == 0..MaxVersion
Saves(k) == IF k = "group" THEN MaxGroups ELSE MaxVersion
Stages == Kinds \cup {"idle", "initialize", "copy", "copying", "apply", "reset"}
Torn == -1   \* a copy taken while the original was being assigned

VARIABLES
  context,   \* the platform's context, fixed while the chart runs
  db,        \* the latest version of each kind in the database
  posts,     \* announcements posted to the server and not yet handled
  queue,     \* Messaging::request_queue_
  asked,     \* asynchronous requests the data server has not answered yet
  answers,   \* how many answers with each version wait for their callback
  held,      \* ParameterManager: tradingSystem and parameterGroup
  stale,     \* ParameterManager::tradeSystemStale
  study,     \* where the study's thread is in Initialize
  reply,     \* the answer the study's thread waits for, if it has come
  copy,      \* Initialize's local tradingSystem
  applied,   \* the version the platform's bar period and interval come from
  prepared,  \* BacktestingManager::backtestPrepared
  overtaken, \* history: a trading system was stored between the last copy and its reset
  crowded    \* history: a kind was requested while a request for it was under way

vars == <<context, db, posts, queue, asked, answers, held, stale, study, reply, copy,
          applied, prepared, overtaken, crowded>>
remote == <<db, posts, queue, asked, answers>>
local == <<context, study, reply, copy, applied, prepared>>

NoReply == [come |-> FALSE, success |-> FALSE, version |-> 0]

Init ==
  /\ context \in Contexts
  /\ db = [k \in Kinds |-> 0]
  /\ posts = [k \in Kinds |-> 0]
  /\ queue = <<>>
  /\ asked = [k \in Kinds |-> 0]
  /\ answers = [k \in Kinds |-> [v \in Versions |-> 0]]
  /\ held = [k \in Kinds |-> 0]
  /\ stale \in BOOLEAN         \* the constructor leaves it uninitialized
  /\ study = "initialize"      \* the study initializes what it has built
  /\ reply = NoReply
  /\ copy = 0 /\ applied = 0
  /\ prepared = FALSE /\ overtaken = FALSE
  /\ crowded = [k \in Kinds |-> FALSE]

(* Requests of a kind that have not had their callback.                    *)
Busy(k) == asked[k] > 0 \/ study = k \/ \E v \in Versions : answers[k][v] > 0
Request(k) == crowded' = [crowded EXCEPT ![k] = @ \/ Busy(k)]

-----------------------------------------------------------------------------
(* The database's user interface saves a document and announces it.        *)
Save(k) ==
  /\ db[k] < Saves(k)
  /\ db' = [db EXCEPT ![k] = @ + 1]
  /\ posts' = [posts EXCEPT ![k] = @ + 1]
  /\ UNCHANGED <<queue, asked, answers, held, stale, local, overtaken, crowded>>

(* ParameterDataAccessServer::HandleRequest, on a thread of the pool.      *)
HandleRequest(k) ==
  /\ posts[k] > 0
  /\ posts' = [posts EXCEPT ![k] = @ - 1]
  /\ queue' = Append(queue, k)
  /\ UNCHANGED <<db, asked, answers, held, stale, local, overtaken, crowded>>

(* Messaging's thread calls the subscriber, which asks without waiting.    *)
ProcessRequest ==
  /\ queue # <<>>
  /\ queue' = Tail(queue)
  /\ Request(Head(queue))
  /\ asked' = [asked EXCEPT ![Head(queue)] = @ + 1]
  /\ UNCHANGED <<db, posts, answers, held, stale, local, overtaken>>

(* The data server reads its database for any of the requests, or the      *)
(* request fails and the callback only logs.                               *)
AnswerRequest(k) ==
  /\ asked[k] > 0
  /\ asked' = [asked EXCEPT ![k] = @ - 1]
  /\ answers' = [answers EXCEPT ![k][db[k]] = @ + 1]
  /\ UNCHANGED <<db, posts, queue, held, stale, local, overtaken, crowded>>

FailRequest(k) ==
  /\ asked[k] > 0
  /\ asked' = [asked EXCEPT ![k] = @ - 1]
  /\ UNCHANGED <<db, posts, queue, answers, held, stale, local, overtaken, crowded>>

-----------------------------------------------------------------------------
PastCopy == study \in {"copying", "apply", "reset"}

(* UpdateTradingSystem raises the flag; UpdateParameterGroup has none.     *)
StoreQuietly(k, v) ==
  /\ held' = [held EXCEPT ![k] = v]
  /\ stale' = stale
  /\ overtaken' = (overtaken \/ (k = "system" /\ PastCopy))
StoreAll(k, v) ==
  /\ held' = [j \in Kinds |-> v]
  /\ stale' = (stale \/ k = "system")
  /\ overtaken' = (overtaken \/ (k = "system" /\ PastCopy))
Store(k, v) ==
  /\ held' = [held EXCEPT ![k] = v]
  /\ stale' = (stale \/ k = "system")
  /\ overtaken' = (overtaken \/ (k = "system" /\ PastCopy))

Taken(k, v) == [answers EXCEPT ![k][v] = @ - 1]

(* GetTradingSystem returns a reference, so Initialize copies after the    *)
(* lock is gone: an assignment meanwhile may leave a mixture in the copy.  *)
FetchCallback(k, v) ==
  /\ answers[k][v] > 0
  /\ answers' = Taken(k, v)
  /\ Store(k, v)
  /\ copy' \in IF study = "copying" /\ k = "system" THEN {copy, v, Torn} ELSE {copy}
  /\ UNCHANGED <<context, db, posts, queue, asked, study, reply, applied, prepared, crowded>>

-----------------------------------------------------------------------------
(* TradeSystem::Process when ManageSession has answered FALSE.             *)
ProcessNotReady ==
  /\ study = "idle"
  /\ stale
  /\ study' = "initialize"
  /\ UNCHANGED <<context, remote, held, stale, reply, copy, applied, prepared, overtaken, crowded>>

(* The trading system is fetched first, and the study's thread waits for   *)
(* it; the parameter group follows in FutureGet.                           *)
InitializeParameters == study' = "system" /\ Request("system")

(* A backtest is prepared once: later initializations fetch nothing.       *)
PrepareForBacktest ==
  IF prepared THEN study' = "copy" /\ UNCHANGED <<prepared, crowded>>
  ELSE InitializeParameters /\ prepared' = TRUE

Initialize ==
  /\ study = "initialize"
  /\ IF context = "backtest" THEN PrepareForBacktest
     ELSE InitializeParameters /\ UNCHANGED prepared
  /\ UNCHANGED <<context, remote, held, stale, reply, copy, applied, overtaken>>

(* The study's thread waits in future.get() for as long as it takes.       *)
AnswerStudy ==
  /\ study \in Kinds /\ ~reply.come
  /\ reply' \in {[come |-> TRUE, success |-> ok, version |-> db[study]] : ok \in BOOLEAN}
  /\ UNCHANGED <<context, remote, held, stale, study, copy, applied, prepared, overtaken, crowded>>

FutureGetSuccess ==
  /\ study \in Kinds /\ reply.come /\ reply.success
  /\ Store(study, reply.version)
  /\ study' = IF study = "system" THEN "group" ELSE "copy"
  /\ IF study = "system" THEN Request("group") ELSE UNCHANGED crowded
  /\ reply' = NoReply
  /\ UNCHANGED <<context, remote, copy, applied, prepared>>
FutureGet ==
  /\ study \in Kinds /\ reply.come
  /\ IF reply.success THEN Store(study, reply.version) ELSE UNCHANGED <<held, stale, overtaken>>
  /\ study' = IF study = "system" THEN "group" ELSE "copy"
  /\ IF study = "system" THEN Request("group") ELSE UNCHANGED crowded
  /\ reply' = NoReply
  /\ UNCHANGED <<context, remote, copy, applied, prepared>>

CopyTradingSystem ==
  /\ study = "copy"
  /\ copy' = held["system"]
  /\ overtaken' = FALSE
  /\ study' = "copying"
  /\ UNCHANGED <<context, remote, held, stale, reply, applied, prepared, crowded>>

FinishCopy ==
  /\ study = "copying"
  /\ study' = "apply"
  /\ UNCHANGED <<context, remote, held, stale, reply, copy, applied, prepared, overtaken, crowded>>

(* SetBarPeriod splits the period and reads every number of it before it   *)
(* hands the platform anything: a number std::stoi cannot read throws and  *)
(* leaves the platform with the period it had. Half of one version and     *)
(* half of another may be readable or not.                                 *)
SetBarPeriod(v) == v \notin BadVersions /\ applied' = v
SetBarPeriodThrows(v) == v \in BadVersions \cup {Torn} /\ UNCHANGED applied

(* The interval follows the period. An exception is logged by Initialize,  *)
(* which returns with the flag as it is.                                   *)
ApplySettings ==
  /\ study = "apply"
  /\ \/ SetBarPeriod(copy) /\ study' = "reset"
     \/ SetBarPeriodThrows(copy) /\ study' = "idle"
  /\ UNCHANGED <<context, remote, held, stale, reply, copy, prepared, overtaken, crowded>>

ResetNothing ==
  /\ study = "reset"
  /\ study' = "idle"
  /\ UNCHANGED <<context, remote, held, stale, reply, copy, applied, prepared, overtaken, crowded>>
ResetTradeSystemStaleStatus ==
  /\ study = "reset"
  /\ stale' = FALSE
  /\ study' = "idle"
  /\ UNCHANGED <<context, remote, held, reply, copy, applied, prepared, overtaken, crowded>>

Study ==
  \/ ProcessNotReady \/ Initialize \/ FutureGet \/ CopyTradingSystem
  \/ FinishCopy \/ ApplySettings \/ ResetTradeSystemStaleStatus

Next ==
  \/ \E k \in Kinds :
       \/ Save(k) \/ HandleRequest(k) \/ AnswerRequest(k) \/ FailRequest(k)
       \/ \E v \in Versions : FetchCallback(k, v)
  \/ ProcessRequest \/ AnswerStudy \/ Study

Spec == Init /\ [][Next]_vars

(* The chart keeps calling the study and is not always ready to trade, the *)
(* threads run, and a request is answered or fails. Nobody has to save.    *)
FairSpec ==
  /\ Spec
  /\ WF_vars(Study) /\ WF_vars(AnswerStudy) /\ WF_vars(ProcessRequest)
  /\ \A k \in Kinds : /\ WF_vars(HandleRequest(k))
                      /\ WF_vars(AnswerRequest(k) \/ FailRequest(k))
                      /\ WF_vars(\E v \in Versions : FetchCallback(k, v))

-----------------------------------------------------------------------------
TypeOK ==
  /\ context \in Contexts
  /\ db \in [Kinds -> Versions] /\ held \in [Kinds -> Versions]
  /\ posts \in [Kinds -> Nat] /\ asked \in [Kinds -> Nat]
  /\ answers \in [Kinds -> [Versions -> Nat]]
  /\ queue \in Seq(Kinds)
  /\ study \in Stages
  /\ reply \in [come : BOOLEAN, success : BOOLEAN, version : Versions]
  /\ copy \in Versions \cup {Torn} /\ applied \in Versions \cup {Torn}
  /\ stale \in BOOLEAN /\ prepared \in BOOLEAN /\ overtaken \in BOOLEAN
  /\ crowded \in [Kinds -> BOOLEAN]

(* Between two initializations the platform runs on the stored trading     *)
(* system, or the flag calls for another one, or one was stored after the  *)
(* last initialization's copy and before its reset (lines 29 to 52).       *)
LostOnlyWhenOvertaken ==
  study = "idle" /\ ~stale /\ applied # held["system"] => overtaken

(* A stored document is replaced by an older one only where two requests   *)
(* for its kind were under way at once and their answers changed places.   *)
BackOnlyByOvertaking ==
  [][\A k \in Kinds : held'[k] < held[k] => crowded[k]]_vars

(* A raised flag is acted on: unless the settings cannot be read, the      *)
(* study's thread comes back out of Initialize with the flag down.         *)
StaleIsApplied == stale ~> (~stale \/ held["system"] \in BadVersions)
ProcessReturns == study # "idle" ~> study = "idle"
=============================================================================
