---------------------------- MODULE SessionManager ----------------------------
(***************************************************************************)
(* ContextManager::ManageSession, which TradeSystem::Process calls first:  *)
(* it opens a session on the first bar inside the trading window, keeps    *)
(* its statistics up to date, closes it on the first bar outside, and says *)
(* whether this call may trade. Sessions go to the data server through     *)
(* HttpClient, one post when a session opens and one when it closes.       *)
(*                                                                         *)
(* Times are counted in minutes. The trading window is the set of minutes  *)
(* IsTradingDay accepts; ParameterSync replaces it while a session is open.*)
(***************************************************************************)
EXTENDS Integers, Sequences, FiniteSets

CONSTANTS
  MaxTime,          \* bound on the clock
  MaxTrades,        \* bound on the trades of the chart
  MaxSessions,      \* bound on the sessions started
  SnapshotInterval, \* liveResultsSnapshotIntervalMinutes
  Windows           \* the trading windows users save

ASSUME SessionManagerAssumption ==
  /\ MaxTime \in Nat /\ MaxTrades \in Nat /\ MaxSessions \in Nat
  /\ SnapshotInterval \in Nat
  /\ Windows \subseteq SUBSET (0..MaxTime) /\ Windows # {}

Times == 0..MaxTime
Ids == 1..MaxSessions

VARIABLES
  now,          \* the wall clock
  bar,          \* the end time of the bar of this call, GetCurrentPlatformTime
  window,       \* ParameterManager's tradingSystem
  lastSnapshot, \* lastSnapshotTime_
  session,      \* currentSession: the record, or none
  posts,        \* insert-session requests under way
  received,     \* what the data server has been posted for every session
  trades,       \* the chart's trade list: how many trades it holds
  pc,           \* where Process is
  opened,       \* history: the bar and the trades every session began with
  closed        \* history: the bar and the trades every session ended with

vars == <<now, bar, window, lastSnapshot, session, posts, received, trades, pc,
          opened, closed>>

NoSession == [id |-> 0, startDate |-> 0, endDate |-> 0, tradeStatistics |-> 0]
Open == session # NoSession
NewId == Cardinality(DOMAIN opened) + 1
At(t, n) == [bar |-> t, trades |-> n]
With(f, i, x) == [j \in DOMAIN f \cup {i} |-> IF j = i THEN x ELSE f[j]]

(* The trade system is constructed: Initialize has just run.               *)
Init ==
  /\ now = 0 /\ bar = 0
  /\ window \in Windows
  /\ lastSnapshot = now
  /\ session = NoSession
  /\ posts = {}
  /\ received = [i \in Ids |-> {}]
  /\ trades = 0
  /\ pc = "idle"
  /\ opened = [i \in {} |-> At(0, 0)] /\ closed = [i \in {} |-> At(0, 0)]

-----------------------------------------------------------------------------
(* The chart's next call: time passes, and a full recalculation goes back  *)
(* to an early bar.                                                        *)
NewBar(t, b) ==
  /\ pc = "idle"
  /\ t \in now..MaxTime /\ b \in 0..t
  /\ now' = t /\ bar' = b
  /\ pc' = "session"
  /\ UNCHANGED <<window, lastSnapshot, session, posts, received, trades, opened, closed>>

(* UpdateTradingSystem, on a thread of the pool.                           *)
UpdateTradingSystem(w) ==
  /\ w # window
  /\ window' = w
  /\ UNCHANGED <<now, bar, lastSnapshot, session, posts, received, trades, pc, opened, closed>>

(* The data server receives the posts in any order; one may fail.          *)
Deliver(p) ==
  /\ p \in posts
  /\ posts' = posts \ {p}
  /\ received' \in {received, [received EXCEPT ![p.id] = @ \cup {p}]}
  /\ UNCHANGED <<now, bar, window, lastSnapshot, session, trades, pc, opened, closed>>

-----------------------------------------------------------------------------
SnapshotDue == bar - lastSnapshot >= SnapshotInterval
BarInWindow == bar \in window

(* GetCurrentSessionTradeStatistics goes through the chart's whole trade   *)
(* list, whatever ContextManager.cpp:191 says ("for the current session"). *)
CurrentSessionStatistics == trades
UpdateSessionStatistics(s) == [s EXCEPT !.tradeStatistics = CurrentSessionStatistics]

(* A due snapshot calls UpdateSessionStatistics with false, which makes an *)
(* empty pointer, and writes through it.                                   *)
SnapshotCrash ==
  /\ pc = "session" /\ SnapshotDue
  /\ pc' = "crashed"
  /\ UNCHANGED <<now, bar, window, lastSnapshot, session, posts, received, trades, opened, closed>>

SendSession(s) == posts' = posts \cup {s}

(* endDate is the wall clock of the constructor.                           *)
CreateNewSession ==
  LET s == [id |-> NewId, startDate |-> bar, endDate |-> now, tradeStatistics |-> 0]
  IN  /\ NewId \in Ids
      /\ session' = s
      /\ posts' = posts \cup {s}
      /\ opened' = With(opened, NewId, At(bar, trades))
      /\ UNCHANGED closed

ContinueSession ==
  /\ session' = UpdateSessionStatistics(session)
  /\ UNCHANGED <<posts, opened, closed>>

SaveKeepsSession ==
  /\ SendSession(UpdateSessionStatistics(session))
  /\ session' = session
  /\ closed' = With(closed, session.id, At(bar, trades))
  /\ UNCHANGED opened
SaveUnrefreshed ==
  /\ SendSession(session)
  /\ session' = NoSession
  /\ closed' = With(closed, session.id, At(bar, trades))
  /\ UNCHANGED opened
(* SaveCurrentSession(true): the end date is set on the record after it    *)
(* has been sent, and the record is dropped.                               *)
SaveCurrentSession ==
  /\ SendSession(UpdateSessionStatistics(session))
  /\ session' = NoSession
  /\ closed' = With(closed, session.id, At(bar, trades))
  /\ UNCHANGED opened

ManageOpenWindow ==
  /\ pc = "session" /\ ~SnapshotDue /\ BarInWindow
  /\ IF Open THEN ContinueSession ELSE CreateNewSession
  /\ pc' \in {"trade", "notReady"}      \* ShouldProceed
  /\ UNCHANGED <<now, bar, window, lastSnapshot, received, trades>>

TradeOutsideWindow ==
  /\ pc = "session" /\ ~SnapshotDue /\ ~BarInWindow
  /\ IF Open THEN SaveCurrentSession ELSE UNCHANGED <<session, posts, opened, closed>>
  /\ pc' \in {"trade", "notReady"}
  /\ UNCHANGED <<now, bar, window, lastSnapshot, received, trades>>
ManageClosedWindow ==
  /\ pc = "session" /\ ~SnapshotDue /\ ~BarInWindow
  /\ IF Open THEN SaveCurrentSession ELSE UNCHANGED <<session, posts, opened, closed>>
  /\ pc' = "notReady"
  /\ UNCHANGED <<now, bar, window, lastSnapshot, received, trades>>

(* The rest of Process. The trades it makes, and the fills of orders left  *)
(* working, are on the trade list when the chart calls again.              *)
Trade ==
  /\ pc = "trade"
  /\ pc' = "idle"
  /\ UNCHANGED <<now, bar, window, lastSnapshot, session, posts, received, trades, opened, closed>>

Fill ==
  /\ pc = "idle" /\ trades < MaxTrades
  /\ trades' = trades + 1
  /\ UNCHANGED <<now, bar, window, lastSnapshot, session, posts, received, pc, opened, closed>>

(* Process re-initializes for a stale trading system, which restarts the   *)
(* snapshot interval at the wall clock.                                    *)
NotReady ==
  /\ pc = "notReady"
  /\ lastSnapshot' \in {lastSnapshot, now}
  /\ pc' = "idle"
  /\ UNCHANGED <<now, bar, window, session, posts, received, trades, opened, closed>>

Next ==
  \/ \E t \in Times, b \in Times : NewBar(t, b)
  \/ \E w \in Windows : UpdateTradingSystem(w)
  \/ \E p \in posts : Deliver(p)
  \/ SnapshotCrash \/ ManageOpenWindow \/ ManageClosedWindow \/ Trade \/ Fill \/ NotReady

Spec == Init /\ [][Next]_vars

-----------------------------------------------------------------------------
Record == [id : Ids, startDate : Times, endDate : Times, tradeStatistics : 0..MaxTrades]

TypeOK ==
  /\ now \in Times /\ bar \in 0..now /\ lastSnapshot \in 0..now
  /\ window \in Windows
  /\ session \in Record \cup {NoSession}
  /\ posts \subseteq Record
  /\ received \in [Ids -> SUBSET Record]
  /\ trades \in 0..MaxTrades
  /\ pc \in {"idle", "session", "trade", "notReady", "crashed"}
  /\ DOMAIN closed \subseteq DOMAIN opened /\ DOMAIN opened \subseteq Ids

(* A call that goes on to trade does so in a session that has not ended,  *)
(* whatever windows are saved and whatever bars are replayed meanwhile.    *)
TradesOnlyInSessions == pc = "trade" => Open /\ session.id \notin DOMAIN closed

(* There is one open session at most, the last one opened, and it is the   *)
(* only one without a closing bar.                                         *)
OneOpenSession ==
  DOMAIN opened \ DOMAIN closed = IF Open THEN {session.id} ELSE {}

(* Whatever is lost or late, the data server is told of a session by two   *)
(* records only, each as of the call that made it: the opening one, of no  *)
(* trades yet, and the closing one, with the count the chart showed when   *)
(* the session was found closed; both begin at the bar that opened it.     *)
(* (The count is of the chart's whole list, not of the session, and the    *)
(* end date of both is the wall clock of the opening: neither is called    *)
(* true here.)                                                             *)
PostedAsOfItsCall ==
  \A i \in Ids : \A r \in received[i] :
    /\ i \in DOMAIN opened /\ r.startDate = opened[i].bar
    /\ \/ r.tradeStatistics = 0
       \/ i \in DOMAIN closed /\ r.tradeStatistics = closed[i].trades
=============================================================================
