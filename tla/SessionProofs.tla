------------------------------ MODULE SessionProofs ------------------------------
(***************************************************************************)
(* Proofs about ContextManager::ManageSession, in two parts.  Sessions     *)
(* (SessionManager): they open and close in pairs, trading happens inside  *)
(* one, and the data server is told of them by their opening and closing   *)
(* records only: for any clock, any windows saved at any time, any replay  *)
(* of bars and any number of sessions.  The trading window (TradingClock): for any summer time, any  *)
(* windows, any lag of the chart and weeks of any length.                  *)
(***************************************************************************)
EXTENDS SessionManager, TradingClock, FiniteSetTheorems, TLAPS

-----------------------------------------------------------------------------
(* Part 1. Sessions.                                                       *)
Mark == [bar : Times, trades : 0..MaxTrades]

(* The histories are functions, and sessions are numbered from 1 without a *)
(* gap, so that the next id is new.                                        *)
HistoryInv ==
  /\ opened \in [DOMAIN opened -> Mark]
  /\ closed \in [DOMAIN closed -> Mark]
  /\ \E n \in Nat : DOMAIN opened = 1..n

(* A record that is posted or received is its session's first or last.     *)
FirstOrLast(r) ==
  /\ r.id \in DOMAIN opened
  /\ r.startDate = opened[r.id].bar
  /\ \/ r.tradeStatistics = 0
     \/ r.id \in DOMAIN closed /\ r.tradeStatistics = closed[r.id].trades
RecordsInv ==
  /\ Open => session.id \in DOMAIN opened /\ session.startDate = opened[session.id].bar
  /\ \A p \in posts : FirstOrLast(p)
  /\ \A i \in Ids : \A r \in received[i] : r.id = i /\ FirstOrLast(r)

TradeInv == pc = "trade" => Open

Inv == TypeOK /\ HistoryInv /\ OneOpenSession /\ TradeInv /\ RecordsInv

-----------------------------------------------------------------------------
LEMMA NewIdIsNew ==
  ASSUME HistoryInv
  PROVE  /\ NewId \in Nat \ {0} /\ NewId \notin DOMAIN opened
         /\ DOMAIN opened \cup {NewId} = 1..NewId
  <1>1. PICK n \in Nat : DOMAIN opened = 1..n
    BY DEF HistoryInv
  <1>2. Cardinality(DOMAIN opened) = n
    BY <1>1, FS_Interval
  <1> QED BY <1>1, <1>2 DEF NewId

LEMMA InitInv == Init => Inv
  <1> SUFFICES ASSUME Init PROVE Inv
    OBVIOUS
  <1>1. Times \subseteq Nat /\ 0 \in Times /\ 0 \in 0..MaxTrades /\ 0 \in 0..0
    BY SessionManagerAssumption DEF Times
  <1>2. DOMAIN opened = {} /\ DOMAIN closed = {} /\ {} = 1..0
    BY DEF Init
  <1>3. TypeOK
    BY <1>1, <1>2 DEF Init, TypeOK
  <1>4. HistoryInv
    BY <1>2 DEF Init, HistoryInv
  <1>5. OneOpenSession /\ TradeInv /\ RecordsInv
    BY <1>2 DEF Init, OneOpenSession, TradeInv, RecordsInv, Open, Ids
  <1> QED BY <1>3, <1>4, <1>5 DEF Inv

(* A session that is open has an id of its own, and is not the empty one.  *)
LEMMA OpenSession ==
  ASSUME Inv, Open
  PROVE  /\ session \in Record /\ session.id \in Ids
         /\ session.id \in DOMAIN opened /\ session.id \notin DOMAIN closed
         /\ DOMAIN opened \ DOMAIN closed = {session.id}
  BY DEF Inv, TypeOK, Open, OneOpenSession, Record

(* Bars, windows and posts that arrive leave sessions alone.               *)
LEMMA StepEnvironment ==
  ASSUME Inv,
         \/ \E t \in Times, b \in Times : NewBar(t, b)
         \/ \E w \in Windows : UpdateTradingSystem(w)
         \/ \E p \in posts : Deliver(p)
         \/ SnapshotCrash \/ Trade \/ Fill \/ NotReady
  PROVE  Inv'
  <1> USE DEF Inv
  <1>1. Times \subseteq Nat
    BY SessionManagerAssumption DEF Times
  <1>2. CASE \E t \in Times, b \in Times : NewBar(t, b)
    <2>1. TypeOK'
      BY <1>1, <1>2 DEF NewBar, TypeOK, Times
    <2> QED BY <1>2, <2>1 DEF NewBar, HistoryInv, OneOpenSession, TradeInv, RecordsInv, FirstOrLast, Open
  <1>3. CASE \E w \in Windows : UpdateTradingSystem(w)
    BY <1>3 DEF UpdateTradingSystem, TypeOK, HistoryInv, OneOpenSession, TradeInv, RecordsInv, FirstOrLast, Open
  <1>4. ASSUME NEW p \in posts, Deliver(p)
        PROVE  Inv'
    <2>1. p \in Record /\ p.id \in Ids /\ FirstOrLast(p)
      BY DEF TypeOK, Record, RecordsInv
    <2>2. /\ posts' \subseteq posts
          /\ \A i \in Ids : received'[i] \subseteq received[i] \cup {p}
          /\ \A i \in Ids : i # p.id => received'[i] = received[i]
          /\ received' \in [Ids -> SUBSET Record]
      BY <1>4, <2>1 DEF Deliver, TypeOK
    <2>3. UNCHANGED <<now, bar, window, lastSnapshot, session, trades, pc, opened, closed>>
      BY <1>4 DEF Deliver
    <2>4. TypeOK'
      BY <2>2, <2>3 DEF TypeOK
    <2>5. \A r : FirstOrLast(r) => FirstOrLast(r)'
      BY <2>3 DEF FirstOrLast
    <2>6. RecordsInv'
      <3>1. \A i \in Ids : \A r \in received'[i] : r.id = i /\ FirstOrLast(r)
        BY <2>1, <2>2 DEF RecordsInv
      <3>2. \A q \in posts' : FirstOrLast(q)
        BY <2>2 DEF RecordsInv
      <3>3. (Open => session.id \in DOMAIN opened /\ session.startDate = opened[session.id].bar)'
        BY <2>3 DEF RecordsInv, Open
      <3> QED BY <2>5, <3>1, <3>2, <3>3, <2>3 DEF RecordsInv, FirstOrLast
    <2> QED BY <2>3, <2>4, <2>6 DEF HistoryInv, OneOpenSession, TradeInv, Open
  <1>5. CASE SnapshotCrash
    BY <1>5 DEF SnapshotCrash, TypeOK, HistoryInv, OneOpenSession, TradeInv, RecordsInv, FirstOrLast, Open
  <1>6. CASE Trade
    BY <1>6 DEF Trade, TypeOK, HistoryInv, OneOpenSession, TradeInv, RecordsInv, FirstOrLast, Open
  <1>7. CASE Fill
    <2>1. /\ trades' = trades + 1 /\ trades' \in 0..MaxTrades /\ trades \in Nat
          /\ UNCHANGED <<now, bar, window, lastSnapshot, session, posts, received, pc, opened, closed>>
      BY <1>7, SessionManagerAssumption DEF Fill, TypeOK
    <2>2. \A r \in Record : FirstOrLast(r) => FirstOrLast(r)'
      BY <2>1, SessionManagerAssumption DEF FirstOrLast, Record
    <2>3. RecordsInv'
      BY <2>1, <2>2 DEF RecordsInv, Open, TypeOK, FirstOrLast
    <2>4. TypeOK'
      BY <2>1 DEF TypeOK
    <2> QED BY <2>1, <2>3, <2>4 DEF HistoryInv, OneOpenSession, TradeInv, Open
  <1>8. CASE NotReady
    <2>1. TypeOK'
      BY <1>1, <1>8 DEF NotReady, TypeOK, Times
    <2> QED BY <1>8, <2>1 DEF NotReady, HistoryInv, OneOpenSession, TradeInv, RecordsInv, FirstOrLast, Open
  <1> QED BY <1>2, <1>3, <1>4, <1>5, <1>6, <1>7, <1>8

-----------------------------------------------------------------------------
LEMMA StepCreate ==
  ASSUME Inv, ManageOpenWindow, ~Open
  PROVE  Inv'
  <1> USE DEF Inv
  <1> DEFINE s == [id |-> NewId, startDate |-> bar, endDate |-> now, tradeStatistics |-> 0]
  <1>1. /\ NewId \in Ids /\ session' = s /\ posts' = posts \cup {s}
        /\ opened' = With(opened, NewId, At(bar, trades)) /\ closed' = closed
        /\ pc' \in {"trade", "notReady"}
        /\ UNCHANGED <<now, bar, window, lastSnapshot, received, trades>>
    BY DEF ManageOpenWindow, CreateNewSession
  <1>2. s \in Record /\ At(bar, trades) \in Mark /\ bar \in Times /\ trades \in 0..MaxTrades
    BY <1>1, SessionManagerAssumption DEF Record, Mark, At, TypeOK, Times
  <1>3. /\ DOMAIN opened' = DOMAIN opened \cup {NewId}
        /\ opened' \in [DOMAIN opened' -> Mark]
        /\ opened'[NewId] = At(bar, trades)
        /\ \A i \in DOMAIN opened : i # NewId => opened'[i] = opened[i]
    BY <1>1, <1>2 DEF With, HistoryInv
  <1>4. /\ NewId \in Nat \ {0} /\ NewId \notin DOMAIN opened /\ DOMAIN opened' = 1..NewId
    BY <1>3, NewIdIsNew
  <1>5. s # NoSession /\ s.id = NewId
    BY <1>4 DEF NoSession
  <1>6. TypeOK'
    BY <1>1, <1>2, <1>3 DEF TypeOK
  <1>7. HistoryInv'
    BY <1>1, <1>3, <1>4 DEF HistoryInv
  <1>8. OneOpenSession'
    BY <1>1, <1>3, <1>4, <1>5 DEF OneOpenSession, Open, TypeOK
  <1>9. \A r : FirstOrLast(r) => FirstOrLast(r)'
    BY <1>1, <1>3, <1>4 DEF FirstOrLast
  <1>10. PICK new \in Record : new = s
    BY <1>2
  <1> HIDE DEF s
  <1>11. FirstOrLast(new)'
    BY <1>1, <1>2, <1>3, <1>4, <1>10 DEF FirstOrLast, At, TypeOK, s
  <1>12. RecordsInv'
    <2>1. (Open => session.id \in DOMAIN opened /\ session.startDate = opened[session.id].bar)'
      BY <1>1, <1>10, <1>11 DEF FirstOrLast
    <2>2. (\A p \in posts : FirstOrLast(p))'
      BY <1>1, <1>9, <1>10, <1>11 DEF RecordsInv
    <2>3. (\A i \in Ids : \A r \in received[i] : r.id = i /\ FirstOrLast(r))'
      BY <1>1, <1>9 DEF RecordsInv
    <2> QED BY <2>1, <2>2, <2>3 DEF RecordsInv
  <1>13. TradeInv'
    BY <1>1, <1>5 DEF TradeInv, Open
  <1> QED BY <1>6, <1>7, <1>8, <1>12, <1>13

LEMMA StepContinue ==
  ASSUME Inv, ManageOpenWindow, Open
  PROVE  Inv'
  <1> USE DEF Inv
  <1>1. /\ session' = [session EXCEPT !.tradeStatistics = trades]
        /\ pc' \in {"trade", "notReady"}
        /\ UNCHANGED <<now, bar, window, lastSnapshot, received, trades, posts, opened, closed>>
    BY DEF ManageOpenWindow, ContinueSession, UpdateSessionStatistics, CurrentSessionStatistics
  <1>2. /\ session' \in Record /\ session'.id = session.id /\ session'.startDate = session.startDate
        /\ session'.tradeStatistics = trades /\ trades \in Nat
    BY <1>1, OpenSession DEF Record, TypeOK
  <1>3. session' # NoSession
    BY <1>2, OpenSession DEF NoSession, Ids
  <1>4. TypeOK' /\ HistoryInv' /\ TradeInv'
    BY <1>1, <1>2, <1>3 DEF TypeOK, HistoryInv, TradeInv, Open
  <1>5. OneOpenSession'
    BY <1>1, <1>2, <1>3, OpenSession DEF OneOpenSession, Open
  <1>6. RecordsInv'
    BY <1>1, <1>2, OpenSession DEF RecordsInv, FirstOrLast, Open
  <1> QED BY <1>4, <1>5, <1>6

LEMMA StepSave ==
  ASSUME Inv, ManageClosedWindow, Open
  PROVE  Inv'
  <1> USE DEF Inv
  <1> DEFINE s == [session EXCEPT !.tradeStatistics = trades]
  <1>1. /\ session' = NoSession /\ posts' = posts \cup {s}
        /\ closed' = With(closed, session.id, At(bar, trades)) /\ opened' = opened
        /\ pc' = "notReady"
        /\ UNCHANGED <<now, bar, window, lastSnapshot, received, trades>>
    BY DEF ManageClosedWindow, SaveCurrentSession, SendSession, UpdateSessionStatistics,
           CurrentSessionStatistics
  <1>2. /\ s \in Record /\ s.id = session.id /\ s.startDate = session.startDate
        /\ s.tradeStatistics = trades /\ trades \in 0..MaxTrades /\ At(bar, trades) \in Mark
    BY OpenSession, SessionManagerAssumption DEF Record, TypeOK, Mark, At, Times
  <1>3. /\ DOMAIN closed' = DOMAIN closed \cup {session.id}
        /\ closed' \in [DOMAIN closed' -> Mark]
        /\ closed'[session.id] = At(bar, trades)
        /\ \A i \in DOMAIN closed : i # session.id => closed'[i] = closed[i]
    BY <1>1, <1>2 DEF With, HistoryInv
  <1>4. TypeOK'
    BY <1>1, <1>2, <1>3, OpenSession DEF TypeOK
  <1>5. HistoryInv' /\ TradeInv'
    BY <1>1, <1>3 DEF HistoryInv, TradeInv
  <1>6. OneOpenSession'
    BY <1>1, <1>3, OpenSession DEF OneOpenSession, Open
  <1>7. \A r \in Record : FirstOrLast(r) => FirstOrLast(r)'
    BY <1>1, <1>3, OpenSession DEF FirstOrLast, At
  <1>8. PICK last \in Record : last = s
    BY <1>2
  <1> HIDE DEF s
  <1>10. FirstOrLast(last)'
    BY <1>1, <1>2, <1>3, <1>8, OpenSession DEF FirstOrLast, RecordsInv, At
  <1>9. RecordsInv'
    <2>1. (\A p \in posts : FirstOrLast(p))'
      BY <1>1, <1>7, <1>8, <1>10 DEF RecordsInv, TypeOK
    <2>2. (\A i \in Ids : \A r \in received[i] : r.id = i /\ FirstOrLast(r))'
      BY <1>1, <1>7 DEF RecordsInv, TypeOK
    <2> QED BY <1>1, <2>1, <2>2 DEF RecordsInv, Open
  <1> QED BY <1>4, <1>5, <1>6, <1>9

LEMMA StepInv == Inv /\ [Next]_vars => Inv'
  <1> SUFFICES ASSUME Inv, [Next]_vars PROVE Inv'
    OBVIOUS
  <1>1. CASE ManageOpenWindow
    BY <1>1, StepCreate, StepContinue
  <1>2. CASE ManageClosedWindow
    <2>1. CASE ~Open
      BY <1>2, <2>1 DEF ManageClosedWindow, Inv, TypeOK, HistoryInv, OneOpenSession, TradeInv,
                        RecordsInv, FirstOrLast, Open
    <2> QED BY <1>2, <2>1, StepSave
  <1>3. CASE UNCHANGED vars
    BY <1>3 DEF vars, Inv, TypeOK, HistoryInv, OneOpenSession, TradeInv, RecordsInv, FirstOrLast, Open
  <1> QED BY <1>1, <1>2, <1>3, StepEnvironment DEF Next

-----------------------------------------------------------------------------
(* Every record keeps its type, and a closed session was opened.           *)
THEOREM TypeCorrect == Spec => []TypeOK
  <1>1. Inv => TypeOK
    BY DEF Inv
  <1> QED BY <1>1, InitInv, StepInv, PTL DEF Spec

(* At most one session is open, and it is the current one.                 *)
THEOREM SessionsArePaired == Spec => []OneOpenSession
  <1>1. Inv => OneOpenSession
    BY DEF Inv
  <1> QED BY <1>1, InitInv, StepInv, PTL DEF Spec

(* A call that goes on to trade has an open session.                       *)
THEOREM TradingIsInSessions == Spec => []TradesOnlyInSessions
  <1>1. Inv => TradesOnlyInSessions
    BY OpenSession DEF Inv, TradeInv, TradesOnlyInSessions
  <1> QED BY <1>1, InitInv, StepInv, PTL DEF Spec

(* The data server is told of a session by its opening and its closing     *)
(* record only, each with the count of its own call.                       *)
THEOREM RecordsAreAsOfTheirCalls == Spec => []PostedAsOfItsCall
  <1>1. Inv => PostedAsOfItsCall
    BY DEF Inv, RecordsInv, FirstOrLast, PostedAsOfItsCall
  <1> QED BY <1>1, InitInv, StepInv, PTL DEF Spec

-----------------------------------------------------------------------------
(* Part 2. The conversions of TradingClock.  Nothing of the argument is    *)
(* about steps: the inductive invariant says that the settings and the     *)
(* bar's time are converted from what was saved and from the chart's clock,*)
(* and the properties follow by arithmetic.                                *)
USE TradingClockAssumption

Converted ==
  /\ settings = SessionSettingsFromJson(saved, readAt)
  /\ current = DateTime(ChartTime(clock - lag))

ClockInv == ClockTypeOK /\ Converted

(* A day and an hour of the day make an hour, and back.                    *)
LEMMA DayAndHour ==
  /\ \A t \in Int : /\ Day(t) \in Int /\ HourOfDay(t) \in 0..23
                    /\ t = 24 * Day(t) + HourOfDay(t)
  /\ \A k \in Int, h \in 0..23 : Day(24 * k + h) = k /\ HourOfDay(24 * k + h) = h
BY DEF Day, HourOfDay

LEMMA HourType == \A t \in Int : Dst(t) \in BOOLEAN /\ DstHour(t) \in {0, 1}
BY DEF Dst, DstHour

(* Reading a time of day in summer loses an hour, away from a change.      *)
LEMMA ReadTime ==
  ASSUME NEW h \in 0..23, NEW n \in Int, ~NearChange(n, 30)
  PROVE  ToTimeT(FromTimeString(h, n)) = 24 * Day(Utc(n)) + h - DstHour(n)
<1> DEFINE f == 24 * Day(Utc(n)) + h
<1>1. Utc(n) \in Int /\ Utc(n) = n + 6
  BY DEF Utc
<1>2. Day(Utc(n)) \in Int /\ f \in Int /\ f - n \in -29..29
  <2>1. /\ Day(Utc(n)) \in Int /\ HourOfDay(Utc(n)) \in 0..23
        /\ Utc(n) = 24 * Day(Utc(n)) + HourOfDay(Utc(n))
    BY <1>1, DayAndHour
  <2> QED BY <1>1, <2>1
<1>3. n - DstFirst \notin -30..30 /\ n - DstEnd \notin -30..30
  BY DEF NearChange
<1>4. Dst(f) = Dst(n) /\ Dst(f - 1) = Dst(n) /\ Dst(f - 2) = Dst(n)
  BY <1>2, <1>3, SMT DEF Dst
<1>5. CASE Dst(n)
  <2>1. Dst(f) /\ Dst(f - 1) /\ Dst(f - 2)
    BY <1>2, <1>4, <1>5
  <2>2. FromTimeString(h, n) = f - 2
    BY <1>2, <2>1 DEF FromTimeString, DateTime, Correction, isDaylightSavingTime, Mktime, DstHour
  <2>3. ToTimeT(f - 2) = f - 1
    BY <1>2, <2>1 DEF ToTimeT, Correction, isDaylightSavingTime, Mktime, DstHour
  <2>4. DstHour(n) = 1
    BY <1>5 DEF DstHour
  <2>5. ToTimeT(FromTimeString(h, n)) = f - 1
    BY <2>2, <2>3
  <2>6. 24 * Day(Utc(n)) + h - DstHour(n) = f - 1
    BY <1>2, <2>4 DEF f
  <2> QED BY <2>5, <2>6
<1>6. CASE ~Dst(n)
  <2>1. ~Dst(f)
    BY <1>2, <1>4, <1>6
  <2>2. FromTimeString(h, n) = f
    BY <1>2, <2>1 DEF FromTimeString, DateTime, Correction, isDaylightSavingTime, Mktime, DstHour
  <2>3. ToTimeT(f) = f
    BY <1>2, <2>1 DEF ToTimeT, Correction, isDaylightSavingTime, Mktime, DstHour
  <2>4. DstHour(n) = 0
    BY <1>6 DEF DstHour
  <2>5. ToTimeT(FromTimeString(h, n)) = f - 0
    BY <1>2, <2>2, <2>3
  <2> QED BY <1>2, <2>4, <2>5 DEF f
<1> QED BY <1>5, <1>6

(* A bar's time, away from a change: its time point counts standard time,  *)
(* and it is given back as the chart showed it.                            *)
LEMMA BarTime ==
  ASSUME NEW c \in Int, ~NearChange(c, 1)
  PROVE  /\ DateTime(ChartTime(c)) = c
         /\ ToTimeT(c) = ChartTime(c)
         /\ Localtime(ChartTime(c)) = ChartTime(c) + DstHour(c)
<1>1. c - DstFirst \notin -1..1 /\ c - DstEnd \notin -1..1
  BY DEF NearChange
<1>2. Dst(c + 1) = Dst(c)
  BY <1>1 DEF Dst
<1> QED BY <1>2 DEF DateTime, ToTimeT, Localtime, ChartTime, Correction, isDaylightSavingTime, Mktime, DstHour

(* The answer of IsTradingDay in the chart's own terms.                    *)
LEMMA TradingIs ==
  ASSUME ClockInv, Plain
  PROVE  Trading <=>
           /\ TodaysWindow # NoWindow
           /\ HourOfDay(Wall) >= TodaysWindow.open + DstHour(clock - lag) - DstHour(readAt)
           /\ HourOfDay(Wall) <= TodaysWindow.close + DstHour(clock - lag) - DstHour(readAt)
<1> DEFINE c == clock - lag
           day == Day(Wall)
           w == TodaysWindow
           summer == DstHour(c)
           read == DstHour(readAt)
<1>1. c \in Int /\ readAt \in Int /\ clock \in Int
  BY DEF ClockInv, ClockTypeOK
<1>2. /\ Wall \in Int /\ Wall = c + summer
      /\ summer \in {0, 1} /\ read \in {0, 1}
  BY <1>1, HourType DEF Wall, ChartTime
<1>3. current = c /\ ToTimeT(current) = Wall /\ Localtime(Wall) = Wall + summer
  BY <1>1, BarTime DEF ClockInv, Converted, Plain, Wall
<1>4. day \in Int /\ HourOfDay(Wall) \in 0..23 /\ Wall = 24 * day + HourOfDay(Wall)
  BY <1>2, DayAndHour
<1>5. Day(Wall + summer) = day
  <2>1. HourOfDay(Wall) + summer \in 0..23
    BY <1>1, <1>2, <1>4 DEF Plain, LastHourOfSummerDay, DstHour
  <2>2. Wall + summer = 24 * day + (HourOfDay(Wall) + summer)
    BY <1>2, <1>4
  <2>3. Day(24 * day + (HourOfDay(Wall) + summer)) = day
    BY <1>4, <2>1, DayAndHour
  <2> QED BY <2>2, <2>3
<1>6. GetDayOfWeek(current) = DayOfWeek(Wall)
  BY <1>3, <1>5 DEF GetDayOfWeek, DayOfWeek
<1>7. DayOfWeek(Wall) \in 0..Week-1
  BY <1>4 DEF DayOfWeek
<1>8. w \in SavedWindows \cup {NoWindow}
  BY <1>7 DEF ClockInv, ClockTypeOK, TodaysWindow
<1>9. GetTradingWindow(GetDayOfWeek(current))
        = IF w = NoWindow THEN NoTradingWindow ELSE TradingWindowFromJson(w, readAt)
  BY <1>6, <1>7 DEF ClockInv, Converted, GetTradingWindow, SessionSettingsFromJson, TodaysWindow
<1>10. CASE w = NoWindow
  BY <1>9, <1>10 DEF Trading, IsTradingDay, NoTradingWindow
<1>11. CASE w # NoWindow
  <2>1. w.open \in 0..23 /\ w.close \in 0..23
    BY <1>8, <1>11
  <2>2. \A h \in 0..23 : h - read \in 0..23 =>
          CombineDateAndTime(current, FromTimeString(h, readAt)) = 24 * day + (h - read)
    <3> TAKE h \in 0..23
    <3> HAVE h - read \in 0..23
    <3> DEFINE k == Day(Utc(readAt))
    <3>1. Utc(readAt) \in Int
      BY <1>1 DEF Utc
    <3>2. k \in Int
      BY <3>1, DayAndHour
    <3>3. ToTimeT(FromTimeString(h, readAt)) = 24 * k + h - read
      <4>1. ~NearChange(readAt, 30)
        BY DEF Plain
      <4> QED BY <1>1, <4>1, ReadTime
    <3>4. 24 * k + h - read = 24 * k + (h - read)
      BY <1>2, <3>2
    <3>5. HourOfDay(24 * k + (h - read)) = h - read
      BY <3>2, DayAndHour
    <3> QED BY <1>3, <3>3, <3>4, <3>5 DEF CombineDateAndTime, Mktime
  <2>3. w.open - read \in 0..23 /\ w.close - read \in 0..23
    BY <1>1, <1>2, <2>1 DEF Plain, WrapsAtMidnight, DstHour
  <2>4. /\ CombineDateAndTime(current, FromTimeString(w.open, readAt)) = 24 * day + (w.open - read)
        /\ CombineDateAndTime(current, FromTimeString(w.close, readAt)) = 24 * day + (w.close - read)
    BY <2>1, <2>2, <2>3
  <2>5. Trading <=> c >= 24 * day + (w.open - read) /\ c <= 24 * day + (w.close - read)
    BY <1>3, <1>9, <1>11, <2>4 DEF Trading, IsTradingDay, TradingWindowFromJson
  <2>6. c = 24 * day + HourOfDay(Wall) - summer
    BY <1>1, <1>2, <1>4
  <2> QED BY <1>2, <1>4, <1>11, <2>1, <2>5, <2>6
<1> QED BY <1>10, <1>11

-----------------------------------------------------------------------------
LEMMA TimesAreInts ==
  ASSUME NEW t \in Int, NEW h \in 0..23
  PROVE  /\ ChartTime(t) \in Int /\ DateTime(t) \in Int /\ FromTimeString(h, t) \in Int
<1>1. Utc(t) \in Int
  BY DEF Utc
<1>2. Day(Utc(t)) \in Int
  BY <1>1, DayAndHour
<1> QED BY <1>2 DEF ChartTime, DateTime, FromTimeString, Correction, isDaylightSavingTime, Mktime, DstHour

LEMMA SettingsType ==
  ASSUME NEW n \in Int, NEW s \in [0..Week-1 -> SavedWindows \cup {NoWindow}]
  PROVE  SessionSettingsFromJson(s, n)
           \in [0..Week-1 -> [given : BOOLEAN, startTime : Int, endTime : Int]]
<1>1. ASSUME NEW w \in SavedWindows
      PROVE  TradingWindowFromJson(w, n) \in [given : BOOLEAN, startTime : Int, endTime : Int]
  BY <1>1, TimesAreInts DEF TradingWindowFromJson
<1>2. NoTradingWindow \in [given : BOOLEAN, startTime : Int, endTime : Int]
  BY DEF NoTradingWindow
<1> QED BY <1>1, <1>2 DEF SessionSettingsFromJson

LEMMA ClockInvInit == ClockInit => ClockInv
<1> SUFFICES ASSUME ClockInit PROVE ClockInv
  OBVIOUS
<1>1. clock \in Int /\ clock - lag \in Int /\ readAt = clock
  BY DEF ClockInit
<1>2. ChartTime(clock - lag) \in Int
  BY <1>1, TimesAreInts
<1>3. DateTime(ChartTime(clock - lag)) \in Int
  BY <1>2, TimesAreInts
<1>4. SessionSettingsFromJson(saved, clock)
        \in [0..Week-1 -> [given : BOOLEAN, startTime : Int, endTime : Int]]
  BY <1>1, SettingsType DEF ClockInit
<1>5. clock \in 0..LastHour /\ readAt \in 0..clock
  BY DEF ClockInit
<1> QED BY <1>3, <1>4, <1>5 DEF ClockInit, ClockInv, ClockTypeOK, Converted

LEMMA ClockInvNext == ClockInv /\ [ClockNext]_clockVars => ClockInv'
<1> SUFFICES ASSUME ClockInv, [ClockNext]_clockVars PROVE ClockInv'
  OBVIOUS
<1> USE DEF ClockInv, Converted
<1>1. CASE ManageSession
  <2>1. clock' - lag \in Int
    BY <1>1 DEF ClockTypeOK, ManageSession
  <2>2. ChartTime(clock' - lag) \in Int
    BY <2>1, TimesAreInts
  <2>3. current' \in Int
    BY <1>1, <2>2, TimesAreInts DEF ManageSession
  <2>4. clock' \in 0..LastHour /\ readAt' \in 0..clock'
    BY <1>1 DEF ClockTypeOK, ManageSession
  <2> QED BY <1>1, <2>3, <2>4 DEF ClockTypeOK, ManageSession
<1>2. CASE FetchTradingSystemCallback
  <2>1. settings' \in [0..Week-1 -> [given : BOOLEAN, startTime : Int, endTime : Int]]
    <3>1. clock \in Int /\ saved \in [0..Week-1 -> SavedWindows \cup {NoWindow}]
      BY DEF ClockTypeOK
    <3>2. settings' = SessionSettingsFromJson(saved, clock)
      BY <1>2 DEF FetchTradingSystemCallback
    <3> QED BY <3>1, <3>2, SettingsType
  <2> QED BY <1>2, <2>1 DEF ClockTypeOK, FetchTradingSystemCallback
<1>3. CASE UNCHANGED clockVars
  BY <1>3 DEF ClockTypeOK, clockVars
<1> QED BY <1>1, <1>2, <1>3 DEF ClockNext

LEMMA ClockInvHolds == ClockSpec => []ClockInv
BY ClockInvInit, ClockInvNext, PTL DEF ClockSpec

(* Every variable keeps its type: converted times are whole hours.         *)
THEOREM ClockTypes == ClockSpec => []ClockTypeOK
<1>1. ClockInv => ClockTypeOK
  BY DEF ClockInv
<1> QED BY <1>1, ClockInvHolds, PTL

LEMMA WindowHours ==
  ASSUME ClockInv, TodaysWindow # NoWindow
  PROVE  TodaysWindow.open \in 0..23 /\ TodaysWindow.close \in 0..23
<1>1. Wall \in Int
  BY TimesAreInts DEF ClockInv, ClockTypeOK, Wall
<1>2. Day(Wall) \in Int
  BY <1>1, DayAndHour
<1>3. DayOfWeek(Wall) \in 0..Week-1
  BY <1>2 DEF DayOfWeek
<1> QED BY <1>3 DEF ClockInv, ClockTypeOK, TodaysWindow

(* The window a user saved is the window traded in, while the chart is in  *)
(* the season it was read in (IsTradingDay, CombineDateAndTime).           *)
THEOREM WindowIsKept == ClockSpec => []WindowKeptInSeason
<1>1. ClockInv => WindowKeptInSeason
  <2> SUFFICES ASSUME ClockInv, Plain, Dst(readAt) = Dst(clock - lag)
               PROVE  Trading <=> Inside(0, 0)
    BY DEF WindowKeptInSeason
  <2>1. TodaysWindow # NoWindow => TodaysWindow.open \in 0..23 /\ TodaysWindow.close \in 0..23
    BY WindowHours
  <2>2. DstHour(readAt) = DstHour(clock - lag) /\ DstHour(readAt) \in {0, 1}
    BY DEF DstHour
  <2>3. TodaysWindow # NoWindow =>
          /\ TodaysWindow.open + DstHour(clock - lag) - DstHour(readAt) = TodaysWindow.open
          /\ TodaysWindow.close + DstHour(clock - lag) - DstHour(readAt) = TodaysWindow.close
          /\ TodaysWindow.open - 0 = TodaysWindow.open
          /\ TodaysWindow.close + 0 = TodaysWindow.close
    BY <2>1, <2>2
  <2> QED BY <2>1, <2>3, TradingIs DEF Inside
<1> QED BY <1>1, ClockInvHolds, PTL

(* Reading or trading in the other season moves the window by one hour and *)
(* not by more, however often it is fetched.                               *)
THEOREM WindowMovesALittle == ClockSpec => []WindowMovesByAnHour
<1>1. ClockInv => WindowMovesByAnHour
  <2> SUFFICES ASSUME ClockInv, Plain
               PROVE  (Trading => Inside(1, 1)) /\ (Inside(-1, -1) => Trading)
    BY DEF WindowMovesByAnHour
  <2>1. DstHour(readAt) \in {0, 1} /\ DstHour(clock - lag) \in {0, 1}
    BY HourType DEF ClockInv, ClockTypeOK
  <2>2. Wall \in Int
    BY TimesAreInts DEF ClockInv, ClockTypeOK, Wall
  <2>3. HourOfDay(Wall) \in 0..23
    BY <2>2, DayAndHour
  <2> QED BY <2>1, <2>3, TradingIs, WindowHours DEF Inside
<1> QED BY <1>1, ClockInvHolds, PTL

(* Bars' time points advance as time does (DateTime's constructor): a step *)
(* that ends or begins in the last hour of summer time is the exception.   *)
THEOREM TimeIsReal == ClockSpec => ElapsedTimeIsReal
<1>1. ASSUME NEW c \in Int, c # DstEnd - 1
      PROVE  DateTime(ChartTime(c)) = c
  BY <1>1 DEF DateTime, ChartTime, Correction, isDaylightSavingTime, Mktime, Dst, DstHour
<1>2. ClockInv /\ ClockInv' /\ [ClockNext]_clockVars
        => [clock - lag # DstEnd - 1 /\ clock' - lag # DstEnd - 1 => current' - current = clock' - clock]_clockVars
  <2> SUFFICES ASSUME ClockInv, ClockInv', [ClockNext]_clockVars, clock - lag # DstEnd - 1, clock' - lag # DstEnd - 1
               PROVE  current' - current = clock' - clock
    OBVIOUS
  <2>1. clock \in Int /\ clock' \in Int /\ lag \in Int /\ lag' = lag
    BY DEF ClockInv, ClockTypeOK, ClockNext, ManageSession, FetchTradingSystemCallback, clockVars
  <2>2. current = clock - lag
    BY <1>1, <2>1 DEF ClockInv, Converted
  <2>3. current' = clock' - lag
    <3>1. current' = DateTime(ChartTime(clock' - lag'))
      BY DEF ClockInv, Converted
    <3>2. clock' - lag \in Int
      BY <2>1
    <3>3. DateTime(ChartTime(clock' - lag)) = clock' - lag
      BY <1>1, <3>2
    <3> QED BY <2>1, <3>1, <3>3
  <2> QED BY <2>1, <2>2, <2>3
<1> QED BY <1>2, ClockInvHolds, PTL DEF ClockSpec, ElapsedTimeIsReal
=============================================================================
