----------------------------- MODULE TradingClock -----------------------------
(***************************************************************************)
(* The trading window, from the "HH:MM" a user saves to the answer of      *)
(* ContextManager::IsTradingDay. The chart's times are Chicago wall clock  *)
(* times handed over as if they were UTC; DateTime takes an hour off them  *)
(* in summer and puts it back, with calls of mktime and gmtime that mean   *)
(* something else. The window is converted when it is fetched, the chart's *)
(* time when a bar comes: in between, the clocks may change, and in a      *)
(* replay the chart is in another season altogether.                       *)
(*                                                                         *)
(* Times are whole hours, counted in standard time from the start of a     *)
(* day 0; minutes take part in no step. Once TradeSystem::Initialize has   *)
(* set TZ=America/Chicago, the C runtime reads no number in that name: it  *)
(* takes 0 for the zone's distance from UTC and changes the clocks by the  *)
(* rule of the United States.                                              *)
(***************************************************************************)
EXTENDS Integers

CONSTANTS
  DstFirst, DstEnd, \* summer time is in force from DstFirst on and before DstEnd
  LastHour,         \* bound on the clock
  Lags,             \* how far the chart may be behind: 0 live, the past in a replay
  Week,             \* days of a week, 7
  SavedWindows      \* the [open, close] hours users save

NoWindow == [open |-> -1, close |-> -1]

ASSUME TradingClockAssumption ==
  /\ DstFirst \in Int /\ DstEnd \in Int /\ DstFirst + 48 < DstEnd
  /\ LastHour \in Nat /\ Lags \subseteq Nat /\ Week \in Nat \ {0}
  /\ SavedWindows \subseteq [open : 0..23, close : 0..23]

VARIABLES
  clock,    \* the wall clock
  lag,      \* how far the chart is behind it, fixed while the chart runs
  saved,    \* the window saved in the database for every day of the week
  settings, \* sessionSettings of ParameterManager's trading system: time points
  readAt,   \* history: when the settings were converted
  current   \* ManageSession's currentTime

clockVars == <<clock, lag, saved, settings, readAt, current>>

-----------------------------------------------------------------------------
(* The C runtime, for a time t counted in hours of its own standard time.  *)
Dst(t) == DstFirst <= t /\ t < DstEnd
DstHour(t) == IF Dst(t) THEN 1 ELSE 0
Localtime(t) == t + DstHour(t)
Mktime(fields) == fields          \* tm_isdst = 0, as gmtime leaves it
Day(t) == t \div 24
HourOfDay(t) == t % 24

(* What the chart's clock shows, and UTC.                                  *)
ChartTime(n) == n + DstHour(n)
Utc(n) == n + 6

-----------------------------------------------------------------------------
(* DateTime: a time point, made of what the chart shows or of a time of    *)
(* day, and given back. mktime is called twice; the second call undoes the *)
(* hour the first has added in summer.                                     *)
isDaylightSavingTime(fields) == Dst(Mktime(fields))
Correction(fields) == IF isDaylightSavingTime(fields) THEN 1 ELSE 0
DateTimeUnshifted(time) == Mktime(time)
DateTime(time) == Mktime(time - Correction(time))
ToTimeTOnce(timePoint) == Mktime(timePoint)
ToTimeT(timePoint) == Mktime(timePoint + Correction(timePoint))

(* The time of day on the current UTC date; in summer an hour is taken off *)
(* here and once more by the constructor.                                  *)
FromTimeStringOnce(hour, n) ==
  LET fields == 24 * Day(Utc(n)) + hour IN Mktime(fields - Correction(fields))
FromTimeString(hour, n) ==
  LET fields == 24 * Day(Utc(n)) + hour
  IN  DateTime(Mktime(fields - Correction(fields)))

DayOfWeek(time) == Day(time) % Week
GetDayOfWeek(timePoint) == DayOfWeek(Localtime(ToTimeT(timePoint)))

-----------------------------------------------------------------------------
(* TradingWindow and SessionSettings.                                      *)
CombineDateAndTime(datePart, timePart) ==
  Mktime(24 * Day(ToTimeT(datePart)) + HourOfDay(ToTimeT(timePart)))

NoTradingWindow == [given |-> FALSE, startTime |-> 0, endTime |-> 0]
TradingWindowFromJson(w, n) ==
  [given |-> TRUE,
   startTime |-> FromTimeString(w.open, n), endTime |-> FromTimeString(w.close, n)]
SessionSettingsFromJson(windows, n) ==
  [d \in 0..Week-1 |-> IF windows[d] = NoWindow THEN NoTradingWindow
                                                ELSE TradingWindowFromJson(windows[d], n)]
GetTradingWindow(d) == settings[d]

IsTradingDay(time) ==
  LET w == GetTradingWindow(GetDayOfWeek(time))
  IN  /\ w.given
      /\ time >= CombineDateAndTime(time, w.startTime)
      /\ time <= CombineDateAndTime(time, w.endTime)

-----------------------------------------------------------------------------
ClockInit ==
  /\ clock = 0
  /\ lag \in Lags
  /\ saved \in [0..Week-1 -> SavedWindows \cup {NoWindow}]
  /\ settings = SessionSettingsFromJson(saved, clock)
  /\ readAt = clock
  /\ current = DateTime(ChartTime(clock - lag))

(* An hour passes and a bar calls ManageSession.                           *)
ManageSession ==
  /\ clock < LastHour
  /\ clock' = clock + 1
  /\ current' = DateTime(ChartTime(clock' - lag))
  /\ UNCHANGED <<lag, saved, settings, readAt>>

(* The trading system is fetched again: it is converted anew.              *)
FetchTradingSystemCallback ==
  /\ settings' = SessionSettingsFromJson(saved, clock)
  /\ readAt' = clock
  /\ UNCHANGED <<clock, lag, saved, current>>

ClockNext == ManageSession \/ FetchTradingSystemCallback

ClockSpec == ClockInit /\ [][ClockNext]_clockVars

-----------------------------------------------------------------------------
ClockTypeOK ==
  /\ clock \in 0..LastHour /\ readAt \in 0..clock /\ lag \in Lags
  /\ saved \in [0..Week-1 -> SavedWindows \cup {NoWindow}]
  /\ settings \in [0..Week-1 -> [given : BOOLEAN, startTime : Int, endTime : Int]]
  /\ current \in Int

(* What ManageSession decides, and the chart's wall clock and its window.  *)
Trading == IsTradingDay(current)
Wall == ChartTime(clock - lag)
TodaysWindow == saved[DayOfWeek(Wall)]
Inside(before, after) ==
  /\ TodaysWindow # NoWindow
  /\ TodaysWindow.open - before <= HourOfDay(Wall)
  /\ HourOfDay(Wall) <= TodaysWindow.close + after

(* Where the conversions are known to be wrong, each for a reason of its   *)
(* own: the last hour of a summer day already belongs to the next weekday  *)
(* (GetDayOfWeek); a time in the hour after midnight wraps to the day's    *)
(* end when it is read in summer (CombineDateAndTime); and the hours around*)
(* a change of the clocks, more of them for the reading, which puts the    *)
(* time of day on the date in UTC.                                         *)
LastHourOfSummerDay == Dst(clock - lag) /\ HourOfDay(Wall) = 23
WrapsAtMidnight == Dst(readAt) /\ (TodaysWindow.open = 0 \/ TodaysWindow.close = 0)
NearChange(n, hours) == \E c \in {DstFirst, DstEnd} : n - c \in -hours..hours
Plain ==
  /\ ~LastHourOfSummerDay /\ ~WrapsAtMidnight
  /\ ~NearChange(clock - lag, 1) /\ ~NearChange(readAt, 30)

(* Trading happens in the saved window exactly, as long as the window was  *)
(* converted in the season the chart is in (CombineDateAndTime,            *)
(* FromTimeString and DateTime's constructor undo each other).             *)
WindowKeptInSeason ==
  Plain /\ Dst(readAt) = Dst(clock - lag) => (Trading <=> Inside(0, 0))

(* After a change of season, until the next fetch, or in a replay of the   *)
(* other season, the window moves by one hour and never by more, however   *)
(* often it is fetched.                                                    *)
WindowMovesByAnHour == Plain => /\ Trading => Inside(1, 1)
                                /\ Inside(-1, -1) => Trading

(* Time points of bars advance as time does, so that intervals between     *)
(* them are real: but for the last hour of summer time, which the chart's  *)
(* clock shows twice.                                                      *)
ElapsedTimeIsReal ==
  [][clock - lag # DstEnd - 1 /\ clock' - lag # DstEnd - 1 => current' - current = clock' - clock]_clockVars
=============================================================================
