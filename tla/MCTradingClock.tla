---------------------------- MODULE MCTradingClock ----------------------------
(* A year of seven days with summer time in the middle of it, weeks of two   *)
(* days, a chart that is live or replays one of the other season.            *)
EXTENDS TradingClock

MCLags == {0, 72}
MCWindows == {[open |-> 8, close |-> 15], [open |-> 0, close |-> 5], [open |-> 20, close |-> 23]}
=============================================================================
