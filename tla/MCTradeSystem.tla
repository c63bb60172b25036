----------------------------- MODULE MCTradeSystem -----------------------------
(* The trade iteration on two pending orders and two order ids: a batch,    *)
(* and a second cycle that meets the orders of the first.                   *)
EXTENDS TradeSystem
=============================================================================
