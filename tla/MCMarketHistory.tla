--------------------------- MODULE MCMarketHistory ---------------------------
(* Four candles in three months, two of them in the first, the last one     *)
(* after the start; the trading cycle scans, the status requests repair; an *)
(* old-layout file holds the first candle.                                  *)
EXTENDS MarketHistory

MCPartOf(t) == IF t =< 2 THEN 1 ELSE t - 1
MCDoes == [a \in {"cycle", "status"} |-> IF a = "cycle" THEN {"scan"} ELSE {"repair"}]
=============================================================================
