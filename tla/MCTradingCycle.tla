--------------------------- MODULE MCTradingCycle ---------------------------
EXTENDS TradingCycle

CONSTANTS btc, eth

Plain == [sync |-> "ok", partial |-> FALSE, strayOrder |-> FALSE, priceOff |-> FALSE,
          flat |-> FALSE, recent |-> FALSE, aboveCap |-> FALSE, quantity |-> "same",
          lists |-> 1]

(* One piece of evidence per rule of the classifier.                       *)
TroubleByRule ==
    {[Plain EXCEPT !.sync = "retryable"],
     [Plain EXCEPT !.sync = "failed"],
     [Plain EXCEPT !.partial = TRUE],
     [Plain EXCEPT !.flat = TRUE, !.recent = TRUE, !.lists = 0],
     [Plain EXCEPT !.quantity = "large"],
     [Plain EXCEPT !.lists = 0]}

=============================================================================
