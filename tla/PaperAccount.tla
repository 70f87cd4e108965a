---------------------------- MODULE PaperAccount ----------------------------
(***************************************************************************)
(* What the paper account promises, without saying how orders are filled:  *)
(* money leaves the free balance only into the stake of one symbol, and    *)
(* comes back out of a stake with the difference booked as realised profit *)
(* or loss and as a trade of the journal.  Nothing is promised once the    *)
(* account was loaded with a position it did not pay for or that its       *)
(* validator refuses.                                                      *)
(***************************************************************************)
EXTENDS Integers

CONSTANTS
    Symbol,         \* the traded symbols
    StartingCash    \* config.startingCash

VARIABLES
    cash,       \* the free balance
    stake,      \* the cost still tied up in each symbol
    realized,   \* the realised profit or loss
    booked,     \* the profit or loss of the trades in the journal
    sound       \* the account was loaded with positions of its own only

account == <<cash, stake, realized, booked, sound>>

Init ==
    /\ cash = StartingCash
    /\ realized = 0
    /\ booked = 0
    /\ sound \in BOOLEAN
    /\ sound => stake = [s \in Symbol |-> 0]

Others(s) == \A t \in Symbol \ {s} : stake'[t] = stake[t]

(* A purchase turns free money into the stake of a symbol that had none.   *)
Buy(s) ==
    /\ stake[s] = 0
    /\ stake'[s] = cash - cash'
    /\ 0 <= cash' /\ cash' < cash
    /\ realized' = realized /\ booked' = booked
    /\ Others(s)

(* A sale releases part of a stake; what was received beyond it is profit. *)
Sell(s) ==
    /\ 0 <= stake'[s] /\ stake'[s] <= stake[s]
    /\ cash' >= cash
    /\ realized' - realized = (cash' - cash) - (stake[s] - stake'[s])
    /\ booked' - booked = realized' - realized
    /\ Others(s)

Next ==
    /\ sound' = sound
    /\ sound => \E s \in Symbol : Buy(s) \/ Sell(s)

Spec == Init /\ [][Next]_account

=============================================================================
