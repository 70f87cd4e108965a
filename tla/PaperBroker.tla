----------------------------- MODULE PaperBroker ----------------------------
(***************************************************************************)
(* The internal paper broker (execution/paperBroker.js) as the trading     *)
(* cycle drives it: the review of open positions with its stop moves,      *)
(* scale-outs and exits, then the scan and the loop over the allowed       *)
(* candidates, with the rotation of a weaker position before an entry      *)
(* (manageOpenPositions and openBestCandidate of runtime/tradingBot.js).   *)
(*                                                                         *)
(* Amounts are integers: a price is the price of one lot, a fee is rounded *)
(* down.  A position may have been loaded from disk: one without an id or  *)
(* an entry time, which the validator refuses, or one that was opened on   *)
(* the Binance demo venue and is not this broker's.                        *)
(***************************************************************************)
EXTENDS Integers, FiniteSets, FiniteSetsExt

CONSTANTS
    Symbol,         \* the traded symbols
    Price,          \* the prices of one lot
    QuoteAmount,    \* the amounts the sizing may ask for
    StartingCash,   \* config.startingCash
    FeePercent,     \* paperFeeBps, in percent
    MinQty, MinNotional,    \* the symbol's filters
    TrailOffset,    \* scaleOutTrailOffsetPct, as an amount
    MaxOpenPositions,       \* config.maxOpenPositions
    MaxFills        \* bound: fills of a behaviour

ASSUME PaperAssumption ==
    /\ Price \subseteq Nat \ {0} /\ QuoteAmount \subseteq Nat
    /\ StartingCash \in Nat /\ TrailOffset \in Nat
    /\ FeePercent \in 0..100
    /\ MinQty \in Nat \ {0} /\ MinNotional \in Nat
    /\ MaxOpenPositions \in Nat /\ MaxFills \in Nat

VARIABLES
    quoteFree, feesPaid, realizedPnl,   \* runtime.paperPortfolio
    positions,  \* runtime.openPositions, by symbol
    journal,    \* the profit the trades and scale-outs of the journal add up to
    allowed,    \* candidates of this cycle not yet tried
    turn,       \* the candidate the entry loop is at
    fills,      \* bound: fills so far
    sound       \* history: what was loaded was valid and this broker's own

portfolio == <<quoteFree, feesPaid, realizedPnl>>
entryLoop == <<allowed, turn>>
vars == <<portfolio, positions, journal, entryLoop, fills, sound>>

Flat == [venue |-> "none"]
NoTurn == [stage |-> "none"]
Held == {s \in Symbol : positions[s] # Flat}

Position ==
    [venue : {"internal", "demo"}, valid : BOOLEAN, entryPrice : Price,
     quantity : Nat \ {0}, totalCost : Nat, entryFee : Nat, stop : Nat,
     scaledOut : BOOLEAN]

Fee(notional) == (notional * FeePercent) \div 100

(* The start: an empty account, or one position loaded from a state file.  *)
(* Loading checks that openPositions is a list, not what is in it.         *)
Legacy(p) ==
    [venue : {"internal"}, valid : {FALSE}, entryPrice : {p}, quantity : {2},
     totalCost : {2 * p}, entryFee : {0}, stop : {0}, scaledOut : {FALSE}]
    \cup
    [venue : {"demo"}, valid : {TRUE}, entryPrice : {p}, quantity : {2},
     totalCost : {2 * p}, entryFee : {0}, stop : {0}, scaledOut : {FALSE}]

Init ==
    /\ quoteFree = StartingCash /\ feesPaid = 0 /\ realizedPnl = 0
    /\ journal = 0
    /\ allowed = {} /\ turn = NoTurn
    /\ fills = 0
    /\ \/ /\ sound = TRUE
          /\ positions = [s \in Symbol |-> Flat]
       \/ /\ sound = FALSE
          /\ \E s \in Symbol, p \in Price : \E q \in Legacy(p) :
                positions = [t \in Symbol |-> IF t = s THEN q ELSE Flat]

-----------------------------------------------------------------------------
(* The parts of the broker.                                                *)

(* validatePaperPortfolioState, called after the money has moved: it looks *)
(* at every stored paper position, not only at the one being traded.       *)
PortfolioValid(held) == \A s \in Symbol : held[s] # Flat => held[s].valid

(* A market order fills whole, a maker order may fill in part.             *)
simulatePaperFill(requested, maker) == IF maker THEN 0..requested ELSE {requested}

(* Lots the quote amount buys, if the filters accept it; what was filled   *)
(* is brought back to the smallest lot when it is less.                    *)
resolvePaperBuySize(quote, price, maker) ==
    LET requested == quote \div price
    IN IF requested < MinQty \/ requested * price < MinNotional THEN {}
       ELSE {Max({MinQty, filled}) : filled \in simulatePaperFill(requested, maker)}

Bought(price, quantity) ==
    LET notional == quantity * price
    IN [venue |-> "internal", valid |-> TRUE, entryPrice |-> price,
        quantity |-> quantity, totalCost |-> notional + Fee(notional),
        entryFee |-> Fee(notional), stop |-> price - 1, scaledOut |-> FALSE]

(* The share of a position's cost that belongs to a sold quantity.         *)
Share(amount, sold, quantity) == (amount * sold) \div quantity

(* What a sale of so many lots, which had cost so much, does to the money. *)
Credit(quantity, price, cost) ==
    LET gross == quantity * price
        netProceeds == gross - Fee(gross)
    IN /\ quoteFree' = quoteFree + netProceeds
       /\ feesPaid' = feesPaid + Fee(gross)
       /\ realizedPnl' = realizedPnl + (netProceeds - cost)
       /\ fills' = fills + 1

-----------------------------------------------------------------------------
(* exitPosition: a market order, filled whole.  The account is credited    *)
(* before the portfolio is validated; a refusal leaves the position open   *)
(* and the trade unreported.                                               *)

Sold(s) ==
    /\ positions' = [positions EXCEPT ![s] = Flat]
    /\ journal' = journal + (realizedPnl' - realizedPnl)

exitPosition(s, price) ==
    /\ Credit(positions[s].quantity, price, positions[s].totalCost)
    /\ IF PortfolioValid(positions)
       THEN Sold(s)
       ELSE UNCHANGED <<positions, journal>>

(* Seeded bug: the cost of the part that was sold stays with the rest.     *)
Remaining_KeepsCost(q, sold) ==
    [q EXCEPT !.quantity = @ - sold,
              !.entryFee = @ - Share(@, sold, q.quantity),
              !.scaledOut = TRUE,
              !.stop = Max({@, q.entryPrice + TrailOffset})]

(* Seeded bug: the stop is set below the entry, wherever it was.           *)
Remaining_LoosensStop(q, sold) ==
    [q EXCEPT !.quantity = @ - sold,
              !.totalCost = @ - Share(@, sold, q.quantity),
              !.entryFee = @ - Share(@, sold, q.quantity),
              !.scaledOut = TRUE,
              !.stop = q.entryPrice - 1]

Remaining(q, sold) ==
    [q EXCEPT !.quantity = @ - sold,
              !.totalCost = @ - Share(@, sold, q.quantity),
              !.entryFee = @ - Share(@, sold, q.quantity),
              !.scaledOut = TRUE,
              !.stop = Max({@, q.entryPrice + TrailOffset})]

scaleOutPosition(s, sold, price) ==
    LET q == positions[s]
    IN /\ Credit(sold, price, Share(q.totalCost, sold, q.quantity))
       /\ IF PortfolioValid(positions)
          THEN /\ positions' = [positions EXCEPT ![s] = Remaining(q, sold)]
               /\ journal' = journal + (realizedPnl' - realizedPnl)
          ELSE UNCHANGED <<positions, journal>>

(* enterPosition: refused before anything moved, or booked.  The portfolio *)
(* is validated after the position was stored: a refusal then reports a    *)
(* failed entry that did take place.                                       *)
enterPosition(s, price, quantity) ==
    LET q == Bought(price, quantity)
    IN /\ q.totalCost <= quoteFree
       /\ quoteFree' = quoteFree - q.totalCost
       /\ feesPaid' = feesPaid + q.entryFee
       /\ positions' = [positions EXCEPT ![s] = q]
       /\ fills' = fills + 1
       /\ UNCHANGED <<realizedPnl, journal>>

-----------------------------------------------------------------------------
(* manageOpenPositions, for a position of this broker's venue.             *)

Managing(s) ==
    /\ allowed = {} /\ turn = NoTurn
    /\ positions[s] # Flat /\ positions[s].venue = "internal"
    /\ UNCHANGED <<entryLoop, sound>>

TightenStop(s) ==
    /\ Managing(s)
    /\ \E mid \in Price : \E stop \in (positions[s].stop + 1)..(mid - 1) :
          positions' = [positions EXCEPT ![s].stop = stop]
    /\ UNCHANGED <<portfolio, journal, fills>>

(* risk.evaluateExit proposes one scale-out in the life of a position.     *)
ScaleOut(s) ==
    /\ Managing(s)
    /\ fills < MaxFills
    /\ ~positions[s].scaledOut
    /\ \E price \in Price, sold \in 1..(positions[s].quantity - 1) :
          scaleOutPosition(s, sold, price)

Exit(s) ==
    /\ Managing(s)
    /\ fills < MaxFills
    /\ \E price \in Price : exitPosition(s, price)

-----------------------------------------------------------------------------
(* The scan and the loop over the candidates it allows.                    *)

(* evaluatePositionGuards: positions of every paper venue count.           *)
evaluatePositionGuards(s) ==
    /\ Cardinality(Held) < MaxOpenPositions
    /\ s \notin Held

Scan ==
    /\ allowed = {} /\ turn = NoTurn
    /\ allowed' \in SUBSET {s \in Symbol : evaluatePositionGuards(s)}
    /\ UNCHANGED <<portfolio, positions, journal, turn, fills, sound>>

(* The loop takes the next candidate, or passes over it.                   *)
Consider(s) ==
    /\ turn = NoTurn /\ s \in allowed
    /\ allowed' = allowed \ {s}
    /\ turn' \in {NoTurn, [stage |-> "rotate", symbol |-> s]}
    /\ UNCHANGED <<portfolio, positions, journal, fills, sound>>

(* Nothing to rotate, or the position to replace is gone already.          *)
NoRotation ==
    /\ turn.stage = "rotate"
    /\ turn' = [turn EXCEPT !.stage = "enter"]
    /\ UNCHANGED <<portfolio, positions, journal, allowed, fills, sound>>

(* rotatePaperPositionForCandidate: the position to replace is looked up   *)
(* by its symbol among all open positions, whatever their venue.  A failed *)
(* rotation gives the candidate up.                                        *)
Rotate(r) ==
    /\ turn.stage = "rotate"
    /\ r \in Held
    /\ fills < MaxFills
    /\ \E price \in Price : exitPosition(r, price)
    /\ turn' = IF PortfolioValid(positions)
               THEN [turn EXCEPT !.stage = "enter"] ELSE NoTurn
    /\ UNCHANGED <<allowed, sound>>

(* A failure before the exit was sent: no rules or no market data.         *)
RotationFails ==
    /\ turn.stage = "rotate"
    /\ Held # {}
    /\ turn' = NoTurn
    /\ UNCHANGED <<portfolio, positions, journal, allowed, fills, sound>>

(* Seeded bug: the loop goes on after an entry that succeeded.             *)
AfterEntry_GoesOn == allowed' = allowed

(* A success ends the loop; a reported failure goes on to the next one.    *)
AfterEntry == allowed' = IF PortfolioValid(positions) THEN {} ELSE allowed

Enter ==
    /\ turn.stage = "enter"
    /\ fills < MaxFills
    /\ \E price \in Price, quote \in QuoteAmount, maker \in BOOLEAN :
          \E quantity \in resolvePaperBuySize(quote, price, maker) :
             enterPosition(turn.symbol, price, quantity)
    /\ turn' = NoTurn
    /\ AfterEntry
    /\ UNCHANGED sound

(* Too small for the filters, or more than the free balance.               *)
EntryRejected ==
    /\ turn.stage = "enter"
    /\ \E price \in Price, quote \in QuoteAmount, maker \in BOOLEAN :
          LET sizes == resolvePaperBuySize(quote, price, maker)
          IN \/ sizes = {}
             \/ \E quantity \in sizes : Bought(price, quantity).totalCost > quoteFree
    /\ turn' = NoTurn
    /\ UNCHANGED <<portfolio, positions, journal, allowed, fills, sound>>

Next ==
    \/ \E s \in Symbol : TightenStop(s)
    \/ \E s \in Symbol : ScaleOut(s)
    \/ \E s \in Symbol : Exit(s)
    \/ Scan
    \/ \E s \in Symbol : Consider(s)
    \/ NoRotation
    \/ \E s \in Symbol : Rotate(s)
    \/ RotationFails
    \/ Enter
    \/ EntryRejected

Spec == Init /\ [][Next]_vars

-----------------------------------------------------------------------------
TypeOK ==
    /\ quoteFree \in Nat /\ feesPaid \in Nat /\ realizedPnl \in Int
    /\ positions \in [Symbol -> Position \cup {Flat}]
    /\ journal \in Int
    /\ allowed \subseteq Symbol
    /\ turn \in [stage : {"rotate", "enter"}, symbol : Symbol] \cup {NoTurn}
    /\ fills \in Nat
    /\ sound \in BOOLEAN

(* The account is an account: every amount that leaves paperPortfolio      *)
(* .quoteFree is the cost of a position, every sale releases the cost of   *)
(* what was sold and books the rest, in the balance and in the journal,    *)
(* whatever mix of partial buys, scale-outs, exits and rotations the       *)
(* cycles make.                                                            *)
Account == INSTANCE PaperAccount WITH
    cash <- quoteFree,
    stake <- [s \in Symbol |-> IF positions[s] = Flat THEN 0 ELSE positions[s].totalCost],
    realized <- realizedPnl,
    booked <- journal

AccountKept == Account!Spec

(* The limit on open positions, checked when the candidates are scanned,   *)
(* still holds after the entry loop of openBestCandidate tried them.       *)
WithinMaxOpenPositions == sound => Cardinality(Held) <= MaxOpenPositions

(* No review, scale-out or repeated attempt lowers the stop of a position  *)
(* that stays open (manageOpenPositions, scaleOutPosition).                *)
StopNeverLoosens ==
    [][\A s \in Symbol :
          positions[s] # Flat /\ positions'[s] # Flat
             => positions'[s].stop >= positions[s].stop]_vars

=============================================================================
