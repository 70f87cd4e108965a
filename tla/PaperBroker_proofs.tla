-------------------------- MODULE PaperBroker_proofs -------------------------
(***************************************************************************)
(* Proofs about PaperBroker, for any set of symbols, prices and amounts,   *)
(* any fees and filters and any number of fills: its types, the limit on   *)
(* open positions, that stops never loosen, and that it implements         *)
(* PaperAccount.                                                           *)
(***************************************************************************)
EXTENDS PaperBroker, FiniteSetTheorems, TLAPS

(* The candidates of the entry loop are not held, whatever was loaded.     *)
CandidatesNotHeld ==
    /\ allowed \cap Held = {}
    /\ turn # NoTurn => turn.symbol \notin Held \cup allowed

(* What the entry loop relies on between the scan and the entry, for an    *)
(* account that was loaded with nothing or with valid positions of its own:*)
(* there is room for one more.  One success ends the loop, so room for one *)
(* is enough.                                                              *)
RoomForOne ==
    allowed # {} \/ turn # NoTurn => Cardinality(Held) < MaxOpenPositions
LoopInv == sound =>
    /\ PortfolioValid(positions)
    /\ IsFiniteSet(Held) /\ Cardinality(Held) <= MaxOpenPositions
    /\ RoomForOne

IInv == TypeOK /\ CandidatesNotHeld /\ LoopInv

-----------------------------------------------------------------------------
(* Arithmetic of amounts.                                                  *)
LEMMA Product == \A a, b \in Nat : a * b \in Nat
OBVIOUS

LEMMA ProductMono ==
    ASSUME NEW a \in Nat, NEW m \in Nat, NEW n \in Nat, m <= n
    PROVE  a * m <= a * n
<1>1. PICK d \in Nat : n = m + d
  <2>1. n - m \in Nat /\ n = m + (n - m)
    OBVIOUS
  <2> QED
    BY <2>1
<1>2. a * n = a * m + a * d
  BY <1>1
<1>3. a * d >= 0 /\ a * m \in Nat /\ a * d \in Nat
  BY <1>1
<1> QED
  BY <1>2, <1>3

(* Of an amount a, the m-th part out of n is an amount and not more than a.*)
LEMMA Portion ==
    ASSUME NEW a \in Nat, NEW n \in Nat \ {0}, NEW m \in 0..n
    PROVE  (a * m) \div n \in 0..a
<1> DEFINE d == (a * m) \div n
           r == (a * m) % n
<1>1. a * m \in Nat /\ a * n \in Nat /\ a * m <= a * n
  BY ProductMono
<1>2. d \in Nat /\ r \in 0..(n - 1) /\ a * m = n * d + r
  BY <1>1
<1>3. ASSUME d >= a + 1 PROVE FALSE
  <2> HIDE DEF d, r
  <2>1. n * d >= n * (a + 1)
    BY <1>2, <1>3, ProductMono
  <2>2. n * (a + 1) = a * n + n
    OBVIOUS
  <2>3. n * d \in Nat
    BY <1>2
  <2> QED
    BY <1>1, <1>2, <2>1, <2>2, <2>3
<1> QED
  BY <1>2, <1>3

LEMMA FeeBound == ASSUME NEW g \in Nat PROVE Fee(g) \in 0..g
BY PaperAssumption, Portion DEF Fee

LEMMA ShareBound ==
    ASSUME NEW a \in Nat, NEW n \in Nat \ {0}, NEW m \in 0..n
    PROVE  Share(a, m, n) \in 0..a
BY Portion DEF Share

LEMMA MaxOfTwo ==
    ASSUME NEW a \in Nat, NEW b \in Nat
    PROVE  Max({a, b}) \in Nat /\ Max({a, b}) >= a /\ Max({a, b}) >= b
<1>1. \E x \in {a, b} : \A y \in {a, b} : x >= y
  OBVIOUS
<1>2. /\ Max({a, b}) \in {a, b}
      /\ \A y \in {a, b} : Max({a, b}) >= y
  BY <1>1 DEF Max
<1> QED
  BY <1>2

-----------------------------------------------------------------------------
(* Positions and money.                                                    *)
LEMMA PositionIsNotFlat == \A q \in Position : q # Flat
<1> SUFFICES ASSUME NEW q \in Position, q = Flat PROVE FALSE
  OBVIOUS
<1>1. q.venue \in {"internal", "demo"} /\ Flat.venue = "none"
  BY DEF Position, Flat
<1> QED
  BY <1>1

LEMMA HeldPosition == ASSUME TypeOK, NEW s \in Held PROVE positions[s] \in Position
BY DEF TypeOK, Held

(* A purchase is a valid position of this broker's, and costs something.   *)
LEMMA BoughtPosition ==
    ASSUME NEW price \in Price, NEW quantity \in Nat \ {0}
    PROVE  /\ Bought(price, quantity) \in Position
           /\ Bought(price, quantity).valid
           /\ Bought(price, quantity).totalCost > 0
<1> DEFINE notional == quantity * price
<1>1. price \in Nat \ {0} /\ price - 1 \in Nat
  BY PaperAssumption
<1>2. notional \in Nat
  BY <1>1
<1>3. notional > 0
  <2>1. quantity * 1 <= notional
    BY <1>1, ProductMono
  <2> QED
    BY <1>2, <2>1
<1> HIDE DEF notional
<1>4. Fee(notional) \in Nat
  BY <1>2, FeeBound
<1>5. Bought(price, quantity) =
        [venue |-> "internal", valid |-> TRUE, entryPrice |-> price,
         quantity |-> quantity, totalCost |-> notional + Fee(notional),
         entryFee |-> Fee(notional), stop |-> price - 1, scaledOut |-> FALSE]
  BY DEF Bought, notional
<1>6. notional + Fee(notional) \in Nat /\ notional + Fee(notional) > 0
  BY <1>2, <1>3, <1>4
<1> QED
  BY <1>1, <1>4, <1>5, <1>6 DEF Position

(* The lots a purchase may be filled with are at least one.                *)
LEMMA BuySizes ==
    ASSUME NEW price \in Price, NEW quote \in QuoteAmount, NEW maker \in BOOLEAN,
           NEW quantity \in resolvePaperBuySize(quote, price, maker)
    PROVE  quantity \in Nat \ {0}
<1> DEFINE requested == quote \div price
<1>1. requested \in Nat
  BY PaperAssumption
<1> HIDE DEF requested
<1>2. PICK filled \in simulatePaperFill(requested, maker) : quantity = Max({MinQty, filled})
  BY DEF resolvePaperBuySize, requested
<1>3. filled \in Nat
  BY <1>1, <1>2 DEF simulatePaperFill
<1> QED
  BY <1>2, <1>3, MaxOfTwo, PaperAssumption

(* What is left after a scale-out is a position, with a stop that is no    *)
(* lower and the cost of what was sold taken off.                          *)
LEMMA RemainingPosition ==
    ASSUME NEW q \in Position, NEW sold \in 1..(q.quantity - 1)
    PROVE  /\ Remaining(q, sold) \in Position
           /\ Remaining(q, sold).valid = q.valid
           /\ Remaining(q, sold).stop >= q.stop
           /\ Remaining(q, sold).totalCost = q.totalCost - Share(q.totalCost, sold, q.quantity)
           /\ Share(q.totalCost, sold, q.quantity) \in 0..q.totalCost
<1>1. /\ q.quantity \in Nat \ {0} /\ q.totalCost \in Nat /\ q.entryFee \in Nat
      /\ q.stop \in Nat /\ q.entryPrice + TrailOffset \in Nat
  <2>1. q.entryPrice \in Nat
    BY PaperAssumption DEF Position
  <2> QED
    BY <2>1, PaperAssumption DEF Position
<1>2. sold \in 0..q.quantity /\ q.quantity - sold \in Nat \ {0}
  BY <1>1
<1>3. /\ Share(q.totalCost, sold, q.quantity) \in 0..q.totalCost
      /\ Share(q.entryFee, sold, q.quantity) \in 0..q.entryFee
  BY <1>1, <1>2, ShareBound
<1>4. /\ q.totalCost - Share(q.totalCost, sold, q.quantity) \in Nat
      /\ q.entryFee - Share(q.entryFee, sold, q.quantity) \in Nat
  BY <1>1, <1>3
<1>5. /\ Max({q.stop, q.entryPrice + TrailOffset}) \in Nat
      /\ Max({q.stop, q.entryPrice + TrailOffset}) >= q.stop
  BY <1>1, MaxOfTwo
<1> QED
  BY <1>1, <1>2, <1>3, <1>4, <1>5 DEF Remaining, Position

(* A sale brings money in, and what it brings beyond the cost of what was  *)
(* sold is the profit.                                                     *)
LEMMA CreditEffect ==
    ASSUME TypeOK, NEW quantity \in Nat, NEW price \in Price, NEW cost \in Nat,
           Credit(quantity, price, cost)
    PROVE  /\ quoteFree' \in Nat /\ feesPaid' \in Nat /\ fills' \in Nat
           /\ realizedPnl' \in Int
           /\ quoteFree' >= quoteFree
           /\ realizedPnl' - realizedPnl = (quoteFree' - quoteFree) - cost
<1> DEFINE gross == quantity * price
<1>1. gross \in Nat
  BY PaperAssumption
<1>2. /\ quoteFree' = quoteFree + (gross - Fee(gross))
      /\ feesPaid' = feesPaid + Fee(gross)
      /\ realizedPnl' = realizedPnl + ((gross - Fee(gross)) - cost)
      /\ fills' = fills + 1
  BY DEF Credit
<1> HIDE DEF gross
<1>3. Fee(gross) \in Nat /\ gross - Fee(gross) \in Nat
  BY <1>1, FeeBound
<1> QED
  BY <1>2, <1>3 DEF TypeOK

-----------------------------------------------------------------------------
(* What a change of one position does to the set of those held.            *)
LEMMA PositionReplaced ==
    ASSUME TypeOK, NEW s \in Held, NEW q \in Position,
           positions' = [positions EXCEPT ![s] = q]
    PROVE  /\ positions' \in [Symbol -> Position \cup {Flat}] /\ Held' = Held
           /\ PortfolioValid(positions) /\ q.valid => PortfolioValid(positions')
<1>1. s \in Symbol /\ positions[s] # Flat /\ q # Flat
  BY PositionIsNotFlat DEF Held
<1>2. /\ positions' \in [Symbol -> Position \cup {Flat}]
      /\ positions'[s] = q /\ \A t \in Symbol \ {s} : positions'[t] = positions[t]
  BY <1>1 DEF TypeOK
<1>3. Held' = Held
  BY <1>1, <1>2 DEF Held
<1> QED
  BY <1>2, <1>3 DEF PortfolioValid

LEMMA PositionOpened ==
    ASSUME TypeOK, NEW s \in Symbol \ Held, NEW q \in Position,
           positions' = [positions EXCEPT ![s] = q]
    PROVE  /\ positions' \in [Symbol -> Position \cup {Flat}] /\ Held' = Held \cup {s}
           /\ PortfolioValid(positions) /\ q.valid => PortfolioValid(positions')
<1>1. positions[s] = Flat /\ q # Flat
  BY PositionIsNotFlat DEF Held
<1>2. /\ positions' \in [Symbol -> Position \cup {Flat}]
      /\ positions'[s] = q /\ \A t \in Symbol \ {s} : positions'[t] = positions[t]
  BY DEF TypeOK
<1>3. Held' = Held \cup {s}
  BY <1>1, <1>2 DEF Held
<1> QED
  BY <1>2, <1>3 DEF PortfolioValid

LEMMA PositionClosed ==
    ASSUME TypeOK, NEW s \in Held, positions' = [positions EXCEPT ![s] = Flat]
    PROVE  /\ positions' \in [Symbol -> Position \cup {Flat}] /\ Held' = Held \ {s}
           /\ PortfolioValid(positions) => PortfolioValid(positions')
<1>1. s \in Symbol
  BY DEF Held
<1>2. /\ positions' \in [Symbol -> Position \cup {Flat}]
      /\ positions'[s] = Flat /\ \A t \in Symbol \ {s} : positions'[t] = positions[t]
  BY <1>1 DEF TypeOK
<1>3. Held' = Held \ {s}
  BY <1>1, <1>2 DEF Held
<1> QED
  BY <1>2, <1>3 DEF PortfolioValid

(* exitPosition, whoever calls it: the position is gone and booked, or the *)
(* validator refused and only the money has moved.                         *)
LEMMA ExitEffect ==
    ASSUME TypeOK, NEW s \in Held, NEW price \in Price, exitPosition(s, price)
    PROVE  /\ quoteFree' \in Nat /\ feesPaid' \in Nat /\ fills' \in Nat
           /\ realizedPnl' \in Int /\ journal' \in Int
           /\ positions' \in [Symbol -> Position \cup {Flat}]
           /\ Held' = Held \ {s} \/ Held' = Held
           /\ PortfolioValid(positions) =>
                /\ Held' = Held \ {s} /\ PortfolioValid(positions')
                /\ positions' = [positions EXCEPT ![s] = Flat]
                /\ quoteFree' >= quoteFree
                /\ realizedPnl' - realizedPnl
                     = (quoteFree' - quoteFree) - positions[s].totalCost
                /\ journal' = journal + (realizedPnl' - realizedPnl)
           /\ \A t \in Symbol : positions'[t] # Flat => positions'[t] = positions[t]
<1> USE DEF exitPosition, Sold
<1>1. positions[s].quantity \in Nat /\ positions[s].totalCost \in Nat /\ s \in Symbol
  BY HeldPosition DEF Position, Held
<1>2. /\ quoteFree' \in Nat /\ feesPaid' \in Nat /\ fills' \in Nat
      /\ realizedPnl' \in Int
      /\ quoteFree' >= quoteFree
      /\ realizedPnl' - realizedPnl = (quoteFree' - quoteFree) - positions[s].totalCost
  BY <1>1, CreditEffect
<1>3. CASE PortfolioValid(positions)
  <2>1. /\ positions' = [positions EXCEPT ![s] = Flat]
        /\ journal' = journal + (realizedPnl' - realizedPnl)
    BY <1>3
  <2>2. journal' \in Int
    BY <1>2, <2>1 DEF TypeOK
  <2>3. \A t \in Symbol : positions'[t] # Flat => positions'[t] = positions[t]
    BY <2>1 DEF TypeOK
  <2> QED
    BY <1>2, <1>3, <2>1, <2>2, <2>3, PositionClosed
<1>4. CASE ~PortfolioValid(positions)
  <2>1. UNCHANGED <<positions, journal>>
    BY <1>4
  <2>2. Held' = Held
    BY <2>1 DEF Held
  <2> QED
    BY <1>2, <1>4, <2>1, <2>2 DEF TypeOK
<1> QED
  BY <1>3, <1>4

-----------------------------------------------------------------------------
(* The review of the open positions.                                       *)
LEMMA ManagedIsHeld ==
    ASSUME TypeOK, NEW s \in Symbol, Managing(s)
    PROVE  /\ s \in Held /\ positions[s] \in Position
           /\ allowed' = {} /\ turn' = NoTurn /\ sound' = sound
<1>1. s \in Held /\ allowed' = {} /\ turn' = NoTurn /\ sound' = sound
  BY DEF Managing, Held, entryLoop
<1> QED
  BY <1>1, HeldPosition

(* With no candidate left, the loop promises nothing but the limit.        *)
LEMMA LoopIdle ==
    ASSUME LoopInv, allowed' = {}, turn' = NoTurn, sound' = sound,
           sound => /\ PortfolioValid(positions') /\ IsFiniteSet(Held')
                    /\ Cardinality(Held') <= MaxOpenPositions
    PROVE  LoopInv' /\ CandidatesNotHeld'
BY DEF LoopInv, RoomForOne, CandidatesNotHeld

(* With one position less there is still room.                             *)
LEMMA OneLess ==
    ASSUME LoopInv, sound, NEW s \in Held
    PROVE  /\ IsFiniteSet(Held \ {s})
           /\ Cardinality(Held \ {s}) <= MaxOpenPositions
           /\ Cardinality(Held) < MaxOpenPositions
                => Cardinality(Held \ {s}) < MaxOpenPositions
<1>1. IsFiniteSet(Held) /\ Cardinality(Held) <= MaxOpenPositions
  BY DEF LoopInv
<1>2. /\ IsFiniteSet(Held \ {s})
      /\ Cardinality(Held \ {s}) = Cardinality(Held) - 1
      /\ Cardinality(Held) \in Nat
  BY <1>1, FS_RemoveElement, FS_CardinalityType
<1> QED
  BY <1>1, <1>2, PaperAssumption

LEMMA TightenStopStep == ASSUME IInv, NEW s \in Symbol, TightenStop(s) PROVE IInv'
<1>1. /\ TypeOK /\ LoopInv /\ Managing(s)
      /\ UNCHANGED <<portfolio, journal, fills>>
  BY DEF IInv, TightenStop
<1>2. /\ s \in Held /\ positions[s] \in Position
      /\ allowed' = {} /\ turn' = NoTurn /\ sound' = sound
  BY <1>1, ManagedIsHeld
<1>3. PICK stop \in Nat : positions' = [positions EXCEPT ![s].stop = stop]
  <2>1. PICK mid \in Price : \E n \in (positions[s].stop + 1)..(mid - 1) :
            positions' = [positions EXCEPT ![s].stop = n]
    BY DEF TightenStop
  <2>2. \A n \in (positions[s].stop + 1)..(mid - 1) : n \in Nat
    BY <1>2, PaperAssumption DEF Position
  <2> QED
    BY <2>1, <2>2
<1> DEFINE q == [positions[s] EXCEPT !.stop = stop]
<1>5. q \in Position /\ q.valid = positions[s].valid
  BY <1>2 DEF Position
<1>6. positions' = [positions EXCEPT ![s] = q]
  BY <1>3
<1>7. /\ positions' \in [Symbol -> Position \cup {Flat}] /\ Held' = Held
      /\ PortfolioValid(positions) => PortfolioValid(positions')
  <2>1. PortfolioValid(positions) => q.valid
    BY <1>2, <1>5 DEF PortfolioValid, Held
  <2> HIDE DEF q
  <2> QED
    BY <1>1, <1>2, <1>5, <1>6, <2>1, PositionReplaced
<1>8. TypeOK'
  BY <1>1, <1>2, <1>7 DEF TypeOK, portfolio
<1>9. LoopInv' /\ CandidatesNotHeld'
  BY <1>1, <1>2, <1>7, LoopIdle DEF LoopInv
<1> QED
  BY <1>8, <1>9 DEF IInv

(* What a scale-out does, to the position and to the account.              *)
LEMMA ScaleOutEffect ==
    ASSUME TypeOK, NEW s \in Held, NEW price \in Price,
           NEW sold \in 1..(positions[s].quantity - 1), scaleOutPosition(s, sold, price)
    PROVE  /\ quoteFree' \in Nat /\ feesPaid' \in Nat /\ fills' \in Nat
           /\ realizedPnl' \in Int /\ journal' \in Int
           /\ positions' \in [Symbol -> Position \cup {Flat}] /\ Held' = Held
           /\ PortfolioValid(positions) =>
                /\ PortfolioValid(positions')
                /\ positions' = [positions EXCEPT ![s] = Remaining(positions[s], sold)]
                /\ quoteFree' >= quoteFree
                /\ realizedPnl' - realizedPnl = (quoteFree' - quoteFree)
                     - Share(positions[s].totalCost, sold, positions[s].quantity)
                /\ journal' = journal + (realizedPnl' - realizedPnl)
           /\ \A t \in Symbol \ {s} : positions'[t] = positions[t]
           /\ positions'[s].stop >= positions[s].stop
<1> DEFINE q == positions[s]
           cost == Share(q.totalCost, sold, q.quantity)
<1>1. q \in Position /\ s \in Symbol /\ sold \in Nat /\ q.stop \in Nat
  BY HeldPosition DEF Held, Position
<1>2. /\ Remaining(q, sold) \in Position /\ Remaining(q, sold).valid = q.valid
      /\ Remaining(q, sold).stop >= q.stop
      /\ cost \in 0..q.totalCost
  BY <1>1, RemainingPosition
<1>3. cost \in Nat
  BY <1>1, <1>2 DEF Position
<1>4. /\ Credit(sold, price, cost)
      /\ IF PortfolioValid(positions)
         THEN /\ positions' = [positions EXCEPT ![s] = Remaining(q, sold)]
              /\ journal' = journal + (realizedPnl' - realizedPnl)
         ELSE UNCHANGED <<positions, journal>>
  BY DEF scaleOutPosition
<1> HIDE DEF q, cost
<1>5. /\ quoteFree' \in Nat /\ feesPaid' \in Nat /\ fills' \in Nat
      /\ realizedPnl' \in Int
      /\ quoteFree' >= quoteFree
      /\ realizedPnl' - realizedPnl = (quoteFree' - quoteFree) - cost
  BY <1>1, <1>3, <1>4, CreditEffect
<1>6. CASE PortfolioValid(positions)
  <2>1. journal' \in Int
    BY <1>4, <1>5, <1>6 DEF TypeOK
  <2>2. /\ positions' \in [Symbol -> Position \cup {Flat}] /\ Held' = Held
        /\ PortfolioValid(positions')
    <3>1. Remaining(q, sold).valid
      BY <1>1, <1>2, <1>6 DEF PortfolioValid, Held, q
    <3> QED
      BY <1>2, <1>4, <1>6, <3>1, PositionReplaced
  <2>3. /\ \A t \in Symbol \ {s} : positions'[t] = positions[t]
        /\ positions'[s] = Remaining(q, sold)
    BY <1>1, <1>4, <1>6 DEF TypeOK
  <2> QED
    BY <1>2, <1>4, <1>5, <1>6, <2>1, <2>2, <2>3 DEF q, cost
<1>7. CASE ~PortfolioValid(positions)
  <2>1. UNCHANGED <<positions, journal>>
    BY <1>4, <1>7
  <2>2. Held' = Held
    BY <2>1 DEF Held
  <2>3. positions'[s].stop >= positions[s].stop
    BY <1>1, <2>1 DEF q
  <2>4. journal' \in Int /\ positions' \in [Symbol -> Position \cup {Flat}]
    BY <2>1 DEF TypeOK
  <2> QED
    BY <1>5, <1>7, <2>1, <2>2, <2>3, <2>4
<1> QED
  BY <1>6, <1>7

LEMMA ScaleOutStep == ASSUME IInv, NEW s \in Symbol, ScaleOut(s) PROVE IInv'
<1>1. TypeOK /\ LoopInv /\ Managing(s)
  BY DEF IInv, ScaleOut
<1>2. /\ s \in Held /\ positions[s] \in Position
      /\ allowed' = {} /\ turn' = NoTurn /\ sound' = sound
  BY <1>1, ManagedIsHeld
<1>3. PICK price \in Price, sold \in 1..(positions[s].quantity - 1) :
          scaleOutPosition(s, sold, price)
  BY DEF ScaleOut
<1>4. /\ quoteFree' \in Nat /\ feesPaid' \in Nat /\ fills' \in Nat
      /\ realizedPnl' \in Int /\ journal' \in Int
      /\ positions' \in [Symbol -> Position \cup {Flat}] /\ Held' = Held
      /\ PortfolioValid(positions) => PortfolioValid(positions')
  BY <1>1, <1>2, <1>3, ScaleOutEffect
<1>5. TypeOK'
  BY <1>1, <1>2, <1>4 DEF TypeOK
<1>6. LoopInv' /\ CandidatesNotHeld'
  BY <1>1, <1>2, <1>4, LoopIdle DEF LoopInv
<1> QED
  BY <1>5, <1>6 DEF IInv

LEMMA ExitStep == ASSUME IInv, NEW s \in Symbol, Exit(s) PROVE IInv'
<1>1. TypeOK /\ LoopInv /\ Managing(s)
  BY DEF IInv, Exit
<1>2. /\ s \in Held /\ allowed' = {} /\ turn' = NoTurn /\ sound' = sound
  BY <1>1, ManagedIsHeld
<1>3. PICK price \in Price : exitPosition(s, price)
  BY DEF Exit
<1>4. /\ quoteFree' \in Nat /\ feesPaid' \in Nat /\ fills' \in Nat
      /\ realizedPnl' \in Int /\ journal' \in Int
      /\ positions' \in [Symbol -> Position \cup {Flat}]
      /\ PortfolioValid(positions) => Held' = Held \ {s} /\ PortfolioValid(positions')
  BY <1>1, <1>2, <1>3, ExitEffect
<1>5. TypeOK'
  BY <1>1, <1>2, <1>4 DEF TypeOK
<1>6. LoopInv' /\ CandidatesNotHeld'
  <2>1. ASSUME sound
        PROVE  /\ PortfolioValid(positions') /\ IsFiniteSet(Held')
               /\ Cardinality(Held') <= MaxOpenPositions
    BY <1>1, <1>2, <1>4, <2>1, OneLess DEF LoopInv
  <2> QED
    BY <1>1, <1>2, <2>1, LoopIdle
<1> QED
  BY <1>5, <1>6 DEF IInv

-----------------------------------------------------------------------------
(* The scan and the entry loop.                                            *)

(* Steps that change neither the account nor the positions.                *)
LEMMA HeldSame == ASSUME positions' = positions PROVE Held' = Held
BY DEF Held

LEMMA LoopMoves ==
    ASSUME IInv, UNCHANGED <<portfolio, positions, journal, fills, sound>>,
           allowed' \in SUBSET Symbol,
           turn' \in [stage : {"rotate", "enter"}, symbol : Symbol] \cup {NoTurn},
           sound => (allowed' # {} \/ turn' # NoTurn => Cardinality(Held) < MaxOpenPositions),
           allowed' \cap Held = {},
           turn' # NoTurn => turn'.symbol \notin Held \cup allowed'
    PROVE  IInv'
<1>1. TypeOK'
  BY DEF IInv, TypeOK, portfolio
<1>2. Held' = Held
  BY HeldSame
<1>3. LoopInv' /\ CandidatesNotHeld'
  BY <1>2 DEF IInv, LoopInv, RoomForOne, CandidatesNotHeld
<1> QED
  BY <1>1, <1>3 DEF IInv

LEMMA ScanStep == ASSUME IInv, Scan PROVE IInv'
<1>1. /\ allowed' \subseteq {s \in Symbol : evaluatePositionGuards(s)}
      /\ turn = NoTurn /\ turn' = turn
  BY DEF Scan
<1>2. \A s \in allowed' : s \in Symbol /\ s \notin Held /\ Cardinality(Held) < MaxOpenPositions
  BY <1>1 DEF evaluatePositionGuards
<1> QED
  BY <1>1, <1>2, LoopMoves DEF Scan, IInv, TypeOK

LEMMA ConsiderStep == ASSUME IInv, NEW s \in Symbol, Consider(s) PROVE IInv'
<1>1. /\ turn = NoTurn /\ s \in allowed /\ allowed' = allowed \ {s}
      /\ turn' \in {NoTurn, [stage |-> "rotate", symbol |-> s]}
      /\ UNCHANGED <<portfolio, positions, journal, fills, sound>>
  BY DEF Consider
<1>2. turn' \in [stage : {"rotate", "enter"}, symbol : Symbol] \cup {NoTurn}
  BY <1>1
<1>3. turn' # NoTurn => turn'.symbol = s
  BY <1>1
<1>4. allowed' \in SUBSET Symbol
  BY <1>1 DEF IInv, TypeOK
<1> QED
  BY <1>1, <1>2, <1>3, <1>4, LoopMoves
     DEF IInv, LoopInv, RoomForOne, CandidatesNotHeld

(* A turn that is at some stage is a candidate's.                          *)
LEMMA TurnTyped ==
    ASSUME TypeOK, turn.stage \in {"rotate", "enter"}
    PROVE  /\ turn # NoTurn /\ turn.symbol \in Symbol
           /\ [turn EXCEPT !.stage = "enter"]
                \in [stage : {"rotate", "enter"}, symbol : Symbol]
           /\ [turn EXCEPT !.stage = "enter"].symbol = turn.symbol
<1>1. turn # NoTurn
  BY DEF NoTurn
<1> QED
  BY <1>1 DEF TypeOK

LEMMA NoRotationStep == ASSUME IInv, NoRotation PROVE IInv'
<1>1. /\ turn # NoTurn /\ turn' \in [stage : {"rotate", "enter"}, symbol : Symbol]
      /\ turn'.symbol = turn.symbol /\ allowed' = allowed
      /\ UNCHANGED <<portfolio, positions, journal, fills, sound>>
  BY TurnTyped DEF NoRotation, IInv
<1>2. allowed' \in SUBSET Symbol
  BY <1>1 DEF IInv, TypeOK
<1> QED
  BY <1>1, <1>2, LoopMoves DEF IInv, LoopInv, RoomForOne, CandidatesNotHeld

LEMMA GivenUpStep == ASSUME IInv, RotationFails \/ EntryRejected PROVE IInv'
<1>1. /\ turn.stage \in {"rotate", "enter"} /\ turn' = NoTurn /\ allowed' = allowed
      /\ UNCHANGED <<portfolio, positions, journal, fills, sound>>
  BY DEF RotationFails, EntryRejected
<1>2. turn # NoTurn /\ allowed' \in SUBSET Symbol
  BY <1>1, TurnTyped DEF IInv, TypeOK
<1> QED
  BY <1>1, <1>2, LoopMoves DEF IInv, LoopInv, RoomForOne, CandidatesNotHeld

LEMMA RotateStep == ASSUME IInv, NEW r \in Symbol, Rotate(r) PROVE IInv'
<1>1. /\ TypeOK /\ LoopInv /\ turn.stage = "rotate" /\ r \in Held
      /\ turn' = (IF PortfolioValid(positions) THEN [turn EXCEPT !.stage = "enter"] ELSE NoTurn)
      /\ allowed' = allowed /\ sound' = sound
  BY DEF IInv, Rotate
<1>2. PICK price \in Price : exitPosition(r, price)
  BY DEF Rotate
<1>3. /\ quoteFree' \in Nat /\ feesPaid' \in Nat /\ fills' \in Nat
      /\ realizedPnl' \in Int /\ journal' \in Int
      /\ positions' \in [Symbol -> Position \cup {Flat}]
      /\ PortfolioValid(positions) => Held' = Held \ {r} /\ PortfolioValid(positions')
  BY <1>1, <1>2, ExitEffect
<1>4. /\ turn # NoTurn /\ turn.symbol \in Symbol
      /\ [turn EXCEPT !.stage = "enter"] \in [stage : {"rotate", "enter"}, symbol : Symbol]
      /\ [turn EXCEPT !.stage = "enter"].symbol = turn.symbol
  BY <1>1, TurnTyped
<1>5. TypeOK'
  BY <1>1, <1>3, <1>4 DEF TypeOK
<1>6. CandidatesNotHeld'
  <2>1. allowed \cap Held = {} /\ turn.symbol \notin Held \cup allowed
    BY <1>1, <1>4 DEF IInv, CandidatesNotHeld
  <2>2. Held' \subseteq Held
    BY <1>1, <1>2, ExitEffect
  <2>3. turn' # NoTurn => turn'.symbol = turn.symbol
    BY <1>1, <1>4
  <2> QED
    BY <1>1, <2>1, <2>2, <2>3 DEF CandidatesNotHeld
<1>7. LoopInv'
  <2> SUFFICES ASSUME sound PROVE LoopInv'
    BY <1>1 DEF LoopInv
  <2>1. PortfolioValid(positions) /\ Cardinality(Held) < MaxOpenPositions
    BY <1>1, <1>4 DEF LoopInv, RoomForOne
  <2>2. /\ IsFiniteSet(Held') /\ Cardinality(Held') <= MaxOpenPositions
        /\ Cardinality(Held') < MaxOpenPositions
    BY <1>1, <1>3, <2>1, OneLess
  <2> QED
    BY <1>1, <1>3, <2>1, <2>2 DEF LoopInv, RoomForOne
<1> QED
  BY <1>5, <1>6, <1>7 DEF IInv

(* enterPosition books what it spent as the cost of a new position.        *)
LEMMA EntryEffect ==
    ASSUME TypeOK, Enter
    PROVE  /\ \E q \in Position :
                /\ q.valid /\ q.totalCost > 0
                /\ positions' = [positions EXCEPT ![turn.symbol] = q]
                /\ quoteFree' = quoteFree - q.totalCost
           /\ quoteFree' \in Nat /\ feesPaid' \in Nat /\ fills' \in Nat
           /\ realizedPnl' = realizedPnl /\ journal' = journal
<1>1. PICK price \in Price, quote \in QuoteAmount, maker \in BOOLEAN :
          \E quantity \in resolvePaperBuySize(quote, price, maker) :
             enterPosition(turn.symbol, price, quantity)
  BY DEF Enter
<1>2. PICK quantity \in resolvePaperBuySize(quote, price, maker) :
             enterPosition(turn.symbol, price, quantity)
  BY <1>1
<1> DEFINE q == Bought(price, quantity)
<1>3. q \in Position /\ q.valid /\ q.totalCost > 0
  BY BuySizes, BoughtPosition
<1>4. /\ q.totalCost <= quoteFree
      /\ quoteFree' = quoteFree - q.totalCost
      /\ feesPaid' = feesPaid + q.entryFee
      /\ positions' = [positions EXCEPT ![turn.symbol] = q]
      /\ fills' = fills + 1
      /\ realizedPnl' = realizedPnl /\ journal' = journal
  BY <1>2 DEF enterPosition
<1> HIDE DEF q
<1>5. q.totalCost \in Nat /\ q.entryFee \in Nat
  BY <1>3 DEF Position
<1>6. quoteFree' \in Nat /\ feesPaid' \in Nat /\ fills' \in Nat
  BY <1>4, <1>5 DEF TypeOK
<1> QED
  BY <1>3, <1>4, <1>6

LEMMA EnterStep == ASSUME IInv, Enter PROVE IInv'
<1>1. /\ TypeOK /\ LoopInv /\ turn.stage = "enter" /\ turn' = NoTurn
      /\ allowed' = (IF PortfolioValid(positions) THEN {} ELSE allowed)
      /\ sound' = sound
  BY DEF IInv, Enter, AfterEntry
<1>2. turn # NoTurn /\ turn.symbol \in Symbol
  BY <1>1, TurnTyped
<1>3. PICK q \in Position :
         /\ q.valid /\ positions' = [positions EXCEPT ![turn.symbol] = q]
         /\ quoteFree' \in Nat /\ feesPaid' \in Nat /\ fills' \in Nat
         /\ realizedPnl' = realizedPnl /\ journal' = journal
  BY <1>1, EntryEffect
<1>4. /\ positions' \in [Symbol -> Position \cup {Flat}]
      /\ Held' = Held \cup {turn.symbol} /\ turn.symbol \in Symbol \ Held
      /\ PortfolioValid(positions) => PortfolioValid(positions')
  <2>1. turn.symbol \in Symbol \ Held
    BY <1>2 DEF IInv, CandidatesNotHeld
  <2> QED
    BY <1>1, <1>3, <2>1, PositionOpened
<1>5. TypeOK'
  BY <1>1, <1>3, <1>4 DEF TypeOK
<1>6. ASSUME sound
      PROVE  /\ allowed' = {} /\ PortfolioValid(positions') /\ IsFiniteSet(Held')
             /\ Cardinality(Held') <= MaxOpenPositions
  <2>1. /\ PortfolioValid(positions) /\ Cardinality(Held) < MaxOpenPositions
        /\ IsFiniteSet(Held)
    BY <1>1, <1>2, <1>6 DEF LoopInv, RoomForOne
  <2>2. /\ IsFiniteSet(Held') /\ Cardinality(Held') = Cardinality(Held) + 1
        /\ Cardinality(Held) \in Nat
    BY <1>4, <2>1, FS_AddElement, FS_CardinalityType
  <2> QED
    BY <1>1, <1>4, <2>1, <2>2, PaperAssumption
<1>7. LoopInv' /\ CandidatesNotHeld'
  <2>1. allowed' \cap Held' = {}
    BY <1>1, <1>2, <1>4 DEF IInv, CandidatesNotHeld
  <2> QED
    BY <1>1, <1>6, <2>1 DEF LoopInv, RoomForOne, CandidatesNotHeld
<1> QED
  BY <1>5, <1>7 DEF IInv

-----------------------------------------------------------------------------
(* The invariant holds in every state of every behaviour.                  *)
LEMMA InitIInv == Init => IInv
<1> SUFFICES ASSUME Init PROVE IInv
  OBVIOUS
<1>1. positions \in [Symbol -> Position \cup {Flat}]
  <2>1. ASSUME NEW p \in Price, NEW q \in Legacy(p) PROVE q \in Position
    <3>1. p \in Nat /\ 2 * p \in Nat /\ 2 \in Nat \ {0} /\ 0 \in Nat
      BY PaperAssumption
    <3>2. ASSUME NEW venue \in {"internal", "demo"}, NEW valid \in BOOLEAN,
                 q \in [venue : {venue}, valid : {valid}, entryPrice : {p}, quantity : {2},
                        totalCost : {2 * p}, entryFee : {0}, stop : {0}, scaledOut : {FALSE}]
          PROVE  q \in Position
      BY <3>1, <3>2 DEF Position
    <3> QED
      BY <3>2 DEF Legacy
  <2> QED
    BY <2>1 DEF Init
<1>2. TypeOK
  <2>1. sound \in BOOLEAN /\ allowed \subseteq Symbol /\ turn = NoTurn
    BY DEF Init
  <2>2. /\ quoteFree \in Nat /\ feesPaid \in Nat /\ fills \in Nat
        /\ realizedPnl \in Int /\ journal \in Int
    BY PaperAssumption DEF Init
  <2> QED
    BY <1>1, <2>1, <2>2 DEF TypeOK
<1>3. CandidatesNotHeld
  BY DEF Init, CandidatesNotHeld
<1>4. LoopInv
  <2> SUFFICES ASSUME sound PROVE LoopInv
    BY DEF LoopInv
  <2>1. positions = [s \in Symbol |-> Flat] /\ allowed = {} /\ turn = NoTurn
    BY DEF Init
  <2>2. Held = {} /\ PortfolioValid(positions)
    BY <2>1 DEF Held, PortfolioValid
  <2>3. IsFiniteSet(Held) /\ Cardinality(Held) = 0
    BY <2>2, FS_EmptySet
  <2> QED
    BY <2>1, <2>2, <2>3, PaperAssumption DEF LoopInv, RoomForOne
<1> QED
  BY <1>2, <1>3, <1>4 DEF IInv

LEMMA NextIInv == IInv /\ [Next]_vars => IInv'
<1> SUFFICES ASSUME IInv, [Next]_vars PROVE IInv'
  OBVIOUS
<1>1. CASE UNCHANGED vars
  <2>1. UNCHANGED <<portfolio, positions, journal, allowed, turn, fills, sound>>
    BY <1>1 DEF vars, entryLoop
  <2> QED
    BY <2>1, LoopMoves DEF IInv, TypeOK, LoopInv, RoomForOne, CandidatesNotHeld
<1>2. ASSUME NEW s \in Symbol,
             TightenStop(s) \/ ScaleOut(s) \/ Exit(s) \/ Consider(s) \/ Rotate(s)
      PROVE  IInv'
  BY <1>2, TightenStopStep, ScaleOutStep, ExitStep, ConsiderStep, RotateStep
<1>3. CASE Scan \/ NoRotation \/ RotationFails \/ Enter \/ EntryRejected
  BY <1>3, ScanStep, NoRotationStep, GivenUpStep, EnterStep
<1> QED
  BY <1>1, <1>2, <1>3 DEF Next

LEMMA Invariant == Spec => []IInv
<1> QED
  BY InitIInv, NextIInv, PTL DEF Spec

(* The types: no balance, fee, cost, quantity or stop ever goes negative,  *)
(* whatever is bought, sold in parts or rotated.                           *)
THEOREM TypeCorrect == Spec => []TypeOK
<1> QED
  BY Invariant, PTL DEF IInv

(* The limit on open positions survives the entry loop of                  *)
(* openBestCandidate, which does not look at it again: for any limit, any  *)
(* number of symbols and of candidates.                                    *)
THEOREM LimitHolds == Spec => []WithinMaxOpenPositions
<1>1. IInv => WithinMaxOpenPositions
  BY DEF IInv, LoopInv, WithinMaxOpenPositions
<1> QED
  BY <1>1, Invariant, PTL

(* No step lowers the stop of a position that stays open, be it a review,  *)
(* a scale-out, or an attempt that the validator refused.                  *)
THEOREM StopsNeverLoosen == Spec => StopNeverLoosens
<1>1. IInv /\ [Next]_vars =>
        [\A s \in Symbol : positions[s] # Flat /\ positions'[s] # Flat
            => positions'[s].stop >= positions[s].stop]_vars
  <2> SUFFICES ASSUME IInv, Next, NEW s \in Symbol,
                      positions[s] # Flat, positions'[s] # Flat
               PROVE  positions'[s].stop >= positions[s].stop
    OBVIOUS
  <2>1. TypeOK /\ s \in Held
    BY DEF IInv, Held
  <2>2. positions[s].stop \in Nat
    BY <2>1, HeldPosition DEF Position
  <2>3. ASSUME positions'[s] = positions[s] PROVE positions'[s].stop >= positions[s].stop
    BY <2>2, <2>3
  <2>4. ASSUME NEW t \in Symbol, TightenStop(t)
        PROVE  positions'[s].stop >= positions[s].stop
    <3>1. CASE s # t
      BY <2>1, <2>3, <2>4, <3>1 DEF TightenStop, TypeOK
    <3>2. CASE s = t
      <4>1. PICK mid \in Price : \E n \in (positions[s].stop + 1)..(mid - 1) :
                positions' = [positions EXCEPT ![s].stop = n]
        BY <2>4, <3>2 DEF TightenStop
      <4>2. mid - 1 \in Int
        BY PaperAssumption
      <4>3. PICK n \in (positions[s].stop + 1)..(mid - 1) :
                positions' = [positions EXCEPT ![s].stop = n]
        BY <4>1
      <4>4. positions'[s] = [positions[s] EXCEPT !.stop = n]
        BY <2>1, <4>3 DEF TypeOK
      <4>5. positions[s] \in Position /\ n >= positions[s].stop
        BY <2>1, <2>2, <4>2, HeldPosition
      <4> QED
        BY <4>4, <4>5 DEF Position
    <3> QED
      BY <3>1, <3>2
  <2>5. ASSUME NEW t \in Symbol, ScaleOut(t)
        PROVE  positions'[s].stop >= positions[s].stop
    <3>1. t \in Held
      BY <2>1, <2>5, ManagedIsHeld DEF ScaleOut
    <3>2. /\ \A u \in Symbol \ {t} : positions'[u] = positions[u]
          /\ positions'[t].stop >= positions[t].stop
      BY <2>1, <2>5, <3>1, ScaleOutEffect DEF ScaleOut
    <3> QED
      BY <2>3, <3>2
  <2>6. ASSUME NEW t \in Symbol, Exit(t) \/ Rotate(t)
        PROVE  positions'[s].stop >= positions[s].stop
    <3>1. t \in Held
      BY <2>1, <2>6, ManagedIsHeld DEF Exit, Rotate
    <3>2. \A u \in Symbol : positions'[u] # Flat => positions'[u] = positions[u]
      BY <2>1, <2>6, <3>1, ExitEffect DEF Exit, Rotate
    <3> QED
      BY <2>3, <3>2
  <2>7. CASE Enter
    <3>1. CASE s = turn.symbol
      <4>1. turn # NoTurn
        BY <2>1, <2>7, TurnTyped DEF Enter
      <4> QED
        BY <2>1, <3>1, <4>1 DEF IInv, CandidatesNotHeld
    <3>2. CASE s # turn.symbol
      <4>1. positions'[s] = positions[s]
        BY <2>1, <2>7, <3>2, EntryEffect DEF TypeOK
      <4> QED
        BY <2>3, <4>1
    <3> QED
      BY <3>1, <3>2
  <2>8. CASE \/ Scan \/ NoRotation \/ RotationFails \/ EntryRejected
             \/ \E t \in Symbol : Consider(t)
    BY <2>3, <2>8 DEF Scan, NoRotation, RotationFails, EntryRejected, Consider
  <2> QED
    BY <2>4, <2>5, <2>6, <2>7, <2>8 DEF Next
<1> QED
  BY <1>1, Invariant, PTL DEF Spec, StopNeverLoosens

-----------------------------------------------------------------------------
(* The refinement of PaperAccount.  The stake of a symbol is the cost of   *)
(* its position.                                                           *)
Stake == [s \in Symbol |-> IF positions[s] = Flat THEN 0 ELSE positions[s].totalCost]

(* A change of one position is a change of one stake.                      *)
LEMMA StakeOf ==
    ASSUME TypeOK, NEW s \in Symbol, NEW q \in Position \cup {Flat},
           positions' = [positions EXCEPT ![s] = q]
    PROVE  /\ Stake'[s] = IF q = Flat THEN 0 ELSE q.totalCost
           /\ \A t \in Symbol \ {s} : Stake'[t] = Stake[t]
<1>1. /\ positions'[s] = q
      /\ \A t \in Symbol \ {s} : positions'[t] = positions[t]
  BY DEF TypeOK
<1> QED
  BY <1>1 DEF Stake

LEMMA StakeHeld ==
    ASSUME TypeOK, NEW s \in Held
    PROVE  Stake[s] = positions[s].totalCost /\ positions[s].totalCost \in Nat
BY HeldPosition DEF Stake, Held, Position

(* An exit of a valid portfolio is a sale of the whole stake.              *)
LEMMA ExitIsSale ==
    ASSUME TypeOK, PortfolioValid(positions), NEW s \in Held, NEW price \in Price,
           exitPosition(s, price)
    PROVE  Account!Sell(s)
<1>1. s \in Symbol
  BY DEF Held
<1>2. /\ positions' = [positions EXCEPT ![s] = Flat]
      /\ quoteFree' >= quoteFree
      /\ realizedPnl' - realizedPnl = (quoteFree' - quoteFree) - positions[s].totalCost
      /\ journal' = journal + (realizedPnl' - realizedPnl)
      /\ quoteFree' \in Nat /\ realizedPnl' \in Int /\ journal' \in Int
  BY ExitEffect
<1>3. Stake'[s] = 0 /\ \A t \in Symbol \ {s} : Stake'[t] = Stake[t]
  BY <1>1, <1>2, StakeOf
<1>4. Stake[s] = positions[s].totalCost /\ positions[s].totalCost \in Nat
  BY StakeHeld
<1>5. /\ 0 <= Stake'[s] /\ Stake'[s] <= Stake[s]
      /\ realizedPnl' - realizedPnl = (quoteFree' - quoteFree) - (Stake[s] - Stake'[s])
      /\ journal' - journal = realizedPnl' - realizedPnl
  BY <1>2, <1>3, <1>4 DEF TypeOK
<1> QED
  BY <1>2, <1>3, <1>5 DEF Account!Sell, Account!Others, Stake

(* A scale-out of a valid portfolio is a sale of the sold part's share.    *)
LEMMA ScaleOutIsSale ==
    ASSUME TypeOK, PortfolioValid(positions), NEW s \in Held, NEW price \in Price,
           NEW sold \in 1..(positions[s].quantity - 1), scaleOutPosition(s, sold, price)
    PROVE  Account!Sell(s)
<1> DEFINE q == positions[s]
           rest == Remaining(q, sold)
           cost == Share(q.totalCost, sold, q.quantity)
<1>1. s \in Symbol /\ q \in Position
  BY HeldPosition DEF Held
<1>2. /\ positions' = [positions EXCEPT ![s] = rest]
      /\ quoteFree' >= quoteFree
      /\ realizedPnl' - realizedPnl = (quoteFree' - quoteFree) - cost
      /\ journal' = journal + (realizedPnl' - realizedPnl)
      /\ quoteFree' \in Nat /\ realizedPnl' \in Int /\ journal' \in Int
  BY ScaleOutEffect
<1>3. rest \in Position /\ rest.totalCost = q.totalCost - cost /\ cost \in 0..q.totalCost
  BY <1>1, RemainingPosition
<1>4. Stake[s] = q.totalCost /\ q.totalCost \in Nat
  BY StakeHeld
<1> HIDE DEF q, rest, cost
<1>5. Stake'[s] = rest.totalCost /\ \A t \in Symbol \ {s} : Stake'[t] = Stake[t]
  BY <1>1, <1>2, <1>3, StakeOf, PositionIsNotFlat
<1>6. /\ 0 <= Stake'[s] /\ Stake'[s] <= Stake[s]
      /\ realizedPnl' - realizedPnl = (quoteFree' - quoteFree) - (Stake[s] - Stake'[s])
      /\ journal' - journal = realizedPnl' - realizedPnl
  BY <1>2, <1>3, <1>4, <1>5 DEF TypeOK
<1> QED
  BY <1>2, <1>5, <1>6 DEF Account!Sell, Account!Others, Stake

(* An entry is a purchase: its symbol was not held.                        *)
LEMMA EntryIsPurchase ==
    ASSUME IInv, Enter, NEW s, s = turn.symbol
    PROVE  s \in Symbol /\ Account!Buy(s)
<1>1. TypeOK /\ s \in Symbol \ Held
  <2>1. TypeOK /\ turn # NoTurn /\ s \in Symbol
    BY TurnTyped DEF IInv, Enter
  <2> QED
    BY <2>1 DEF IInv, CandidatesNotHeld
<1>2. PICK q \in Position :
         /\ q.totalCost > 0
         /\ positions' = [positions EXCEPT ![s] = q]
         /\ quoteFree' = quoteFree - q.totalCost
         /\ quoteFree' \in Nat /\ realizedPnl' = realizedPnl /\ journal' = journal
  BY <1>1, EntryEffect
<1>3. Stake[s] = 0
  BY <1>1 DEF Stake, Held
<1>4. Stake'[s] = q.totalCost /\ \A t \in Symbol \ {s} : Stake'[t] = Stake[t]
  BY <1>1, <1>2, StakeOf, PositionIsNotFlat
<1>5. q.totalCost \in Nat
  BY DEF Position
<1>6. /\ Stake'[s] = quoteFree - quoteFree'
      /\ 0 <= quoteFree' /\ quoteFree' < quoteFree
  BY <1>1, <1>2, <1>4, <1>5 DEF TypeOK
<1>7. Account!Buy(s)
  BY <1>2, <1>3, <1>4, <1>6 DEF Account!Buy, Account!Others, Stake
<1> QED
  BY <1>1, <1>7

(* A review that moves a stop costs nothing.                               *)
LEMMA StopMoveIsStutter ==
    ASSUME IInv, NEW s \in Symbol, TightenStop(s)
    PROVE  UNCHANGED Account!account
<1>1. TypeOK /\ Managing(s) /\ UNCHANGED <<portfolio, journal, sound>>
  BY DEF IInv, TightenStop, Managing
<1>2. s \in Held /\ positions[s] \in Position
  BY <1>1, ManagedIsHeld
<1>3. PICK mid \in Price : \E n \in (positions[s].stop + 1)..(mid - 1) :
          positions' = [positions EXCEPT ![s].stop = n]
  BY DEF TightenStop
<1>4. PICK n \in (positions[s].stop + 1)..(mid - 1) :
          positions' = [positions EXCEPT ![s].stop = n]
  BY <1>3
<1> DEFINE q == [positions[s] EXCEPT !.stop = n]
<1>5. positions' = [positions EXCEPT ![s] = q] /\ q.totalCost = positions[s].totalCost
  BY <1>2, <1>4 DEF Position
<1>6. q \in Position
  <2>1. n \in Nat
    BY <1>2, PaperAssumption DEF Position
  <2> QED
    BY <1>2, <2>1 DEF Position
<1> HIDE DEF q
<1>7. s \in Symbol /\ Stake'[s] = Stake[s] /\ \A t \in Symbol \ {s} : Stake'[t] = Stake[t]
  BY <1>1, <1>2, <1>5, <1>6, StakeOf, StakeHeld, PositionIsNotFlat
<1>8. Stake' = Stake
  BY <1>7 DEF Stake
<1> QED
  BY <1>1, <1>8 DEF Account!account, Stake, portfolio

(* The broker keeps the promises of PaperAccount: however fills, fees,     *)
(* partial sales and rotations follow one another, what leaves the balance *)
(* is the cost of a position and what a sale books is what it brought      *)
(* beyond the cost it released.                                            *)
THEOREM AccountImplemented == Spec => AccountKept
<1>1. Init => Account!Init
  <2> SUFFICES ASSUME Init PROVE Account!Init
    OBVIOUS
  <2>1. sound => Stake = [s \in Symbol |-> 0]
    BY DEF Init, Stake
  <2>2. sound \in BOOLEAN
    BY DEF Init
  <2> QED
    BY <2>1, <2>2 DEF Init, Account!Init, Stake
<1>2. IInv /\ [Next]_vars => [Account!Next]_(Account!account)
  <2> SUFFICES ASSUME IInv, [Next]_vars PROVE [Account!Next]_(Account!account)
    OBVIOUS
  <2>1. TypeOK /\ sound' = sound
    BY DEF IInv, Next, vars, TightenStop, ScaleOut, Exit, Managing, Scan, Consider,
           NoRotation, Rotate, RotationFails, Enter, EntryRejected
  <2>2. CASE ~sound
    BY <2>1, <2>2 DEF Account!Next
  <2>3. CASE sound
    <3>1. PortfolioValid(positions)
      BY <2>3 DEF IInv, LoopInv
    <3>2. ASSUME UNCHANGED <<portfolio, positions, journal>>
          PROVE  UNCHANGED Account!account
      BY <2>1, <3>2 DEF Account!account, portfolio
    <3>3. ASSUME NEW s \in Symbol, Account!Buy(s) \/ Account!Sell(s)
          PROVE  Account!Next
      BY <2>1, <3>3 DEF Account!Next
    <3>4. ASSUME NEW s \in Symbol, TightenStop(s)
          PROVE  UNCHANGED Account!account
      BY <3>4, StopMoveIsStutter
    <3>5. ASSUME NEW s \in Symbol, ScaleOut(s) PROVE Account!Next
      <4>1. s \in Held
        BY <2>1, <3>5, ManagedIsHeld DEF ScaleOut
      <4> QED
        BY <2>1, <3>1, <3>3, <3>5, <4>1, ScaleOutIsSale DEF ScaleOut
    <3>6. ASSUME NEW s \in Symbol, Exit(s) \/ Rotate(s) PROVE Account!Next
      <4>1. s \in Held
        BY <2>1, <3>6, ManagedIsHeld DEF Exit, Rotate
      <4> QED
        BY <2>1, <3>1, <3>3, <3>6, <4>1, ExitIsSale DEF Exit, Rotate
    <3>7. ASSUME Enter PROVE Account!Next
      <4>1. PICK s : s = turn.symbol
        OBVIOUS
      <4>2. s \in Symbol /\ Account!Buy(s)
        BY <3>7, <4>1, EntryIsPurchase
      <4> QED
        BY <3>3, <4>2
    <3>8. CASE \/ UNCHANGED vars
               \/ Scan \/ NoRotation \/ RotationFails \/ EntryRejected
               \/ \E s \in Symbol : Consider(s)
      BY <3>2, <3>8
         DEF vars, Scan, NoRotation, RotationFails, EntryRejected, Consider
    <3>9. CASE \/ \E s \in Symbol : ScaleOut(s) \/ Exit(s) \/ Rotate(s)
               \/ Enter
      BY <3>5, <3>6, <3>7, <3>9
    <3>10. CASE \E s \in Symbol : TightenStop(s)
      BY <3>4, <3>10
    <3> QED
      BY <3>8, <3>9, <3>10 DEF Next
  <2> QED
    BY <2>1, <2>2, <2>3 DEF TypeOK
<1> QED
  BY <1>1, <1>2, Invariant, PTL DEF Spec, AccountKept, Account!Spec

=============================================================================
