----------------------------- MODULE MakerEntry -----------------------------
(***************************************************************************)
(* The entry of one symbol with a resting order: LIMIT_MAKER, or pegged to *)
(* the book (src/execution/liveBroker.js).  LiveBroker has the market      *)
(* entry, whose order is over when it is answered.  Here the order rests   *)
(* on the exchange and fills, bit by bit, whenever it likes: while the bot *)
(* sleeps, between the read of the order and its replacement or cancel,    *)
(* and between the reads of the reconcile that follows.                    *)
(*                                                                         *)
(* A request is one step with every outcome it can have: carried out and   *)
(* answered, carried out with the answer lost, refused, never arrived.     *)
(* What fails for no reason but the network spends from MaxFaults.         *)
(***************************************************************************)
EXTENDS Integers, FiniteSets, FiniteSetsExt

CONSTANTS
    Lot,         \* quantity an entry wants
    OrderId,     \* bound: ids of orders, reused when over and not referred to
    Attempts,    \* retryCount + 1: snapshots one reconcile tries
    MaxEntries,  \* bound: entries begun
    MaxFaults,   \* bound: requests and reads that fail
    MaxCrashes   \* bound: deaths of the process

ASSUME MakerAssumption ==
    /\ Lot \in Nat \ {0} /\ Attempts \in Nat \ {0}
    /\ IsFiniteSet(OrderId) /\ OrderId \subseteq Nat \ {0} /\ OrderId # {}
    /\ {MaxEntries, MaxFaults, MaxCrashes} \subseteq Nat

None == 0
NoPos == [qty |-> 0]
Gone == [qty |-> 0, done |-> 0, live |-> FALSE]
NoSnap == [try |-> 0]
NoEntry == [style |-> "none"]

VARIABLES
    base,       \* exchange: balance of the base asset
    orders,     \* exchange: buy orders, how much of each is filled, still live?
    pos,        \* the position in runtime.openPositions, and its reconcile flag
    intent,     \* the entry intent: none (or resolved), open, ambiguous
    pc,         \* the await the bot is suspended at
    entry,      \* what enterPosition and its helpers hold in local variables
    snap,       \* what the running reconcile has read
    conflict,   \* the symbol is among the exchange conflicts of the entry gate
    recover,    \* config.allowRecoverUnsyncedPositions, fixed for the run
    boot,       \* the running reconcile is init's
    entries, faults, crashes

exchange == <<base, orders>>
counters == <<entries, faults, crashes>>
makerVars == <<base, orders, pos, intent, pc, entry, snap, conflict, recover, boot, counters>>

MakerInit ==
    /\ base = 0
    /\ orders = [o \in OrderId |-> Gone]
    /\ pos = NoPos
    /\ intent = "none"
    /\ pc = "idle"
    /\ entry = NoEntry
    /\ snap = NoSnap
    /\ conflict = FALSE
    /\ recover \in BOOLEAN
    /\ boot = FALSE
    /\ entries = 0 /\ faults = 0 /\ crashes = 0

Live == {o \in OrderId : orders[o].live}
Unfilled == {o \in Live : orders[o].done = 0}

Fault == faults < MaxFaults /\ faults' = faults + 1
Faultless == faults' = faults

-----------------------------------------------------------------------------
(* The exchange.                                                           *)

Fill ==
    /\ \E o \in Live : \E n \in 1..(orders[o].qty - orders[o].done) :
        /\ orders' = [orders EXCEPT ![o].done = @ + n,
                                    ![o].live = orders[o].done + n < orders[o].qty]
        /\ base' = base + n
    /\ UNCHANGED <<pos, intent, pc, entry, snap, conflict, recover, boot, counters>>

Mine == IF entry = NoEntry THEN {} ELSE entry.mine
Spare == OrderId \ (Live \cup Mine)
Placed(os, o, qty) == [os EXCEPT ![o] = [qty |-> qty, done |-> 0, live |-> TRUE]]
Ended(os, o) == [os EXCEPT ![o].live = FALSE]

-----------------------------------------------------------------------------
(* What an entry knows.                                                    *)

NewEntry(style) ==
    [style |-> style,
     mine |-> {},                           \* orders placed for it
     work |-> None,                         \* workingOrderId
     lost |-> None,                         \* placed, the answer lost
     known |-> [o \in OrderId |-> 0],       \* executions, merged by order
     market |-> 0,                          \* executions of the market buy
     seen |-> FALSE,                        \* the last read found it active
     replaced |-> FALSE,                    \* cancelReplaceCount > 0
     looked |-> FALSE]                      \* returned from the submit's recovery

(* Seeded bug: an order that is partly filled is taken for settled.        *)
OnlyNewIsActive(o) == o \in Unfilled

isActiveExchangeOrderStatus(o) == o \in Live

(* Seeded bug: the executions of two reads are added up.                   *)
settleAddsUp(e, o) ==
    [e EXCEPT !.known[o] = IF @ + orders[o].done > Lot THEN Lot ELSE @ + orders[o].done,
              !.seen = isActiveExchangeOrderStatus(o)]

(* mergeExecutions over settleMakerOrder's read of an order: the newer     *)
(* cumulative quantity takes the place of the older one.                   *)
settleMakerOrder(e, o) == [e EXCEPT !.known[o] = orders[o].done,
                                      !.seen = isActiveExchangeOrderStatus(o)]

Counted(e) == MapThenSumSet(LAMBDA o : e.known[o], OrderId) + e.market

Go(next) == pc' = next
Stay == UNCHANGED <<pos, intent, snap, conflict, recover, boot, entries, crashes>>
Reads(e, next) == entry' = e /\ Go(next) /\ UNCHANGED exchange

(* enterPosition's end: the intent is settled and the cycle goes on to its *)
(* saves.                                                                  *)
EntryEnds(p, st) ==
    /\ pos' = p
    /\ intent' = st
    /\ entry' = NoEntry
    /\ snap' = NoSnap
    /\ Go("idle")
    /\ UNCHANGED <<conflict, recover, boot, entries, crashes>>

(* No execution is known: the error goes to the caller and the intent is   *)
(* failed, that is, resolved.                                              *)
EntryFails == EntryEnds(pos, "none")

-----------------------------------------------------------------------------
(* Placing the order.                                                      *)

enterPosition ==
    /\ pc = "scan" /\ pos = NoPos
    /\ ~conflict /\ intent = "none" /\ entries < MaxEntries
    /\ \E style \in {"limit", "pegged"} : entry' = NewEntry(style)
    /\ intent' = "open"
    /\ entries' = entries + 1
    /\ Go("submit")
    /\ Faultless
    /\ UNCHANGED <<exchange, pos, snap, conflict, recover, boot, crashes>>

Submit ==
    /\ pc = "submit" /\ Spare # {}
    /\ LET o == Min(Spare)
           e == [entry EXCEPT !.mine = {o}]
       IN /\ orders' = Placed(orders, o, Lot)
          /\ \/ entry' = [e EXCEPT !.work = o] /\ Go("patience") /\ Faultless
             \/ entry' = [e EXCEPT !.lost = o] /\ Go("lookup") /\ Fault
    /\ Stay /\ UNCHANGED base

SubmitNeverArrives ==
    /\ pc = "submit" /\ Fault
    /\ Reads(entry, "lookup")
    /\ Stay

SubmitRefused ==
    /\ pc = "submit" /\ Fault
    /\ EntryFails
    /\ UNCHANGED exchange

(* recoverSubmittedEntryOrder: an order found by its client id is read,    *)
(* and left as it is.                                                      *)
SubmitRecovered ==
    /\ pc = "lookup" /\ entry.lost # None /\ Faultless
    /\ Reads([settleMakerOrder(entry, entry.lost) EXCEPT !.looked = TRUE], "fallback")
    /\ Stay

SubmitNotRecovered ==
    /\ pc = "lookup"
    /\ IF entry.lost = None THEN Faultless ELSE Fault
    /\ EntryFails
    /\ UNCHANGED exchange

-----------------------------------------------------------------------------
(* After the maker's patience: read, adjust, read again, cancel.           *)

ReadOrder ==
    /\ pc = "patience" /\ Faultless
    /\ Reads(settleMakerOrder(entry, entry.work),
             IF entry.work \in Live THEN "adjust" ELSE "fallback")
    /\ Stay

ReadOrderFails ==
    /\ pc = "patience" /\ Fault
    /\ Reads(entry, "pending")
    /\ Stay

(* No fresh bid, no keep-priority, or its error: on to the cancel.         *)
LeaveAsItIs ==
    /\ pc = "adjust" /\ Faultless
    /\ Reads(entry, "cancel")
    /\ Stay

(* amendOrderKeepPriority to what was filled and half of the rest; a limit *)
(* order only when it was partly filled, a pegged one is read again.       *)
Rest == orders[entry.work].qty - entry.known[entry.work]
ShrinkTo == entry.known[entry.work] + Max({Rest \div 2, 1})

Amend ==
    /\ pc = "adjust"
    /\ entry.style = "pegged" \/ entry.known[entry.work] > 0
    /\ entry.work \in Live
    /\ ShrinkTo \in (orders[entry.work].done + 1)..(orders[entry.work].qty - 1)
    /\ orders' = [orders EXCEPT ![entry.work].qty = ShrinkTo]
    /\ \/ Go(IF entry.style = "pegged" THEN "reread" ELSE "cancel") /\ Faultless
       \/ Go("cancel") /\ Fault
    /\ Stay /\ UNCHANGED <<base, entry>>

ReadAmended ==
    /\ pc = "reread"
    /\ \/ Reads(settleMakerOrder(entry, entry.work), "cancel") /\ Faultless
       \/ Reads(entry, "cancel") /\ Fault
    /\ Stay

(* cancelReplaceOrder, STOP_ON_FAILURE: the old order ends, the new one is *)
(* for what the last read left over.                                       *)
Replace ==
    /\ pc = "adjust" /\ entry.style = "limit"
    /\ entry.work \in Live /\ Spare # {}
    /\ LET o == Min(Spare)
           e == [entry EXCEPT !.mine = @ \cup {o}]
       IN /\ orders' = Placed(Ended(orders, entry.work), o, Rest)
          /\ \/ /\ entry' = [e EXCEPT !.work = o, !.replaced = TRUE]
                /\ Go("patience2") /\ Faultless
             \/ entry' = [e EXCEPT !.lost = o] /\ Go("lookup2") /\ Fault
    /\ Stay /\ UNCHANGED base

ReplaceNeverArrives ==
    /\ pc = "adjust" /\ entry.style = "limit" /\ Fault
    /\ Reads(entry, "lookup2")
    /\ Stay

(* The old order is over already, or the new one would take and is refused *)
(* after the old one was canceled: not an error that is looked up.         *)
ReplaceRefused ==
    /\ pc = "adjust" /\ entry.style = "limit"
    /\ orders' = Ended(orders, entry.work)
    /\ IF entry.work \in Live THEN Fault ELSE Faultless
    /\ Go("pending")
    /\ Stay /\ UNCHANGED <<base, entry>>

(* A failed read is handled like a failed replacement.                     *)
ReadReplacement ==
    /\ pc = "patience2"
    /\ \/ Reads(settleMakerOrder(entry, entry.work), "cancel") /\ Faultless
       \/ Reads([entry EXCEPT !.lost = entry.work], "lookup2") /\ Fault
       \/ Reads(entry, "pending") /\ Fault
    /\ Stay

ReplacementRecovered ==
    /\ pc = "lookup2" /\ entry.lost # None /\ Faultless
    /\ Reads([settleMakerOrder(entry, entry.lost) EXCEPT !.work = entry.lost,
                                                         !.replaced = TRUE], "cancel")
    /\ Stay

ReplacementNotRecovered ==
    /\ pc = "lookup2"
    /\ IF entry.lost = None THEN Faultless ELSE Fault
    /\ Reads(entry, "pending")
    /\ Stay

NothingToCancel ==
    /\ pc = "cancel" /\ ~entry.seen /\ Faultless
    /\ Reads(entry, "fallback")
    /\ Stay

cancelOrder ==
    /\ pc = "cancel" /\ entry.seen
    /\ \/ /\ entry.work \in Live
          /\ orders' = Ended(orders, entry.work)
          /\ \/ Go("confirm") /\ Faultless
             \/ Go("recheck") /\ Fault
       \/ /\ UNCHANGED orders
          /\ Go("recheck")
          /\ IF entry.work \in Live THEN Fault ELSE Faultless
    /\ Stay /\ UNCHANGED <<base, entry>>

ReadCanceled ==
    /\ pc = "confirm"
    /\ \/ Reads(settleMakerOrder(entry, entry.work), "fallback") /\ Faultless
       \/ Reads(entry, "recheck") /\ Fault
    /\ Stay

(* After a failed cancel: one more read, and an order that is, or was at   *)
(* the last read, active is an error.                                      *)
Recheck ==
    /\ pc = "recheck"
    /\ \/ /\ Reads(settleMakerOrder(entry, entry.work),
                   IF isActiveExchangeOrderStatus(entry.work) THEN "pending" ELSE "fallback")
          /\ Faultless
       \/ Reads(entry, "pending") /\ Fault
    /\ Stay

-----------------------------------------------------------------------------
(* The rest of enterPosition.                                              *)

(* recoverPendingEntryExecutions: what the helper had read is gone with    *)
(* its error; only the pending order is read again.                        *)
RecoverPending ==
    /\ pc = "pending" /\ Faultless
    /\ LET e == settleMakerOrder([entry EXCEPT !.known = NewEntry("limit").known], entry.work)
       IN IF Counted(e) > 0 THEN Reads(e, "flatten") /\ Stay
          ELSE EntryFails /\ UNCHANGED exchange

RecoverPendingFails ==
    /\ pc = "pending" /\ Fault
    /\ EntryFails
    /\ UNCHANGED exchange

MustFallBack == Counted(entry) = 0
MayFallBack == Counted(entry) < Lot

Enough ==
    /\ pc = "fallback" /\ ~MustFallBack /\ Faultless
    /\ Reads(entry, "protect")
    /\ Stay

(* placeMarketBuy for the quote that is left.                              *)
MarketBuy ==
    /\ pc = "fallback" /\ MayFallBack
    /\ base' = base + Lot - Counted(entry)
    /\ entry' = [entry EXCEPT !.market = Lot - Counted(entry)]
    /\ \E lost \in BOOLEAN : IF lost THEN Fault ELSE Faultless
    /\ Go("protect")
    /\ Stay /\ UNCHANGED orders

(* Refused, or timed out and not found: carried out or not.                *)
MarketBuyFails ==
    /\ pc = "fallback" /\ MayFallBack /\ Fault
    /\ base' \in {base, base + Lot - Counted(entry)}
    /\ IF Counted(entry) > 0 THEN Go("flatten") /\ Stay /\ UNCHANGED entry
       ELSE EntryFails
    /\ UNCHANGED orders

Held(qty) == [qty |-> qty, flagged |-> FALSE]

PositionOpened ==
    /\ pc = "protect" /\ Faultless
    /\ EntryEnds(Held(Counted(entry)), "none")
    /\ UNCHANGED exchange

ProtectionFails ==
    /\ pc = "protect" /\ Fault
    /\ Reads(entry, "flatten")
    /\ Stay

(* emergencyFlattenPosition: a sale that is not known to be complete keeps *)
(* the position, flagged and with its whole quantity.                      *)
Flattened ==
    /\ pc = "flatten" /\ Faultless
    /\ base' = base - Counted(entry)
    /\ EntryEnds(NoPos, "ambiguous")
    /\ UNCHANGED orders

FlattenFails ==
    /\ pc = "flatten" /\ Fault
    /\ \E n \in 0..Counted(entry) : base' = base - n
    /\ EntryEnds([Held(Counted(entry)) EXCEPT !.flagged = TRUE], "ambiguous")
    /\ UNCHANGED orders

-----------------------------------------------------------------------------
(* Reconcile: the account, then the open orders, then what the two say of  *)
(* entry orders, of the position and of what no position counts.           *)

Quiet == UNCHANGED <<entry, recover, entries, crashes>>

ReadAccount ==
    /\ pc \in {"idle", "boot"} /\ Faultless
    /\ snap' = [try |-> 1, base |-> base, open |-> {}, fresh |-> FALSE,
                base1 |-> base, open1 |-> {}, fresh1 |-> FALSE, todo |-> {}]
    /\ boot' = (pc = "boot")
    /\ Go("orders")
    /\ Quiet /\ UNCHANGED <<exchange, pos, intent, conflict>>

(* Without the account there is no reconcile: a cycle ends, init gives up. *)
AccountUnreadable ==
    /\ pc \in {"idle", "boot"} \/ (pc = "orders" /\ snap.try > 1)
    /\ Fault
    /\ Go(IF boot \/ pc = "boot" THEN "down" ELSE "idle")
    /\ snap' = NoSnap /\ boot' = FALSE
    /\ Quiet /\ UNCHANGED <<exchange, pos, intent, conflict>>

(* The orders cancelUnfilledEntryOrdersForReconcile will cancel.           *)
Blocking == intent # "none" \/ (pos # NoPos /\ pos.flagged)

ReadOrders ==
    /\ pc = "orders" /\ Faultless
    /\ IF snap.try > 1
       THEN /\ snap' = [snap EXCEPT !.open = Live, !.fresh = TRUE]
            /\ Go("judge")
       ELSE /\ snap' = [snap EXCEPT !.open = Live, !.fresh = TRUE, !.open1 = Live,
                                    !.fresh1 = TRUE,
                                    !.todo = IF Blocking /\ snap.base1 = 0
                                             THEN Unfilled ELSE {}]
            /\ Go("sweep")
    /\ Quiet /\ UNCHANGED <<exchange, pos, intent, conflict, boot>>

(* The read fails: nothing is known, or what the user stream last told; it *)
(* is not fresh either way.                                                *)
ReadOrdersFails ==
    /\ pc = "orders" /\ Fault
    /\ \E told \in {{}, Live} :
        snap' = IF snap.try > 1 THEN [snap EXCEPT !.open = told, !.fresh = FALSE]
                ELSE [snap EXCEPT !.open = told, !.open1 = told]
    /\ Go(IF snap.try > 1 THEN "judge" ELSE "sweep")
    /\ Quiet /\ UNCHANGED <<exchange, pos, intent, conflict, boot>>

Swept(o) == [snap EXCEPT !.todo = @ \ {o}, !.open = @ \ {o}, !.open1 = @ \ {o}]

SweepOrder ==
    /\ pc = "sweep" /\ snap.todo # {}
    /\ LET o == Min(snap.todo) IN
        \/ /\ o \in Live /\ Faultless
           /\ orders' = Ended(orders, o)
           /\ snap' = Swept(o)
           /\ intent' = "none"
        \/ /\ IF o \in Live THEN Fault ELSE Faultless
           /\ orders' \in {orders, Ended(orders, o)}
           /\ snap' = [snap EXCEPT !.todo = @ \ {o}]
           /\ UNCHANGED intent
    /\ Quiet /\ UNCHANGED <<base, pos, pc, conflict, boot>>

SweepDone ==
    /\ pc = "sweep" /\ snap.todo = {} /\ Faultless
    /\ Go(IF pos = NoPos THEN "untracked" ELSE "judge")
    /\ Quiet /\ UNCHANGED <<exchange, pos, intent, snap, conflict, boot>>

(* classifyReconcileDecision, as far as a buy order enters it; a sound     *)
(* snapshot may still be retried or sent to review (see LiveBroker).       *)
Judged(p) ==
    /\ pos' = p
    /\ Go("untracked")
    /\ Faultless
    /\ Quiet /\ UNCHANGED <<exchange, intent, snap, conflict, boot>>

RetrySnapshot ==
    /\ pc = "judge" /\ snap.try < Attempts /\ Faultless
    /\ snap' = [snap EXCEPT !.try = @ + 1, !.base = base]
    /\ Go("orders")
    /\ Quiet /\ UNCHANGED <<exchange, pos, intent, conflict, boot>>

FlagPosition == pc = "judge" /\ Judged([pos EXCEPT !.flagged = TRUE])

(* Seeded bug: that the account holds some of it is enough.                *)
AgreesWithAny == snap.fresh /\ snap.open = {} /\ snap.base > 0

Agrees == snap.fresh /\ snap.open = {} /\ snap.base = pos.qty

ClearPosition == pc = "judge" /\ Agrees /\ Judged([pos EXCEPT !.flagged = FALSE])

ClosePosition ==
    /\ pc = "judge"
    /\ snap.fresh /\ snap.open = {} /\ snap.base = 0
    /\ Judged(NoPos)

(* Seeded bug: only an intent of this process's life is stale.             *)
OpenResolved ==
    IF pos = NoPos /\ snap.fresh1 /\ snap.open1 = {} /\ snap.base1 = 0 /\ intent = "open"
    THEN "none" ELSE intent

(* resolveStaleEntryIntentsFromExchangeTruth.                              *)
StaleResolved ==
    IF pos = NoPos /\ snap.fresh1 /\ snap.open1 = {} /\ snap.base1 = 0
    THEN "none" ELSE intent

(* Seeded bug: an order without a balance is no conflict.                  *)
BalanceConflict(p) == p = NoPos /\ snap.base1 > 0

(* The exchange conflicts a reconcile leaves for the entry gate: an order  *)
(* or a balance without a position.                                        *)
Conflict(p) == p = NoPos /\ (snap.open1 # {} \/ snap.base1 > 0)

Reconciled(p) ==
    /\ pos' = p
    /\ conflict' = Conflict(p)
    /\ Go(IF boot THEN "idle" ELSE "scan")
    /\ boot' = FALSE
    /\ Quiet /\ UNCHANGED <<exchange, snap>>

NothingUntracked ==
    /\ pc = "untracked" /\ Faultless
    /\ pos # NoPos \/ snap.base1 = 0 \/ ~recover
    /\ intent' = StaleResolved
    /\ Reconciled(pos)

RecoverBalance ==
    /\ pc = "untracked" /\ pos = NoPos /\ snap.base1 > 0 /\ recover
    /\ \/ Reconciled(Held(snap.base1)) /\ Faultless
       \/ Reconciled([Held(snap.base1) EXCEPT !.flagged = TRUE]) /\ Fault
    /\ UNCHANGED intent

EndCycle ==
    /\ pc = "scan" /\ Faultless
    /\ Go("idle")
    /\ snap' = NoSnap
    /\ Quiet /\ UNCHANGED <<exchange, pos, intent, conflict, boot>>

-----------------------------------------------------------------------------
(* The process dies.  Intents and what they led to are saved at each of    *)
(* their steps; a judgement of the position that was not, is made again by *)
(* init's reconcile, as if the death had come before it.                   *)
Crash ==
    /\ pc \notin {"down", "untracked"} /\ crashes < MaxCrashes
    /\ crashes' = crashes + 1
    /\ intent' = IF intent = "none" THEN "none" ELSE "ambiguous"
    /\ entry' = NoEntry /\ snap' = NoSnap
    /\ conflict' = FALSE /\ boot' = FALSE
    /\ Go("down")
    /\ UNCHANGED <<exchange, pos, recover, entries, faults>>

Restart ==
    /\ pc = "down" /\ Faultless
    /\ Go("boot")
    /\ Quiet /\ UNCHANGED <<exchange, pos, intent, snap, conflict, boot>>

Entry ==
    \/ enterPosition \/ Submit \/ SubmitNeverArrives \/ SubmitRefused
    \/ SubmitRecovered \/ SubmitNotRecovered \/ ReadOrder \/ ReadOrderFails
    \/ LeaveAsItIs \/ Amend \/ ReadAmended \/ Replace \/ ReplaceNeverArrives
    \/ ReplaceRefused \/ ReadReplacement \/ ReplacementRecovered
    \/ ReplacementNotRecovered \/ NothingToCancel \/ cancelOrder \/ ReadCanceled
    \/ Recheck \/ RecoverPending \/ RecoverPendingFails \/ Enough \/ MarketBuy
    \/ MarketBuyFails \/ PositionOpened \/ ProtectionFails \/ Flattened \/ FlattenFails

Reconcile ==
    \/ ReadAccount \/ AccountUnreadable \/ ReadOrders \/ ReadOrdersFails
    \/ SweepOrder \/ SweepDone \/ RetrySnapshot \/ FlagPosition \/ ClearPosition
    \/ ClosePosition \/ NothingUntracked \/ RecoverBalance \/ EndCycle

MakerNext == Fill \/ Entry \/ Reconcile \/ Crash \/ Restart

MakerSpec == MakerInit /\ [][MakerNext]_makerVars

(* Every await of the bot ends: its requests have timeouts, its sleeps are *)
(* timers, and the manager runs cycle after cycle.  The exchange need      *)
(* never fill anything.                                                    *)
FairMakerSpec == MakerSpec /\ WF_makerVars(Entry \/ Reconcile \/ Restart)

-----------------------------------------------------------------------------
Waiting == {"idle", "boot", "down", "scan", "orders", "sweep", "judge", "untracked",
            "submit", "lookup", "patience", "adjust", "reread", "patience2", "lookup2",
            "cancel", "confirm", "recheck", "fallback", "protect", "flatten", "pending"}

(* Every variable has its type; no order fills beyond its size.            *)
MakerTypeOK ==
    /\ base \in Nat
    /\ orders \in [OrderId -> [qty : 0..Lot, done : 0..Lot, live : BOOLEAN]]
    /\ \A o \in OrderId : orders[o].done <= orders[o].qty
    /\ pos = NoPos \/ (pos.qty \in Nat \ {0} /\ pos.flagged \in BOOLEAN)
    /\ intent \in {"none", "open", "ambiguous"}
    /\ pc \in Waiting
    /\ {conflict, recover, boot} \subseteq BOOLEAN
    /\ entries \in 0..MaxEntries /\ faults \in 0..MaxFaults /\ crashes \in 0..MaxCrashes

(* A position that is not flagged never claims more than the account       *)
(* holds, however often and in which order its fills were read.            *)
NeverOverclaims == pos # NoPos /\ ~pos.flagged => pos.qty <= base

(* test/run.js:5326 "blocks entry completion when a partial maker order    *)
(* stays active", as far as the code keeps it: an entry whose order was    *)
(* answered, and is about to be protected, has no order left on the        *)
(* exchange; unless it replaced one, it counts exactly what they filled.   *)
CompletedEntryIsOver ==
    pc = "protect" /\ ~entry.looked =>
        /\ entry.mine \cap Live = {}
        /\ ~entry.replaced => \A o \in entry.mine : entry.known[o] = orders[o].done

(* The same without the exceptions, and test/run.js:4420 "aggregates fills *)
(* across limit-maker cancel-replace refreshes".                           *)
EveryFillIsCounted ==
    pc = "protect" =>
        /\ entry.mine \cap Live = {}
        /\ \A o \in entry.mine : entry.known[o] = orders[o].done

(* No entry is submitted beside an order of an earlier one, whatever that  *)
(* one left behind, provided this cycle could read the open orders.        *)
EntryWaitsForOrders == pc = "submit" /\ snap.fresh1 => Live = {}

(* A balance no position counts, or an order no position owns, does not    *)
(* stay unseen: it is sold, counted, flagged or a conflict in the end.     *)
Unseen == (base # pos.qty \/ Live # {}) /\ ~conflict /\ ~(pos # NoPos /\ pos.flagged)
NothingStaysUnseen == Unseen ~> ~Unseen

(* An ambiguous entry intent, which blocks every entry, is lifted once     *)
(* the exchange holds nothing of it.                                       *)
AmbiguityLifts ==
    intent = "ambiguous" /\ pos = NoPos /\ base = 0 /\ Live = {}
        ~> intent # "ambiguous"
=============================================================================
