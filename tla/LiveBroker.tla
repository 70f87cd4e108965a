----------------------------- MODULE LiveBroker -----------------------------
(***************************************************************************)
(* One symbol traded live: the exchange's account and order lists, the    *)
(* position and the execution intents the bot keeps about them, and the    *)
(* cycle that reconciles the two, manages the position and enters a new   *)
(* one (src/execution/liveBroker.js, liveBrokerReconcile.js,               *)
(* executionIntentLedger.js and their caller runtime/tradingBot.js).       *)
(*                                                                         *)
(* An order request is three steps: the bot sends it, the exchange carries *)
(* it out, refuses it or never sees it, and the bot handles the reply,     *)
(* which may be a timeout either way.  A request that timed out is over:   *)
(* the signed recvWindow (5 s) is shorter than the timeout (10 s).  A      *)
(* protective list (OCO) may fill between any two steps, and the process   *)
(* may die at any moment and start again from its last save.               *)
(***************************************************************************)
EXTENDS Integers, FiniteSets, FiniteSetsExt

CONSTANTS
    Lot,            \* base quantity one market entry buys
    ListId,         \* bound: ids of order lists, reused when nothing refers to them
    Attempts,       \* retryCount + 1: exchange snapshots one reconcile tries
    MaxCrashes,     \* bound: deaths of the process
    RecoverChoices  \* values considered of allowRecoverUnsyncedPositions

ASSUME BrokerAssumption ==
    /\ Lot \in Nat \ {0, 1}
    /\ IsFiniteSet(ListId) /\ ListId \subseteq Nat \ {0} /\ ListId # {}
    /\ Attempts \in Nat \ {0}
    /\ MaxCrashes \in Nat
    /\ RecoverChoices \subseteq BOOLEAN /\ RecoverChoices # {}

NoList == 0             \* protectiveOrderListId: null
NoPos == [qty |-> 0]    \* no position of the symbol in runtime.openPositions
Key == {"entry", "exit", "scale_out", "protective_cancel", "refresh_cancel",
        "protective_build", "protective_rebuild", "refresh_rebuild",
        "recover_exit", "recover_scale"}
Gone == [qty |-> 0, done |-> 0, open |-> FALSE]
NoReply == [st |-> "none", n |-> 0]
NoSnap == [try |-> 0]

VARIABLES
    recover,    \* config.allowRecoverUnsyncedPositions, fixed for the run
    base,       \* exchange: balance of the base asset, free and locked
    lists,      \* exchange: order lists, with what they sold so far
    pos,        \* the position: quantity, linked list, reconcileRequired, mode
    ledger,     \* status of each dedupe key: none, open, ambiguous
    disk,       \* last saved position and ledger
    pc,         \* where the bot is; "buy", "sell", "oco", "cancel" await a reply
    op,         \* the operation the awaited request serves
    reply,      \* what came back, if anything
    snap,       \* the exchange snapshots of the running reconcile
    boot,       \* this reconcile is init's
    conflict,   \* the symbol is in exchangeTruth's or exchangeSafety's blocks
    crashes

exchange == <<base, lists>>
memory == <<pos, ledger, disk>>
cycle == <<snap, boot, conflict>>
rest == <<recover, crashes>>
vars == <<recover, base, lists, pos, ledger, disk, pc, op, reply, snap, boot,
          conflict, crashes>>

Clean == [k \in Key |-> "none"]

Init ==
    /\ recover \in RecoverChoices
    /\ base = 0
    /\ lists = [i \in ListId |-> Gone]
    /\ pos = NoPos
    /\ ledger = Clean
    /\ disk = [pos |-> NoPos, ledger |-> Clean]
    /\ pc = "idle"
    /\ op = "none"
    /\ reply = NoReply
    /\ snap = NoSnap
    /\ boot = FALSE
    /\ conflict = FALSE
    /\ crashes = 0

-----------------------------------------------------------------------------
(* The exchange.                                                           *)

Open == {i \in ListId : lists[i].open}
Remaining(i) == lists[i].qty - lists[i].done
Locked == MapThenSumSet(Remaining, Open)
Free == base - Locked

(* The id of a list nothing refers to any more.                            *)
Linked(p) == IF p = NoPos THEN {} ELSE {p.link}
Spare == ListId \ (Open \cup Linked(pos) \cup Linked(disk.pos))

Answer(outcomes, n) == \E st \in outcomes : reply' = [st |-> st, n |-> n]
Awaited(request) == pc = request /\ reply = NoReply
Answered(request) == pc = request /\ reply # NoReply

SellQty == IF op = "scale_out" THEN 1 ELSE IF pos = NoPos THEN Lot ELSE pos.qty
OcoQty == IF pos = NoPos THEN Lot ELSE pos.qty

bot == <<pos, ledger, disk, pc, op, snap, boot, conflict>>

BuyExecutes ==
    /\ Awaited("buy")
    /\ base' = base + Lot
    /\ Answer({"ok", "timeout"}, Lot)
    /\ UNCHANGED <<lists, bot, rest>>

(* A market sell of what is free; it may expire partly filled.             *)
SellExecutes ==
    /\ Awaited("sell") /\ SellQty <= Free
    /\ \E n \in 0..SellQty :
        /\ base' = base - n
        /\ Answer({"ok", "timeout"}, n)
    /\ UNCHANGED <<lists, bot, rest>>

OcoExecutes ==
    /\ Awaited("oco") /\ OcoQty <= Free /\ Spare # {}
    /\ lists' = [i \in ListId |->
                    IF i = Min(Spare) THEN [qty |-> OcoQty, done |-> 0, open |-> TRUE]
                    ELSE IF i \in Spare THEN Gone ELSE lists[i]]
    /\ Answer({"ok", "timeout"}, Min(Spare))
    /\ UNCHANGED <<base, bot, rest>>

CancelExecutes ==
    /\ Awaited("cancel") /\ pos.link \in Open
    /\ lists' = [lists EXCEPT ![pos.link].open = FALSE]
    /\ Answer({"ok", "timeout"}, 0)
    /\ UNCHANGED <<base, bot, rest>>

(* A filter, a price check, the balance or an unknown list.  A finished    *)
(* list may also be answered as ALL_DONE.                                  *)
Refuses ==
    /\ \E r \in {"buy", "sell", "oco", "cancel"} : Awaited(r)
    /\ pc = "cancel" => pos.link \notin Open
    /\ Answer({"rejected"} \cup (IF pc = "cancel" THEN {"ok"} ELSE {}), 0)
    /\ UNCHANGED <<exchange, bot, rest>>

NeverArrives ==
    /\ \E r \in {"buy", "sell", "oco", "cancel"} : Awaited(r)
    /\ Answer({"timeout"}, 0)
    /\ UNCHANGED <<exchange, bot, rest>>

ListFills ==
    /\ \E i \in Open : \E n \in 1..Remaining(i) :
        /\ base' = base - n
        /\ lists' = [lists EXCEPT ![i].done = @ + n, ![i].open = n < Remaining(i)]
    /\ UNCHANGED <<bot, reply, rest>>

-----------------------------------------------------------------------------
(* The bot's memory.                                                       *)

Held(qty, link) == [qty |-> qty, link |-> link, rec |-> FALSE, mode |-> "normal"]

clearPositionReconcileFlags(p) == [p EXCEPT !.rec = FALSE, !.mode = "normal"]
markPositionForManualReview(p) == [p EXCEPT !.rec = TRUE, !.mode = "manual"]
ProtectOnly(m) == IF m = "manual" THEN m ELSE "protect_only"
markPositionForRetry(p) == [p EXCEPT !.rec = TRUE, !.mode = ProtectOnly(@)]

(* Seeded bug: the list is forgotten and the position not flagged.         *)
UnlinkedOnly(p) == [p EXCEPT !.link = NoList]
Unprotected(p) == [p EXCEPT !.link = NoList, !.rec = TRUE]

(* Seeded bug: any fill of the list is taken for the whole position.       *)
SettleClosesAlways(p) == IF lists[p.link].done > 0 THEN NoPos ELSE p

(* Seeded bug: the list that sold part of the position stays linked.       *)
SettleKeepsLink(p) ==
    LET l == lists[p.link] IN
    IF l.done >= p.qty \/ l.done = l.qty THEN NoPos ELSE [p EXCEPT !.qty = @ - l.done]

settleProtectiveOrderFill(p) ==
    LET l == lists[p.link] IN
    IF l.done >= p.qty \/ l.done = l.qty THEN NoPos
    ELSE [Unprotected(p) EXCEPT !.qty = @ - l.done]

(* Errors of management: failures in a row are forgotten unless the       *)
(* position is flagged, so only a flagged one is escalated.                *)
Escalated(p) ==
    {p} \cup (IF p.rec \/ p.mode = "manual"
              THEN {[p EXCEPT !.mode = ProtectOnly(@)], [p EXCEPT !.mode = "manual"]}
              ELSE {})

With(led, k, st) == [led EXCEPT ![k] = st]
Save == disk' = [pos |-> pos', ledger |-> ledger']

(* Settle the operation: the handler ends with this position and ledger.   *)
Settle(p, led, next) ==
    /\ pos' = p
    /\ ledger' = led
    /\ Save
    /\ pc' = next
    /\ op' = "none"
    /\ reply' = NoReply

Send(request, o, p, led) ==
    /\ pos' = p
    /\ ledger' = led
    /\ Save
    /\ pc' = request
    /\ op' = o
    /\ reply' = NoReply

OcoKey(o) ==
    CASE o = "entry" -> "protective_build"
      [] o \in {"rebuild", "untracked", "after_exit", "after_scale"} -> "protective_rebuild"
      [] o = "refresh" -> "refresh_rebuild"
      [] o \in {"recover_exit", "recover_scale"} -> o

(* ensureProtectiveOrder with nothing linked: a key left unresolved is an  *)
(* error, which the caller handles.                                        *)
ensureProtectiveOrder(o, p, led, Duplicate) ==
    \/ led[OcoKey(o)] = "none" /\ Send("oco", o, p, With(led, OcoKey(o), "open"))
    \/ led[OcoKey(o)] # "none" /\ Duplicate

recoverPositionProtection(o, p, led) ==
    ensureProtectiveOrder(o, p, led, Settle(Unprotected(p), led, "scan"))

-----------------------------------------------------------------------------
(* Reconcile: an account read, a read of the open orders and lists, then   *)
(* the position, then what the runtime does not track.                     *)

ReadAccount ==
    /\ pc \in {"idle", "boot"}
    /\ snap' = [try |-> 1, base |-> base, locked |-> Locked, open |-> {},
                partial |-> FALSE, err |-> "none", base1 |-> base, open1 |-> {},
                fresh1 |-> FALSE]
    /\ boot' = (pc = "boot")
    /\ pc' = "lists"
    /\ UNCHANGED <<exchange, memory, op, reply, conflict, rest>>

(* The reads fail together or not at all: the code treats every mixture    *)
(* as a partial snapshot.                                                  *)
ReadLists ==
    /\ pc = "lists"
    /\ \E ok \in BOOLEAN :
        LET seen == IF ok THEN Open ELSE {}
            now == [snap EXCEPT !.open = seen, !.partial = ~ok]
        IN snap' = IF snap.try > 1 THEN now
                   ELSE [now EXCEPT !.open1 = seen, !.fresh1 = ok]
    /\ pc' = IF snap.try > 1 THEN "decide" ELSE IF pos = NoPos THEN "untracked" ELSE "sync"
    /\ UNCHANGED <<exchange, memory, op, reply, boot, conflict, rest>>

(* An error that reconcileRuntime does not catch: init gives up, a cycle   *)
(* ends (and is saved).                                                    *)
Booting == boot \/ pc = "boot"

Abort(led) ==
    /\ pc' = IF Booting THEN "down" ELSE "idle"
    /\ pos' = IF Booting THEN disk.pos ELSE pos
    /\ ledger' = IF Booting THEN disk.ledger ELSE led
    /\ Save
    /\ op' = "none"
    /\ reply' = NoReply
    /\ snap' = NoSnap
    /\ boot' = FALSE
    /\ UNCHANGED <<exchange, conflict, rest>>

ReadFails == (pc = "boot" \/ (pc = "lists" /\ snap.try > 1)) /\ Abort(ledger)

Judged(p) ==
    /\ pos' = p
    /\ pc' = "untracked"
    /\ UNCHANGED <<exchange, ledger, disk, op, reply, cycle, rest>>

(* A position under retry waits out its cooldown.                          *)
CooldownWait ==
    /\ pc = "sync" /\ pos.mode # "normal"
    /\ Judged(markPositionForRetry(pos))

ToDecide(p, err) ==
    /\ pos' = p
    /\ pc' = "decide"
    /\ snap' = [snap EXCEPT !.err = err]
    /\ UNCHANGED <<exchange, ledger, disk, op, reply, boot, conflict, rest>>

(* syncPosition, by what the exchange says of the linked list and whether  *)
(* the user stream has reported a fill of it recently.                     *)
SyncQuiet ==
    /\ pc = "sync"
    /\ pos.link = NoList \/ pos.link \in Open
    /\ ToDecide(pos, "none")

SyncStreamFill ==
    /\ pc = "sync" /\ pos.link # NoList
    /\ lists[pos.link].done \in 1..(lists[pos.link].qty - 1)
    /\ LET p == settleProtectiveOrderFill(pos) IN
        IF pos.link \in Open /\ p # NoPos THEN ToDecide(p, "none") ELSE Judged(p)

SyncFilled ==
    /\ pc = "sync" /\ pos.link # NoList
    /\ lists[pos.link].done = lists[pos.link].qty
    /\ Judged(NoPos)

SyncCanceled ==
    /\ pc = "sync" /\ pos.link # NoList /\ pos.link \notin Open
    /\ lists[pos.link].done < lists[pos.link].qty
    /\ ToDecide([pos EXCEPT !.link = NoList], "none")

SyncFails ==
    /\ pc = "sync" /\ pos.link # NoList
    /\ \E err \in {"retriable", "fatal"} :
        \/ ToDecide(pos, err)
        \/ /\ lists[pos.link].done > 0
           /\ LET p == settleProtectiveOrderFill(pos) IN
                IF p = NoPos THEN Judged(p) ELSE ToDecide(p, err)

(* classifyReconcileDecision over the snapshot.  Prices, notional caps,    *)
(* ages of fills and the read of recent trades can turn a sound snapshot   *)
(* into a retry or a manual review, so both are always possible.           *)
Sound == snap.err = "none" /\ ~snap.partial
VenueQty == IF (pos.link # NoList \/ snap.open # {}) /\ snap.locked = pos.qty
            THEN snap.locked ELSE snap.base
Expected == snap.open \subseteq {pos.link}
Retriable == snap.err # "fatal"
NeedsManual == snap.err = "fatal" \/ Sound
ConfirmedFlat == Sound /\ snap.open = {} /\ VenueQty = 0
Agrees == Sound /\ Expected /\ VenueQty = pos.qty

RetrySnapshot ==
    /\ pc = "decide" /\ Retriable /\ snap.try < Attempts
    /\ snap' = [snap EXCEPT !.try = @ + 1, !.base = base, !.locked = Locked,
                            !.err = "none"]
    /\ pc' = "lists"
    /\ UNCHANGED <<exchange, memory, op, reply, boot, conflict, rest>>

RetriesExhausted ==
    /\ pc = "decide" /\ Retriable /\ snap.try = Attempts
    /\ Judged(markPositionForRetry(pos))

ManualReview ==
    /\ pc = "decide" /\ NeedsManual
    /\ Judged(markPositionForManualReview(pos))

FlatClose ==
    /\ pc = "decide" /\ ConfirmedFlat
    /\ Judged(NoPos)

VerifyOnly ==
    /\ pc = "decide" /\ Agrees /\ pos.link \in snap.open
    /\ Judged(clearPositionReconcileFlags(pos))

(* Missing protection.  With a link, ensureProtectiveOrder does nothing    *)
(* and the flags are cleared all the same.                                 *)
RebuildNothing ==
    /\ pc = "decide" /\ Agrees /\ pos.link \notin snap.open /\ pos.link # NoList
    /\ Judged(clearPositionReconcileFlags(pos))

Rebuild ==
    /\ pc = "decide" /\ Agrees /\ pos.link = NoList
    /\ \/ /\ ledger["protective_rebuild"] = "none"
          /\ Send("oco", "rebuild", pos, With(ledger, "protective_rebuild", "open"))
          /\ UNCHANGED <<exchange, cycle, rest>>
       \/ ledger["protective_rebuild"] # "none" /\ Abort(ledger)

(* The end of reconcile: init saves and is ready, a cycle goes on.         *)
Reconciled(p, led, blocked) ==
    /\ Settle(p, led, IF boot THEN "idle" ELSE "manage")
    /\ conflict' = blocked
    /\ snap' = NoSnap
    /\ boot' = FALSE
    /\ UNCHANGED <<exchange, rest>>

StaleResolved(led) == IF snap.fresh1 THEN With(led, "entry", "none") ELSE led

(* What the runtime does not track, by the first snapshot of the reconcile. *)
NothingUntracked ==
    /\ pc = "untracked"
    /\ IF pos # NoPos THEN Reconciled(pos, ledger, FALSE)
       ELSE /\ snap.base1 = 0
            /\ Reconciled(pos, StaleResolved(ledger), snap.open1 # {})

(* Seeded bug: an untracked balance is reported and blocks nothing.        *)
UntrackedUnblocked ==
    /\ pc = "untracked" /\ pos = NoPos /\ snap.base1 > 0
    /\ ~recover \/ snap.open1 # {}
    /\ Reconciled(pos, ledger, FALSE)

UntrackedBalance ==
    /\ pc = "untracked" /\ pos = NoPos /\ snap.base1 > 0
    /\ ~recover \/ snap.open1 # {}
    /\ Reconciled(pos, ledger, TRUE)

RecoverBalance ==
    /\ pc = "untracked" /\ pos = NoPos /\ snap.base1 > 0
    /\ recover /\ snap.open1 = {}
    /\ LET p == Held(snap.base1, NoList) IN
        \/ /\ ledger["protective_rebuild"] = "none"
           /\ Send("oco", "untracked", p, With(ledger, "protective_rebuild", "open"))
           /\ UNCHANGED <<exchange, cycle, rest>>
        \/ /\ ledger["protective_rebuild"] # "none"
           /\ Reconciled(markPositionForRetry(p), ledger, FALSE)

-----------------------------------------------------------------------------
(* Management of the position (one operation a cycle), then the scan.      *)

(* Nothing to do, or an error before any request.                          *)
Hold ==
    /\ pc = "manage"
    /\ pos' \in IF pos = NoPos THEN {pos} ELSE Escalated(pos)
    /\ pc' = "scan"
    /\ UNCHANGED <<exchange, ledger, disk, op, reply, cycle, rest>>

(* exitPosition and scaleOutPosition: open the intent, cancel the linked   *)
(* list, sell.  A key left unresolved ends the operation at once.          *)
Manage(o) ==
    /\ IF ledger[o] # "none" THEN \E q \in Escalated(pos) : Settle(q, ledger, "scan")
       ELSE IF pos.link = NoList THEN Send("sell", o, pos, With(ledger, o, "open"))
       ELSE IF ledger["protective_cancel"] # "none"
       THEN \E q \in Escalated(pos) : Settle(q, ledger, "scan")
       ELSE Send("cancel", o, pos,
                 With(With(ledger, o, "open"), "protective_cancel", "open"))
    /\ UNCHANGED <<exchange, cycle, rest>>

exitPosition == pc = "manage" /\ pos # NoPos /\ Manage("exit")

scaleOutPosition ==
    /\ pc = "manage" /\ pos # NoPos
    /\ pos.mode = "normal" /\ pos.qty > 1
    /\ Manage("scale_out")

refreshProtectiveOrder ==
    /\ pc = "manage" /\ pos # NoPos
    /\ ~pos.rec /\ pos.mode # "manual"
    /\ \/ /\ pos.link = NoList
          /\ ensureProtectiveOrder("refresh", pos, ledger,
                                   Settle(Unprotected(pos), ledger, "scan"))
       \/ /\ pos.link # NoList
          /\ IF ledger["refresh_cancel"] # "none" THEN Settle(pos, ledger, "scan")
             ELSE Send("cancel", "refresh", pos, With(ledger, "refresh_cancel", "open"))
    /\ UNCHANGED <<exchange, cycle, rest>>

CancelKey == IF op = "refresh" THEN "refresh_cancel" ELSE "protective_cancel"
Failed(led, o) == IF o \in Key THEN With(led, o, "none") ELSE led
RecoverOp == IF op = "exit" THEN "recover_exit" ELSE "recover_scale"

(* cancelProtectiveOrders, strict: ALL_DONE with nothing sold.             *)
CancelDone ==
    /\ Answered("cancel") /\ reply.st = "ok" /\ lists[pos.link].done = 0
    /\ LET p == [pos EXCEPT !.link = NoList]
           led == With(ledger, CancelKey, "none")
       IN IF op = "refresh"
          THEN ensureProtectiveOrder(op, p, led, Settle(Unprotected(p), led, "scan"))
          ELSE Send("sell", op, p, led)
    /\ UNCHANGED <<exchange, cycle, rest>>

(* ALL_DONE after a fill: the cancel intent is left as it was, and so is   *)
(* the operation's when the position is closed.  A partial fill fails the  *)
(* operation, whose handler protects what is left.                         *)
CancelFoundFill ==
    /\ Answered("cancel") /\ reply.st = "ok" /\ lists[pos.link].done > 0
    /\ LET p == settleProtectiveOrderFill(pos) IN
        IF p = NoPos \/ op = "refresh"
        THEN /\ pos' = p
             /\ pc' = "scan" /\ op' = "none" /\ reply' = NoReply
             /\ UNCHANGED <<ledger, disk>>
        ELSE recoverPositionProtection(RecoverOp, p, Failed(ledger, op))
    /\ UNCHANGED <<exchange, cycle, rest>>

CancelFailed ==
    /\ Answered("cancel") /\ reply.st # "ok"
    /\ LET led == Failed(With(ledger, CancelKey, "ambiguous"), op) IN
        \E q \in IF op = "refresh" THEN {pos} ELSE Escalated(pos) : Settle(q, led, "scan")
    /\ UNCHANGED <<exchange, cycle, rest>>

Sold == reply.st = "ok"

ExitSold ==
    /\ Answered("sell") /\ op = "exit" /\ Sold
    /\ LET p == [pos EXCEPT !.qty = @ - reply.n]
           led == With(ledger, "exit", "none")
       IN IF p.qty = 0 THEN Settle(NoPos, led, "scan")
          ELSE ensureProtectiveOrder("after_exit", p, ledger,
                   recoverPositionProtection("recover_exit", Unprotected(p), led))
    /\ UNCHANGED <<exchange, cycle, rest>>

ScaledOut ==
    /\ Answered("sell") /\ op = "scale_out" /\ Sold /\ reply.n > 0
    /\ LET p == [pos EXCEPT !.qty = @ - reply.n, !.link = NoList] IN
        ensureProtectiveOrder("after_scale", p, ledger,
            Settle(Unprotected(p), With(ledger, "scale_out", "none"), "scan"))
    /\ UNCHANGED <<exchange, cycle, rest>>

SellFailed ==
    /\ Answered("sell")
    /\ \/ op = "exit" /\ ~Sold
       \/ op = "scale_out" /\ (~Sold \/ reply.n = 0)
    /\ recoverPositionProtection(RecoverOp, pos, Failed(ledger, op))
    /\ UNCHANGED <<exchange, cycle, rest>>

-----------------------------------------------------------------------------
(* placeProtectiveOrder's reply, and what each of its callers does next.   *)

Placed(p) == [p EXCEPT !.link = reply.n, !.rec = FALSE]
WithoutOcoKey == With(ledger, OcoKey(op), "none")

OcoPlaced ==
    /\ Answered("oco") /\ reply.st = "ok"
    /\ CASE op = "entry" ->
              /\ Settle(Held(Lot, reply.n), With(WithoutOcoKey, "entry", "none"), "idle")
              /\ UNCHANGED <<exchange, cycle, rest>>
         [] op = "rebuild" ->
              Reconciled(clearPositionReconcileFlags(Placed(pos)), WithoutOcoKey, FALSE)
         [] op = "untracked" -> Reconciled(Placed(pos), WithoutOcoKey, FALSE)
         [] op = "after_exit" ->
              /\ Settle(Placed(pos), With(WithoutOcoKey, "exit", "none"), "scan")
              /\ UNCHANGED <<exchange, cycle, rest>>
         [] op = "after_scale" ->
              /\ Settle(Placed(pos), With(WithoutOcoKey, "scale_out", "none"), "scan")
              /\ UNCHANGED <<exchange, cycle, rest>>
         [] OTHER ->
              /\ Settle(Placed(pos), WithoutOcoKey, "scan")
              /\ UNCHANGED <<exchange, cycle, rest>>

(* Of a reconcile's rebuild only a refusal is handled.                     *)
RebuildFailed ==
    /\ Answered("oco") /\ reply.st # "ok" /\ op = "rebuild"
    /\ IF reply.st = "rejected"
       THEN Reconciled([Unprotected(pos) EXCEPT !.mode = "protect_only"], WithoutOcoKey, FALSE)
       ELSE Abort(WithoutOcoKey)

RecoveredUnprotected ==
    /\ Answered("oco") /\ reply.st # "ok" /\ op = "untracked"
    /\ Reconciled([Unprotected(pos) EXCEPT !.mode = "protect_only"], WithoutOcoKey, FALSE)

OcoFailed ==
    /\ Answered("oco") /\ reply.st # "ok" /\ op \notin {"rebuild", "untracked"}
    /\ CASE op = "entry" -> Send("sell", "flatten", pos, WithoutOcoKey)
         [] op = "after_exit" ->
              recoverPositionProtection("recover_exit", Unprotected(pos),
                                        With(WithoutOcoKey, "exit", "none"))
         [] op = "after_scale" ->
              Settle(Unprotected(pos), With(WithoutOcoKey, "scale_out", "none"), "scan")
         [] OTHER -> Settle(Unprotected(pos), WithoutOcoKey, "scan")
    /\ UNCHANGED <<exchange, cycle, rest>>

-----------------------------------------------------------------------------
(* Entry.                                                                  *)

(* Seeded bug: the exchange conflicts do not reach the entry gate.         *)
EntryUnblocked == \E k \in Key : ledger[k] = "ambiguous"
EntryBlocked == conflict \/ \E k \in Key : ledger[k] = "ambiguous"

enterPosition ==
    /\ pc = "scan" /\ pos = NoPos
    /\ ~EntryBlocked /\ ledger["entry"] = "none"
    /\ Send("buy", "entry", NoPos, With(ledger, "entry", "open"))
    /\ UNCHANGED <<exchange, cycle, rest>>

(* A buy that timed out is looked up; the lookup may fail as well.         *)
Bought ==
    /\ Answered("buy") /\ reply.n > 0
    /\ ensureProtectiveOrder("entry", NoPos, ledger, Send("sell", "flatten", NoPos, ledger))
    /\ UNCHANGED <<exchange, cycle, rest>>

(* Seeded bug: a failed entry leaves its intent open.                      *)
NotBoughtForgotten ==
    /\ Answered("buy") /\ reply.st # "ok"
    /\ Settle(NoPos, ledger, "idle")
    /\ UNCHANGED <<exchange, cycle, rest>>

NotBought ==
    /\ Answered("buy") /\ reply.st # "ok"
    /\ Settle(NoPos, With(ledger, "entry", "none"), "idle")
    /\ UNCHANGED <<exchange, cycle, rest>>

(* emergencyFlattenPosition: either way the entry stays ambiguous.         *)
Flattened ==
    /\ Answered("sell") /\ op = "flatten"
    /\ Settle(IF Sold /\ reply.n = Lot THEN NoPos ELSE Unprotected(Held(Lot, NoList)),
              With(ledger, "entry", "ambiguous"), "idle")
    /\ UNCHANGED <<exchange, cycle, rest>>

EndCycle ==
    /\ pc = "scan"
    /\ Settle(pos, ledger, "idle")
    /\ UNCHANGED <<exchange, cycle, rest>>

-----------------------------------------------------------------------------
(* The process dies; what it had not saved is gone, and at the next init   *)
(* every unresolved intent is ambiguous.                                   *)
Crash ==
    /\ pc # "down" /\ crashes < MaxCrashes
    /\ crashes' = crashes + 1
    /\ pos' = disk.pos
    /\ ledger' = disk.ledger
    /\ pc' = "down"
    /\ op' = "none"
    /\ reply' = NoReply
    /\ snap' = NoSnap
    /\ boot' = FALSE
    /\ conflict' = FALSE
    /\ UNCHANGED <<exchange, disk, recover>>

Restart ==
    /\ pc = "down"
    /\ pc' = "boot"
    /\ ledger' = [k \in Key |-> IF ledger[k] = "none" THEN "none" ELSE "ambiguous"]
    /\ UNCHANGED <<exchange, pos, disk, op, reply, cycle, rest>>

Exchange ==
    \/ BuyExecutes \/ SellExecutes \/ OcoExecutes \/ CancelExecutes
    \/ Refuses \/ NeverArrives \/ ListFills

Reconcile ==
    \/ ReadAccount \/ ReadLists \/ ReadFails \/ CooldownWait
    \/ SyncQuiet \/ SyncStreamFill \/ SyncFilled \/ SyncCanceled \/ SyncFails
    \/ RetrySnapshot \/ RetriesExhausted \/ ManualReview \/ FlatClose
    \/ VerifyOnly \/ RebuildNothing \/ Rebuild \/ RebuildFailed
    \/ NothingUntracked \/ UntrackedBalance \/ RecoverBalance \/ RecoveredUnprotected

Trade ==
    \/ Hold \/ exitPosition \/ scaleOutPosition \/ refreshProtectiveOrder
    \/ CancelDone \/ CancelFoundFill \/ CancelFailed
    \/ ExitSold \/ ScaledOut \/ SellFailed \/ OcoPlaced \/ OcoFailed
    \/ enterPosition \/ Bought \/ NotBought \/ Flattened \/ EndCycle

Next == Exchange \/ Reconcile \/ Trade \/ Crash \/ Restart

Spec == Init /\ [][Next]_vars

-----------------------------------------------------------------------------
Quantity == 0..(2 * Lot)
PositionRecord == [qty : 1..(2 * Lot), link : ListId \cup {NoList}, rec : BOOLEAN,
                   mode : {"normal", "protect_only", "manual"}]
LedgerRecord == [Key -> {"none", "open", "ambiguous"}]

(* Every variable has its type; in particular no list sells more than it   *)
(* was placed for.                                                         *)
TypeOK ==
    /\ recover \in BOOLEAN /\ boot \in BOOLEAN /\ conflict \in BOOLEAN
    /\ base \in Quantity
    /\ lists \in [ListId -> [qty : Quantity, done : Quantity, open : BOOLEAN]]
    /\ pos \in PositionRecord \cup {NoPos}
    /\ ledger \in LedgerRecord
    /\ disk \in [pos : PositionRecord \cup {NoPos}, ledger : LedgerRecord]
    /\ pc \in {"idle", "boot", "down", "lists", "sync", "decide", "untracked",
               "manage", "scan", "buy", "sell", "oco", "cancel"}
    /\ op \in {"none", "exit", "scale_out", "entry", "flatten", "refresh", "rebuild",
               "untracked", "after_exit", "after_scale", "recover_exit", "recover_scale"}
    /\ reply \in [st : {"none", "ok", "rejected", "timeout"}, n : Nat]

(* The bot never holds two entries of the symbol: it buys only when the    *)
(* exchange holds nothing, whatever was lost on the way.                   *)
NoDoubleEntry == base <= Lot

(* Between cycles, an unflagged position and the exchange agree: what the  *)
(* linked list has not sold of the position's quantity is in the account.  *)
QuantityAgrees ==
    pc \in {"manage", "scan"} /\ pos # NoPos /\ ~pos.rec =>
        pos.qty = base + (IF pos.link = NoList THEN 0 ELSE lists[pos.link].done)

(* A position leaves the runtime only when the exchange holds nothing.     *)
ClosedOnlyWhenFlat ==
    [][pos # NoPos /\ pos' = NoPos /\ pc' # "down" => base = 0]_vars

(* Between cycles no entry or protection intent is still open: it was      *)
(* completed, failed or marked ambiguous.                                  *)
IntentsSettle ==
    pc = "idle" =>
        \A k \in Key \ {"exit", "scale_out", "protective_cancel", "refresh_cancel"} :
            ledger[k] # "open"

(* The bot never scans for an entry beside a balance it does not manage    *)
(* without the symbol being blocked.                                       *)
NoSilentExposure == pc = "scan" /\ pos = NoPos /\ base > 0 => conflict

(* A cycle that got past reconcile leaves every position linked to a list  *)
(* or flagged, whatever failed while it was managed.                       *)
ManagedIsLinked ==
    pc \in {"manage", "scan"} /\ pos # NoPos /\ ~pos.rec => pos.link # NoList

(* docs/voltooid/roadmap-32-order-lifecycle-intent-state-machine-v2.md,    *)
(* line 49: an open position has protection or a reason why not.  When a   *)
(* reconcile leaves a position unflagged, the exchange must have an open   *)
(* list for what the account still holds.                                  *)
ReconcileLeavesProtected ==
    pc = "manage" /\ pos # NoPos /\ ~pos.rec /\ base > 0 =>
        pos.link # NoList /\ pos.link \in Open

(* The same document, line 75: reconcile clears stale states without a     *)
(* manual edit.  A reconcile that begins by seeing neither a balance nor   *)
(* an order of the symbol, and no position, must leave no intent that      *)
(* still blocks entries.                                                   *)
StaleIntentsCleared ==
    pc = "untracked" /\ pos = NoPos /\ snap.fresh1 /\ snap.base1 = 0 /\ snap.open1 = {}
        => \A k \in Key : StaleResolved(ledger)[k] # "ambiguous"
=============================================================================
