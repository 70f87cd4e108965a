-------------------------- MODULE LiveBroker_proofs --------------------------
(***************************************************************************)
(* Proofs about LiveBroker, for any lot, any finite set of list ids, any   *)
(* number of attempts and of crashes: its types, the five safety           *)
(* invariants and the action property its run checks.                      *)
(*                                                                         *)
(* At any time at most one list is open and it locks the whole balance;    *)
(* a position accounts for the balance: exactly with what its list has     *)
(* sold, if it has one, and at least, if it has none.  From this follows   *)
(* that a position that is dropped had nothing left, that an entry begins  *)
(* with an empty account, and that what is managed agrees.                 *)
(***************************************************************************)
EXTENDS LiveBroker, WellFoundedInduction, TLAPS

Requests == {"buy", "sell", "oco", "cancel"}
Position == PositionRecord \cup {NoPos}

Types ==
    /\ recover \in BOOLEAN /\ boot \in BOOLEAN /\ conflict \in BOOLEAN
    /\ pc \in {"idle", "boot", "down", "lists", "sync", "decide", "untracked",
               "manage", "scan", "buy", "sell", "oco", "cancel"}
    /\ op \in {"none", "exit", "scale_out", "entry", "flatten", "refresh", "rebuild",
               "untracked", "after_exit", "after_scale", "recover_exit", "recover_scale"}
    /\ reply \in [st : {"none", "ok", "rejected", "timeout"}, n : Nat]

(* The exchange: a list that is open is the only one, has something left   *)
(* to sell, and locks the whole balance.                                   *)
ExchangeOK ==
    /\ base \in 0..Lot
    /\ lists \in [ListId -> [qty : Quantity, done : Quantity, open : BOOLEAN]]
    /\ \A i \in Open : Open = {i} /\ base = Remaining(i) /\ base > 0

(* A position of this quantity with this list: nothing else is open, and   *)
(* the account has what the list has not sold.                             *)
Backed(qty, i) ==
    /\ i \in ListId /\ Open \subseteq {i}
    /\ lists[i].qty = qty /\ base + lists[i].done = qty

Covered(p) ==
    p # NoPos => /\ p.link = NoList => base <= p.qty
                 /\ p.link # NoList => Backed(p.qty, p.link)

Good(p) == p \in Position /\ Covered(p)

(* What was saved is as good as what is in memory: a crash goes back to it.*)
MemoryOK ==
    /\ disk \in [pos : Position, ledger : LedgerRecord]
    /\ Good(pos) /\ Good(disk.pos)

(* What is sent from where, for which position.                            *)
Sends(request, o, p) ==
    /\ request = "buy" => o = "entry" /\ p = NoPos
    /\ request = "sell" =>
          /\ p = NoPos => o = "flatten"
          /\ p # NoPos => o \in {"exit", "scale_out"} /\ p.link = NoList
    /\ request = "cancel" => /\ p # NoPos /\ p.link # NoList
                             /\ o \in {"exit", "scale_out", "refresh"}
    /\ request = "oco" =>
          /\ p = NoPos => o = "entry"
          /\ p # NoPos =>
                /\ p.link = NoList
                /\ o \in {"rebuild", "untracked", "after_exit", "after_scale",
                          "refresh", "recover_exit", "recover_scale"}
    /\ request \in {"sell", "cancel"} /\ o = "scale_out" => p.qty > 1

PlacesOK ==
    /\ Sends(pc, op, pos)
    /\ pc \in Requests => disk.pos = pos
    /\ pc \in {"sync", "decide"} => pos # NoPos
    /\ pc = "lists" /\ snap.try > 1 => pos # NoPos

(* What a reply says is so; and a buy is awaited with an empty account.    *)
RepliesOK ==
    /\ pc \notin Requests => reply = NoReply
    /\ pc = "buy" => reply.n \in {0, Lot}
    /\ pc = "buy" /\ reply = NoReply => base = 0
    /\ pc = "sell" /\ reply.st = "ok" => reply.n <= SellQty
    /\ pc = "sell" /\ reply.st = "ok" /\ pos # NoPos => base + reply.n <= pos.qty
    /\ pc = "oco" /\ reply.st = "ok" => Backed(OcoQty, reply.n)

(* The balances a reconcile has read are not below the one there is.       *)
SnapOK ==
    pc \in {"lists", "sync", "decide", "untracked"} =>
        /\ snap \in [try : Nat, base : 0..Lot, locked : Int, open : SUBSET ListId,
                     partial : BOOLEAN, err : {"none", "retriable", "fatal"},
                     base1 : 0..Lot, open1 : SUBSET ListId, fresh1 : BOOLEAN]
        /\ base <= snap.base /\ base <= snap.base1

(* An intent that settles with its operation is open only during it, or    *)
(* before the restart that makes it ambiguous.                             *)
Settling == Key \ {"exit", "scale_out", "protective_cancel", "refresh_cancel"}

Pending(k, place, o) ==
    \/ place = "down"
    \/ k = "entry" /\ place = "buy"
    \/ k = "entry" /\ place \in {"oco", "sell"} /\ o \in {"entry", "flatten"}
    \/ place = "oco" /\ k = OcoKey(o)

Quiet(led) == led \in LedgerRecord /\ \A k \in Settling : led[k] # "open"

IntentsOK ==
    /\ ledger \in LedgerRecord
    /\ \A k \in Settling : ledger[k] = "open" => Pending(k, pc, op)

(* Past reconcile a position is linked or flagged, and an account without  *)
(* a position is empty or blocked.                                         *)
Attended(p) == p # NoPos /\ ~p.rec => p.link # NoList
Vacant(p, blocked) == p = NoPos /\ base > 0 => blocked

CycleOK ==
    /\ pc \in {"untracked", "manage", "scan"} => Attended(pos)
    /\ pc \in {"manage", "scan"} => Vacant(pos, conflict)

IInv == /\ Types /\ ExchangeOK /\ MemoryOK /\ PlacesOK
        /\ RepliesOK /\ SnapOK /\ IntentsOK /\ CycleOK

-----------------------------------------------------------------------------
(* What is locked by no list, and by one.                                  *)
LEMMA SumOfNone ==
    ASSUME NEW S, S = {}
    PROVE  MapThenSumSet(Remaining, S) = 0
<1> DEFINE g == [s \in SUBSET S |-> 0]
           Sum(f) == f = [s \in SUBSET S |->
                            IF s = {} THEN 0
                            ELSE LET x == CHOOSE x \in s : TRUE
                                 IN Remaining(x) + f[s \ {x}]]
<1>1. Sum(g)
  <2>1. \A s \in SUBSET S : s = {}
    OBVIOUS
  <2> QED
    BY <2>1
<1>2. \A f : Sum(f) => f[S] = 0
  OBVIOUS
<1>3. Sum(CHOOSE f : Sum(f))
  BY <1>1
<1> QED
  BY <1>2, <1>3 DEF MapThenSumSet, MapThenFoldSet

LEMMA SumOfOne ==
    ASSUME NEW S, NEW i, S = {i}, Remaining(i) \in Int
    PROVE  MapThenSumSet(Remaining, S) = Remaining(i)
<1> DEFINE g == [s \in SUBSET S |-> IF s = {} THEN 0 ELSE Remaining(i)]
           Step(f, s) == IF s = {} THEN 0
                         ELSE LET x == CHOOSE x \in s : TRUE
                              IN Remaining(x) + f[s \ {x}]
           Sum(f) == f = [s \in SUBSET S |-> Step(f, s)]
<1>1. \A s \in SUBSET S : s = {} \/ s = {i}
  OBVIOUS
<1>2. (CHOOSE x \in {i} : TRUE) = i /\ {i} \ {i} = {} /\ {} \in SUBSET S /\ {i} \in SUBSET S
  OBVIOUS
<1>3. \A f : f[{}] = 0 => Step(f, {}) = 0 /\ Step(f, {i}) = Remaining(i)
  <2> TAKE f
  <2> HAVE f[{}] = 0
  <2>1. Step(f, {i}) = Remaining(i) + f[{}]
    BY <1>2 DEF Remaining
  <2>2. Step(f, {}) = 0
    OBVIOUS
  <2> QED
    BY <2>1, <2>2
<1>4. Sum(g)
  <2>1. \A s \in SUBSET S : g[s] = Step(g, s)
    BY <1>1, <1>2, <1>3
  <2> QED
    BY <2>1
<1>5. \A f : Sum(f) => f[{}] = 0 /\ f[S] = Remaining(i)
  <2> TAKE f
  <2> HAVE Sum(f)
  <2>1. f[{}] = 0
    BY <1>2
  <2>2. f[{i}] = Step(f, {i})
    BY <1>2
  <2> QED
    BY <1>3, <2>1, <2>2
<1>6. Sum(CHOOSE f : Sum(f))
  BY <1>4
<1> QED
  BY <1>5, <1>6 DEF MapThenSumSet, MapThenFoldSet

LEMMA Amounts ==
    ASSUME ExchangeOK
    PROVE  /\ base \in Nat /\ base <= Lot /\ Lot \in Nat
           /\ \A i \in ListId : lists[i].qty \in Nat /\ lists[i].done \in Nat
<1>1. base \in Nat /\ base <= Lot /\ Lot \in Nat
  BY BrokerAssumption DEF ExchangeOK
<1>2. ASSUME NEW i \in ListId PROVE lists[i].qty \in Nat /\ lists[i].done \in Nat
  <2>1. lists[i] \in [qty : Quantity, done : Quantity, open : BOOLEAN]
    BY DEF ExchangeOK
  <2> QED
    BY <2>1, BrokerAssumption DEF Quantity
<1> QED
  BY <1>1, <1>2

(* With a list open nothing is free, otherwise everything.                 *)
LEMMA FreeIs ==
    ASSUME ExchangeOK
    PROVE  /\ Open = {} => Free = base
           /\ Open # {} => Free = 0
           /\ Locked \in Int /\ Free \in Int /\ Free <= base
<1>1. base \in Int
  BY Amounts
<1>2. CASE Open = {}
  BY <1>1, <1>2, SumOfNone DEF Locked, Free
<1>3. CASE Open # {}
  <2>1. PICK i \in Open : Open = {i} /\ base = Remaining(i) /\ base > 0
    BY <1>3 DEF ExchangeOK
  <2>2. Locked = base
    BY <1>1, <2>1, SumOfOne DEF Locked
  <2> QED
    BY <1>1, <1>3, <2>1, <2>2 DEF Free
<1> QED
  BY <1>2, <1>3

-----------------------------------------------------------------------------
(* Positions.                                                              *)
LEMMA PositionFields ==
    ASSUME NEW p \in Position
    PROVE  /\ p # NoPos => p \in PositionRecord /\ p.qty \in 1..(2 * Lot)
           /\ p \in PositionRecord => p # NoPos
<1>1. \A q \in PositionRecord : q.qty \in 1..(2 * Lot)
  BY DEF PositionRecord
<1>2. \A q \in PositionRecord : q # NoPos
  <2>1. NoPos.qty = 0
    BY DEF NoPos
  <2>2. 0 \notin 1..(2 * Lot)
    BY BrokerAssumption
  <2> QED
    BY <1>1, <2>1, <2>2
<1> QED
  BY <1>1, <1>2 DEF Position

LEMMA NoListIsNone == NoList \notin ListId
BY BrokerAssumption DEF NoList

(* Flags do not matter to what a position accounts for.                    *)
LEMMA SameHolding ==
    ASSUME NEW p, Good(p), p # NoPos,
           NEW q \in PositionRecord, q.link = p.link, q.qty = p.qty
    PROVE  Good(q) /\ q # NoPos
<1>1. q # NoPos /\ q \in Position
  BY PositionFields DEF Position
<1> QED
  BY <1>1 DEF Good, Covered

LEMMA Marked ==
    ASSUME NEW p, Good(p), p # NoPos
    PROVE  /\ Good(clearPositionReconcileFlags(p))
           /\ Good(markPositionForManualReview(p))
           /\ Good(markPositionForRetry(p))
           /\ clearPositionReconcileFlags(p).link = p.link
           /\ markPositionForManualReview(p).rec
           /\ markPositionForRetry(p).rec
           /\ clearPositionReconcileFlags(p) # NoPos
           /\ markPositionForManualReview(p) # NoPos
           /\ markPositionForRetry(p) # NoPos
<1>1. p \in PositionRecord
  BY PositionFields DEF Good
<1>2. ProtectOnly(p.mode) \in {"protect_only", "manual"}
  BY DEF ProtectOnly
<1>3. PICK q : q = clearPositionReconcileFlags(p)
  OBVIOUS
<1>4. q \in PositionRecord /\ q.link = p.link /\ q.qty = p.qty
  BY <1>1, <1>3 DEF clearPositionReconcileFlags, PositionRecord
<1>5. PICK r : r = markPositionForManualReview(p)
  OBVIOUS
<1>6. r \in PositionRecord /\ r.link = p.link /\ r.qty = p.qty /\ r.rec
  BY <1>1, <1>5 DEF markPositionForManualReview, PositionRecord
<1>7. PICK s : s = markPositionForRetry(p)
  OBVIOUS
<1>8. s \in PositionRecord /\ s.link = p.link /\ s.qty = p.qty /\ s.rec
  <2>1. s = [p EXCEPT !.rec = TRUE, !.mode = ProtectOnly(p.mode)]
    BY <1>1, <1>7 DEF markPositionForRetry, PositionRecord
  <2> QED
    BY <1>1, <1>2, <2>1 DEF PositionRecord
<1>9. Good(q) /\ q # NoPos /\ Good(r) /\ r # NoPos /\ Good(s) /\ s # NoPos
  BY <1>4, <1>6, <1>8, SameHolding
<1> QED
  BY <1>3, <1>4, <1>5, <1>6, <1>7, <1>8, <1>9

(* A position whose list is forgotten still accounts for the balance.      *)
LEMMA Unlinked ==
    ASSUME ExchangeOK, NEW p, Good(p), p # NoPos,
           NEW q \in PositionRecord, q.link = NoList, q.qty = p.qty
    PROVE  Good(q) /\ q # NoPos
<1>1. base <= p.qty
  <2>1. CASE p.link = NoList
    BY <2>1 DEF Good, Covered
  <2>2. CASE p.link # NoList
    <3>1. p.link \in ListId /\ base + lists[p.link].done = p.qty
      BY <2>2 DEF Good, Covered, Backed
    <3>2. lists[p.link].done \in Nat /\ base \in Nat
      BY <3>1, Amounts
    <3> QED
      BY <3>1, <3>2
  <2> QED
    BY <2>1, <2>2
<1>2. q # NoPos /\ q \in Position
  BY PositionFields DEF Position
<1> QED
  BY <1>1, <1>2 DEF Good, Covered

LEMMA UnprotectedGood ==
    ASSUME ExchangeOK, NEW p, Good(p), p # NoPos, NEW q, q = Unprotected(p)
    PROVE  Good(q) /\ q # NoPos /\ q.link = NoList /\ q.rec /\ q.qty = p.qty
<1>1. p \in PositionRecord
  BY PositionFields DEF Good
<1>2. q \in PositionRecord /\ q.link = NoList /\ q.qty = p.qty /\ q.rec
  BY <1>1 DEF PositionRecord, Unprotected
<1> QED
  BY <1>2, Unlinked

(* The same in protect_only mode, as a refused rebuild leaves it.          *)
LEMMA ProtectOnlyGood ==
    ASSUME ExchangeOK, NEW p, Good(p), p # NoPos,
           NEW q, q = [Unprotected(p) EXCEPT !.mode = "protect_only"]
    PROVE  Good(q) /\ q # NoPos /\ q.link = NoList /\ q.rec
<1>1. p \in PositionRecord
  BY PositionFields DEF Good
<1>2. q \in PositionRecord /\ q.link = NoList /\ q.qty = p.qty /\ q.rec
  BY <1>1 DEF PositionRecord, Unprotected
<1> QED
  BY <1>2, Unlinked

LEMMA WithoutLinkGood ==
    ASSUME ExchangeOK, NEW p, Good(p), p # NoPos, NEW q, q = [p EXCEPT !.link = NoList]
    PROVE  Good(q) /\ q # NoPos /\ q.link = NoList /\ q.qty = p.qty
<1>1. p \in PositionRecord
  BY PositionFields DEF Good
<1>2. q \in PositionRecord /\ q.link = NoList /\ q.qty = p.qty
  BY <1>1 DEF PositionRecord
<1> QED
  BY <1>2, Unlinked

(* A position that is settled by the fills of its list is gone only when   *)
(* the account is empty, and otherwise flagged.                            *)
LEMMA SettledFill ==
    ASSUME ExchangeOK, NEW p, Good(p), p # NoPos, p.link # NoList,
           NEW q, q = settleProtectiveOrderFill(p)
    PROVE  /\ Good(q)
           /\ q = NoPos => base = 0
           /\ q # NoPos => q.link = NoList /\ q.rec
<1> DEFINE l == lists[p.link]
<1>1. p \in PositionRecord /\ p.qty \in 1..(2 * Lot)
  BY PositionFields DEF Good
<1>2. /\ p.link \in ListId /\ l.qty = p.qty /\ base + l.done = p.qty
  BY DEF Good, Covered, Backed
<1>3. l.done \in Nat /\ base \in Nat
  BY <1>2, Amounts
<1>4. CASE l.done >= p.qty \/ l.done = l.qty
  <2>1. q = NoPos
    BY <1>4 DEF settleProtectiveOrderFill
  <2>2. base = 0
    BY <1>1, <1>2, <1>3, <1>4
  <2> QED
    BY <2>1, <2>2 DEF Good, Covered, Position
<1>5. CASE ~(l.done >= p.qty \/ l.done = l.qty)
  <2>1. q = [p EXCEPT !.link = NoList, !.rec = TRUE, !.qty = p.qty - l.done]
    BY <1>1, <1>5 DEF settleProtectiveOrderFill, Unprotected, PositionRecord
  <2>2. p.qty - l.done \in 1..(2 * Lot) /\ base <= p.qty - l.done
    BY <1>1, <1>2, <1>3, <1>5, BrokerAssumption
  <2>3. q \in PositionRecord /\ q.link = NoList /\ q.rec /\ q.qty = p.qty - l.done
    BY <1>1, <2>1, <2>2 DEF PositionRecord
  <2>4. q # NoPos /\ q \in Position
    BY <2>3, PositionFields DEF Position
  <2> QED
    BY <2>2, <2>3, <2>4 DEF Good, Covered
<1> QED
  BY <1>4, <1>5

(* A position whose management failed keeps its list and its flag.         *)
LEMMA EscalatedGood ==
    ASSUME NEW p, Good(p), p # NoPos, NEW q \in Escalated(p)
    PROVE  Good(q) /\ q # NoPos /\ q.link = p.link /\ q.rec = p.rec
<1>1. p \in PositionRecord
  BY PositionFields DEF Good
<1>2. ProtectOnly(p.mode) \in {"protect_only", "manual"}
  BY DEF ProtectOnly
<1>3. q = p \/ q = [p EXCEPT !.mode = ProtectOnly(p.mode)] \/ q = [p EXCEPT !.mode = "manual"]
  BY <1>1 DEF Escalated, PositionRecord
<1>4. q \in PositionRecord /\ q.link = p.link /\ q.qty = p.qty /\ q.rec = p.rec
  BY <1>1, <1>2, <1>3 DEF PositionRecord
<1> QED
  BY <1>4, SameHolding

(* A new position without a list accounts for what there is.               *)
LEMMA HeldGood ==
    ASSUME ExchangeOK, NEW n \in 1..Lot, base <= n
    PROVE  /\ Good(Held(n, NoList)) /\ Held(n, NoList) # NoPos
           /\ Held(n, NoList).link = NoList
<1>1. PICK q : q = Held(n, NoList)
  OBVIOUS
<1>2. q \in PositionRecord /\ q.link = NoList /\ q.qty = n
  BY <1>1, BrokerAssumption DEF PositionRecord, Held
<1>3. q # NoPos /\ q \in Position
  BY <1>2, PositionFields DEF Position
<1> QED
  BY <1>1, <1>2, <1>3 DEF Good, Covered

-----------------------------------------------------------------------------
(* The ledger.                                                             *)
LEMMA WithType ==
    ASSUME NEW led \in LedgerRecord, NEW k, NEW st \in {"none", "open", "ambiguous"}
    PROVE  /\ With(led, k, st) \in LedgerRecord
           /\ \A x \in Key \ {k} : With(led, k, st)[x] = led[x]
           /\ k \in Key => With(led, k, st)[k] = st
BY DEF With, LedgerRecord

LEMMA QuietWith ==
    ASSUME NEW led, Quiet(led), NEW k, NEW st \in {"none", "ambiguous"}
    PROVE  Quiet(With(led, k, st))
BY DEF Quiet, With, LedgerRecord, Settling

LEMMA QuietFailed == ASSUME NEW led, Quiet(led), NEW o PROVE Quiet(Failed(led, o))
BY QuietWith DEF Failed

(* Intents that outlive their operation do not count.                      *)
LEMMA QuietWithOther ==
    ASSUME NEW led, Quiet(led), NEW k \in Key \ Settling,
           NEW st \in {"none", "open", "ambiguous"}
    PROVE  Quiet(With(led, k, st))
BY DEF Quiet, With, LedgerRecord, Settling

LEMMA OcoKeyIs ==
    ASSUME NEW o \in {"entry", "rebuild", "untracked", "after_exit", "after_scale",
                      "refresh", "recover_exit", "recover_scale"}
    PROVE  OcoKey(o) \in Settling /\ OcoKey(o) # "entry"
BY DEF OcoKey, Settling, Key

-----------------------------------------------------------------------------
LEMMA InitIInv == Init => IInv
<1> SUFFICES ASSUME Init PROVE IInv
  OBVIOUS
<1> USE DEF Init
<1>1. Types
  BY BrokerAssumption DEF Types, NoReply
<1>2. ExchangeOK
  BY BrokerAssumption DEF ExchangeOK, Gone, Quantity, Open
<1>3. Clean \in LedgerRecord /\ \A k \in Key : Clean[k] = "none"
  BY DEF Clean, LedgerRecord
<1>4. MemoryOK
  BY <1>3 DEF MemoryOK, Good, Covered, Position
<1>5. PlacesOK /\ RepliesOK /\ SnapOK /\ CycleOK
  BY DEF PlacesOK, Sends, Requests, RepliesOK, SnapOK, CycleOK
<1>6. IntentsOK
  BY <1>3 DEF IntentsOK, Settling
<1> QED
  BY <1>1, <1>2, <1>4, <1>5, <1>6 DEF IInv

-----------------------------------------------------------------------------
(* The ways in which a handler of the bot ends.  The exchange is the same, *)
(* and so is what a position accounts for.                                 *)
LEMMA ExchangeKept == ASSUME ExchangeOK, UNCHANGED <<base, lists>> PROVE ExchangeOK'
BY DEF ExchangeOK, Open, Remaining

LEMMA GoodKept ==
    ASSUME UNCHANGED <<base, lists>>, NEW p, Good(p)
    PROVE  /\ pos' = p => Good(pos)'
           /\ disk'.pos = p => Good(disk.pos)'
BY DEF Good, Covered, Backed, Open

(* The position and the ledger are saved.                                  *)
LEMMA MemorySaved ==
    ASSUME UNCHANGED <<base, lists>>, NEW p, Good(p), NEW led \in LedgerRecord,
           pos' = p, ledger' = led, Save
    PROVE  MemoryOK' /\ disk'.pos = p
<1>1. disk' = [pos |-> p, ledger |-> led] /\ p \in Position
  BY DEF Save, Good
<1> QED
  BY <1>1, GoodKept DEF MemoryOK

LEMMA SettleStep ==
    ASSUME IInv, NEW p, Good(p), NEW led, Quiet(led), NEW next \in {"idle", "manage", "scan"},
           Settle(p, led, next), UNCHANGED <<base, lists, recover>>,
           boot' \in BOOLEAN, conflict' \in BOOLEAN,
           next # "idle" => Attended(p) /\ Vacant(p, conflict')
    PROVE  IInv'
<1>1. /\ pos' = p /\ ledger' = led /\ Save /\ pc' = next /\ op' = "none" /\ reply' = NoReply
      /\ led \in LedgerRecord
  BY DEF Settle, Quiet
<1>2. Types'
  BY <1>1 DEF IInv, Types, NoReply
<1>3. ExchangeOK' /\ MemoryOK'
  BY <1>1, ExchangeKept, MemorySaved DEF IInv
<1>4. PlacesOK' /\ RepliesOK' /\ SnapOK'
  BY <1>1 DEF PlacesOK, Sends, Requests, RepliesOK, SnapOK
<1>5. IntentsOK'
  BY <1>1 DEF IntentsOK, Quiet
<1>6. CycleOK'
  BY <1>1 DEF CycleOK, Attended, Vacant
<1> QED
  BY <1>2, <1>3, <1>4, <1>5, <1>6 DEF IInv

LEMMA SendStep ==
    ASSUME IInv, NEW p, Good(p), NEW led \in LedgerRecord, NEW request \in Requests,
           NEW o \in {"exit", "scale_out", "entry", "flatten", "refresh", "rebuild",
               "untracked", "after_exit", "after_scale", "recover_exit", "recover_scale"},
           Send(request, o, p, led), UNCHANGED <<base, lists, recover, boot, conflict>>,
           Sends(request, o, p), request = "buy" => base = 0,
           \A k \in Settling : led[k] = "open" => Pending(k, request, o)
    PROVE  IInv'
<1>1. pos' = p /\ ledger' = led /\ Save /\ pc' = request /\ op' = o /\ reply' = NoReply
  BY DEF Send
<1>2. Types'
  BY <1>1 DEF IInv, Types, NoReply, Requests
<1>3. ExchangeOK' /\ MemoryOK' /\ disk'.pos = p
  BY <1>1, ExchangeKept, MemorySaved DEF IInv
<1>4. PlacesOK'
  BY <1>1, <1>3 DEF PlacesOK, Sends, Requests
<1>5. RepliesOK' /\ SnapOK' /\ CycleOK'
  BY <1>1 DEF RepliesOK, NoReply, SnapOK, CycleOK, Requests
<1>6. IntentsOK'
  BY <1>1 DEF IntentsOK, Pending
<1> QED
  BY <1>2, <1>3, <1>4, <1>5, <1>6 DEF IInv

(* At most places nothing that settles is open.                            *)
LEMMA NothingPending ==
    ASSUME IInv, pc \notin {"buy", "oco", "down"},
           pc = "sell" => op \notin {"entry", "flatten"}
    PROVE  Quiet(ledger)
BY DEF IInv, IntentsOK, Pending, Quiet

LEMMA JudgedStep ==
    ASSUME IInv, NEW p, Good(p), pc \in {"sync", "decide"}, Judged(p), Attended(p)
    PROVE  IInv'
<1>1. /\ pos' = p /\ pc' = "untracked"
      /\ UNCHANGED <<base, lists, ledger, disk, op, reply, snap, boot, conflict, recover>>
  BY DEF Judged, exchange, cycle, rest
<1>2. Types' /\ ExchangeOK'
  BY <1>1, ExchangeKept DEF IInv, Types
<1>3. MemoryOK'
  BY <1>1, GoodKept DEF IInv, MemoryOK
<1>4. PlacesOK' /\ RepliesOK' /\ SnapOK'
  BY <1>1 DEF IInv, PlacesOK, Sends, Requests, RepliesOK, SnapOK
<1>5. IntentsOK'
  BY <1>1, NothingPending DEF IntentsOK, Quiet
<1>6. CycleOK'
  BY <1>1 DEF CycleOK, Attended
<1> QED
  BY <1>2, <1>3, <1>4, <1>5, <1>6 DEF IInv

LEMMA ToDecideStep ==
    ASSUME IInv, NEW p, Good(p), p # NoPos, pc = "sync",
           NEW err \in {"none", "retriable", "fatal"}, ToDecide(p, err)
    PROVE  IInv'
<1>1. /\ pos' = p /\ pc' = "decide" /\ snap' = [snap EXCEPT !.err = err]
      /\ UNCHANGED <<base, lists, ledger, disk, op, reply, boot, conflict, recover>>
  BY DEF ToDecide, exchange, rest
<1>2. Types' /\ ExchangeOK'
  BY <1>1, ExchangeKept DEF IInv, Types
<1>3. MemoryOK'
  BY <1>1, GoodKept DEF IInv, MemoryOK
<1>4. PlacesOK' /\ RepliesOK' /\ CycleOK'
  BY <1>1 DEF IInv, PlacesOK, Sends, Requests, RepliesOK, CycleOK
<1>5. SnapOK'
  BY <1>1 DEF IInv, SnapOK
<1>6. IntentsOK'
  BY <1>1, NothingPending DEF IntentsOK, Quiet
<1> QED
  BY <1>2, <1>3, <1>4, <1>5, <1>6 DEF IInv

(* An init that gives up goes back to what was saved.                      *)
LEMMA AbortStep ==
    ASSUME IInv, NEW led, Quiet(led), Abort(led)
    PROVE  IInv'
<1>1. /\ pc' = IF Booting THEN "down" ELSE "idle"
      /\ pos' = IF Booting THEN disk.pos ELSE pos
      /\ ledger' = IF Booting THEN disk.ledger ELSE led
      /\ Save /\ op' = "none" /\ reply' = NoReply /\ boot' = FALSE
      /\ UNCHANGED <<base, lists, recover, conflict>>
  BY DEF Abort, exchange, rest
<1>2. /\ disk.ledger \in LedgerRecord /\ led \in LedgerRecord
      /\ Good(pos) /\ Good(disk.pos)
  BY DEF IInv, MemoryOK, Quiet
<1>3. Types' /\ ExchangeOK'
  BY <1>1, ExchangeKept DEF IInv, Types, NoReply
<1>4. MemoryOK'
  <2>1. CASE Booting
    BY <1>1, <1>2, <2>1, MemorySaved
  <2>2. CASE ~Booting
    BY <1>1, <1>2, <2>2, MemorySaved
  <2> QED
    BY <2>1, <2>2
<1>5. pc' \in {"down", "idle"} /\ (pc' = "idle" => ledger' = led)
  BY <1>1
<1>6. PlacesOK' /\ RepliesOK' /\ SnapOK' /\ CycleOK'
  BY <1>1, <1>5 DEF PlacesOK, Sends, Requests, RepliesOK, SnapOK, CycleOK
<1>7. IntentsOK'
  BY <1>1, <1>2, <1>5 DEF IntentsOK, Pending, Quiet
<1> QED
  BY <1>3, <1>4, <1>6, <1>7 DEF IInv

(* The end of a reconcile.                                                 *)
LEMMA ReconciledStep ==
    ASSUME IInv, NEW p, Good(p), NEW led, Quiet(led), NEW blocked \in BOOLEAN,
           Reconciled(p, led, blocked), Attended(p), Vacant(p, blocked)
    PROVE  IInv'
<1>1. PICK next : next = IF boot THEN "idle" ELSE "manage"
  OBVIOUS
<1>2. /\ Settle(p, led, next) /\ conflict' = blocked /\ boot' = FALSE
      /\ UNCHANGED <<base, lists, recover>>
  BY <1>1 DEF Reconciled, exchange, rest
<1> QED
  BY <1>1, <1>2, SettleStep

-----------------------------------------------------------------------------
(* The steps of the exchange leave the bot where it is: what is left to    *)
(* show is the balance, the lists and the reply.                           *)
LEMMA ExchangeStep ==
    ASSUME IInv, UNCHANGED <<bot, rest>>,
           ExchangeOK', Covered(pos)', Covered(disk.pos)', RepliesOK',
           reply' \in [st : {"none", "ok", "rejected", "timeout"}, n : Nat],
           base' <= base \/ pc = "buy"
    PROVE  IInv'
<1>1. UNCHANGED <<pos, ledger, disk, pc, op, snap, boot, conflict, recover, crashes>>
  BY DEF bot, rest
<1>2. Types'
  BY <1>1 DEF IInv, Types
<1>3. MemoryOK'
  BY <1>1 DEF IInv, MemoryOK, Good
<1>4. PlacesOK' /\ IntentsOK'
  BY <1>1 DEF IInv, PlacesOK, IntentsOK
<1>5. SnapOK'
  <2> SUFFICES ASSUME pc \in {"lists", "sync", "decide", "untracked"} PROVE SnapOK'
    BY <1>1 DEF SnapOK
  <2>1. base' <= base /\ base' \in Nat /\ base \in Nat
    BY BrokerAssumption DEF ExchangeOK, IInv
  <2>2. base <= snap.base /\ base <= snap.base1 /\ snap.base \in Nat /\ snap.base1 \in Nat
    BY BrokerAssumption DEF IInv, SnapOK
  <2>3. base' <= snap.base /\ base' <= snap.base1
    BY <2>1, <2>2
  <2> QED
    BY <1>1, <2>3 DEF IInv, SnapOK
<1>6. CycleOK'
  <2>1. base' \in Nat /\ base \in Nat
    BY BrokerAssumption DEF ExchangeOK, IInv
  <2>2. pc # "buy" /\ base' > 0 => base > 0
    BY <2>1
  <2> QED
    BY <1>1, <2>2 DEF IInv, CycleOK, Attended, Vacant
<1> QED
  BY <1>2, <1>3, <1>4, <1>5, <1>6 DEF IInv

(* What is answered without effect.                                        *)
LEMMA AnswerStep ==
    ASSUME IInv, UNCHANGED <<exchange, bot, rest>>, pc \in Requests,
           NEW st \in {"ok", "rejected", "timeout"}, reply' = [st |-> st, n |-> 0],
           st = "ok" => pc = "cancel"
    PROVE  IInv'
<1>1. /\ reply'.n = 0 /\ reply'.st = st
      /\ reply' \in [st : {"none", "ok", "rejected", "timeout"}, n : Nat]
      /\ reply' # NoReply
  BY DEF NoReply
<1>2. UNCHANGED <<base, lists, pos, disk, pc, op>>
  BY DEF exchange, bot
<1>3. ExchangeOK'
  BY <1>2, ExchangeKept DEF IInv
<1>4. Covered(pos)' /\ Covered(disk.pos)'
  BY <1>2 DEF IInv, MemoryOK, Good, Covered, Backed, Open
<1>5. RepliesOK'
  BY <1>1, <1>2 DEF RepliesOK, Requests
<1>6. base' <= base
  BY <1>2, Amounts DEF IInv
<1> QED
  BY <1>1, <1>3, <1>4, <1>5, <1>6, ExchangeStep

LEMMA BuyExecutesStep == ASSUME IInv, BuyExecutes PROVE IInv'
<1>1. PICK st \in {"ok", "timeout"} :
        pc = "buy" /\ reply = NoReply /\ base' = base + Lot /\ reply' = [st |-> st, n |-> Lot]
  BY DEF BuyExecutes, Awaited, Answer
<1>2. UNCHANGED <<lists, bot, rest>> /\ UNCHANGED <<pos, disk, pc, op>>
  BY DEF BuyExecutes, bot
<1>3. base = 0 /\ pos = NoPos /\ disk.pos = NoPos
  BY <1>1 DEF IInv, RepliesOK, PlacesOK, Sends, Requests
<1>4. base' = Lot /\ Lot \in Nat \ {0} /\ base' \in 0..Lot
  BY <1>1, <1>3, BrokerAssumption
<1>5. Open = {}
  BY <1>3 DEF IInv, ExchangeOK
<1>6. ExchangeOK'
  BY <1>2, <1>4, <1>5 DEF IInv, ExchangeOK, Open
<1>7. Covered(pos)' /\ Covered(disk.pos)'
  BY <1>2, <1>3 DEF Covered
<1>8. /\ reply'.n = Lot /\ reply' # NoReply
      /\ reply' \in [st : {"none", "ok", "rejected", "timeout"}, n : Nat]
  BY <1>1, <1>4 DEF NoReply
<1>9. RepliesOK'
  BY <1>1, <1>2, <1>8 DEF RepliesOK, Requests
<1> QED
  BY <1>1, <1>2, <1>6, <1>7, <1>8, <1>9, ExchangeStep

(* A sell finds nothing open, as an open list locks what there is.         *)
LEMMA SellExecutesStep == ASSUME IInv, SellExecutes PROVE IInv'
<1>1. PICK n \in 0..SellQty, st \in {"ok", "timeout"} :
        pc = "sell" /\ base' = base - n /\ reply' = [st |-> st, n |-> n]
  BY DEF SellExecutes, Awaited, Answer
<1>2. UNCHANGED <<lists, bot, rest>> /\ UNCHANGED <<pos, disk, pc, op>>
  BY DEF SellExecutes, bot
<1>3. ExchangeOK
  BY DEF IInv
<1>4. SellQty \in Nat /\ SellQty >= 1
  <2>1. CASE pos = NoPos
    BY <1>1, <2>1, BrokerAssumption DEF IInv, PlacesOK, Sends, SellQty
  <2>2. CASE pos # NoPos
    BY <2>2, PositionFields, BrokerAssumption DEF IInv, MemoryOK, Good, SellQty
  <2> QED
    BY <2>1, <2>2
<1>5. SellQty <= Free
  BY DEF SellExecutes
<1>6. Open = {} /\ Free = base
  BY <1>3, <1>4, <1>5, FreeIs
<1>7. base \in Nat /\ base <= Lot /\ Lot \in Nat
  BY <1>3, Amounts
<1>8. n \in Nat /\ n <= SellQty /\ base' \in 0..Lot /\ base' <= base /\ base' + n = base
  BY <1>1, <1>4, <1>5, <1>6, <1>7
<1>9. ExchangeOK'
  BY <1>2, <1>3, <1>6, <1>8 DEF ExchangeOK, Open
<1>10. disk.pos = pos /\ (pos # NoPos => pos.link = NoList)
  BY <1>1 DEF IInv, PlacesOK, Sends, Requests
<1>11. pos # NoPos => base <= pos.qty /\ pos.qty \in Nat
  BY <1>10, PositionFields, BrokerAssumption DEF IInv, MemoryOK, Good, Covered
<1>12. pos # NoPos => base' <= pos.qty /\ base' + n <= pos.qty
  <2> SUFFICES ASSUME pos # NoPos PROVE base' <= pos.qty /\ base' + n <= pos.qty
    OBVIOUS
  <2>1. base <= pos.qty /\ pos.qty \in Nat /\ base' \in Nat
    BY <1>7, <1>8, <1>11
  <2> QED
    BY <1>8, <2>1
<1>13. Covered(pos)' /\ Covered(disk.pos)'
  BY <1>2, <1>10, <1>12 DEF Covered
<1>14. /\ reply'.n = n
       /\ reply' \in [st : {"none", "ok", "rejected", "timeout"}, n : Nat]
  BY <1>1, <1>8
<1>15. SellQty' = SellQty
  BY <1>2 DEF SellQty
<1>16. RepliesOK'
  BY <1>1, <1>2, <1>8, <1>12, <1>14, <1>15 DEF RepliesOK, Requests
<1> QED
  BY <1>2, <1>8, <1>9, <1>13, <1>14, <1>16, ExchangeStep

LEMMA MinOfNats ==
    ASSUME NEW S, S \subseteq Nat, S # {}
    PROVE  Min(S) \in S
<1>1. PICK m \in S : \A y \in S : ~(<<y, m>> \in OpToRel(<, Nat))
  BY NatLessThanWellFounded, WFMin
<1>2. ASSUME NEW y \in S PROVE m <= y
  <2>1. y \in Nat /\ m \in Nat
    OBVIOUS
  <2>2. ~(y < m)
    BY <1>1, <2>1 DEF OpToRel
  <2> QED
    BY <2>1, <2>2
<1>3. \E x \in S : \A y \in S : x =< y
  BY <1>2
<1> QED
  BY <1>3 DEF Min

(* A list is placed on a free balance that it locks, when none is open.    *)
LEMMA OcoExecutesStep == ASSUME IInv, OcoExecutes PROVE IInv'
<1> DEFINE m == Min(Spare)
<1>1. PICK st \in {"ok", "timeout"} : pc = "oco" /\ reply' = [st |-> st, n |-> m]
  BY DEF OcoExecutes, Awaited, Answer
<1>2. UNCHANGED <<base, bot, rest>> /\ UNCHANGED <<pos, disk, pc, op>>
  BY DEF OcoExecutes, bot
<1>3. ExchangeOK
  BY DEF IInv
<1>4. m \in Spare /\ m \in ListId /\ m \in Nat
  <2>1. Spare \subseteq Nat /\ Spare # {} /\ Spare \subseteq ListId
    BY BrokerAssumption DEF OcoExecutes, Spare
  <2> QED
    BY <2>1, MinOfNats
<1> HIDE DEF m
<1>5. lists' = [i \in ListId |->
                  IF i = m THEN [qty |-> OcoQty, done |-> 0, open |-> TRUE]
                  ELSE IF i \in Spare THEN Gone ELSE lists[i]]
  BY DEF OcoExecutes, m
<1>6. disk.pos = pos /\ (pos # NoPos => pos.link = NoList)
  BY <1>1 DEF IInv, PlacesOK, Sends, Requests
<1>7. OcoQty \in Nat /\ OcoQty >= 1 /\ base <= OcoQty
  <2>1. CASE pos = NoPos
    BY <1>3, <2>1, Amounts, BrokerAssumption DEF OcoQty
  <2>2. CASE pos # NoPos
    BY <1>6, <2>2, PositionFields, BrokerAssumption DEF IInv, MemoryOK, Good, Covered, OcoQty
  <2> QED
    BY <2>1, <2>2
<1>8. OcoQty <= Free
  BY DEF OcoExecutes
<1>9. base \in Nat /\ base <= Lot /\ Lot \in Nat
  BY <1>3, Amounts
<1>10. Open = {} /\ base = OcoQty
  BY <1>3, <1>7, <1>8, <1>9, FreeIs
<1>11. Open' = {m}
  <2>1. \A i \in ListId : ~lists[i].open
    BY <1>10 DEF Open
  <2>2. \A i \in ListId : lists'[i].open <=> i = m
    BY <1>5, <2>1 DEF Gone
  <2> QED
    BY <1>4, <2>2 DEF Open
<1>12. lists'[m] = [qty |-> base, done |-> 0, open |-> TRUE]
  BY <1>4, <1>5, <1>10
<1>13. base \in Quantity /\ 0 \in Quantity /\ base > 0
  BY <1>7, <1>9, <1>10 DEF Quantity
<1>14. ExchangeOK'
  <2>1. lists' \in [ListId -> [qty : Quantity, done : Quantity, open : BOOLEAN]]
    BY <1>3, <1>5, <1>10, <1>13 DEF ExchangeOK, Gone
  <2>2. base - 0 = base
    BY <1>9
  <2>3. \A i \in Open' : Open' = {i} /\ base' = lists'[i].qty - lists'[i].done /\ base' > 0
    BY <1>2, <1>11, <1>12, <1>13, <2>2
  <2> QED
    BY <1>2, <1>3, <2>1, <2>3 DEF ExchangeOK, Remaining
<1>15. Covered(pos)' /\ Covered(disk.pos)'
  BY <1>2, <1>6 DEF IInv, MemoryOK, Good, Covered
<1>16. RepliesOK'
  <2>1. OcoQty' = base
    BY <1>2, <1>10 DEF OcoQty
  <2>2. base + 0 = base
    BY <1>9
  <2>3. Backed(OcoQty, reply.n)'
    BY <1>1, <1>2, <1>4, <1>11, <1>12, <2>1, <2>2 DEF Backed
  <2> QED
    BY <1>1, <1>2, <2>3 DEF RepliesOK, Requests
<1>17. /\ reply' \in [st : {"none", "ok", "rejected", "timeout"}, n : Nat]
       /\ base' <= base
  BY <1>1, <1>2, <1>4, <1>9
<1> QED
  BY <1>2, <1>14, <1>15, <1>16, <1>17, ExchangeStep

LEMMA CancelExecutesStep == ASSUME IInv, CancelExecutes PROVE IInv'
<1>1. PICK st \in {"ok", "timeout"} : pc = "cancel" /\ reply' = [st |-> st, n |-> 0]
  BY DEF CancelExecutes, Awaited, Answer
<1>2. UNCHANGED <<base, bot, rest>> /\ UNCHANGED <<pos, disk, pc, op>>
  BY DEF CancelExecutes, bot
<1>3. ExchangeOK
  BY DEF IInv
<1>4. pos.link \in Open /\ pos.link \in ListId
  BY DEF CancelExecutes, Open
<1>5. Open = {pos.link}
  BY <1>3, <1>4 DEF ExchangeOK
<1>6. lists' = [lists EXCEPT ![pos.link].open = FALSE]
  BY DEF CancelExecutes
<1>7. \A i \in ListId : /\ lists'[i].qty = lists[i].qty /\ lists'[i].done = lists[i].done
                        /\ lists'[i].open => lists[i].open /\ i # pos.link
  BY <1>3, <1>4, <1>6 DEF ExchangeOK
<1>8. Open' = {}
  BY <1>5, <1>7 DEF Open
<1>9. ExchangeOK'
  BY <1>2, <1>3, <1>4, <1>6, <1>8 DEF ExchangeOK
<1>10. Covered(pos)' /\ Covered(disk.pos)'
  BY <1>2, <1>7, <1>8 DEF IInv, MemoryOK, Good, Covered, Backed
<1>11. RepliesOK'
  BY <1>1, <1>2 DEF RepliesOK, Requests
<1>12. /\ reply' \in [st : {"none", "ok", "rejected", "timeout"}, n : Nat]
       /\ base' <= base
  BY <1>1, <1>2, <1>3, Amounts
<1> QED
  BY <1>2, <1>9, <1>10, <1>11, <1>12, ExchangeStep

LEMMA RefusesStep == ASSUME IInv, Refuses PROVE IInv'
<1>1. PICK st \in {"rejected"} \cup (IF pc = "cancel" THEN {"ok"} ELSE {}) :
        reply' = [st |-> st, n |-> 0]
  BY DEF Refuses, Answer
<1>2. UNCHANGED <<exchange, bot, rest>> /\ pc \in Requests
  BY DEF Refuses, Awaited, Requests
<1>3. st \in {"ok", "rejected", "timeout"} /\ (st = "ok" => pc = "cancel")
  BY <1>1
<1> QED
  BY <1>1, <1>2, <1>3, AnswerStep

LEMMA NeverArrivesStep == ASSUME IInv, NeverArrives PROVE IInv'
<1>1. reply' = [st |-> "timeout", n |-> 0]
  BY DEF NeverArrives, Answer
<1>2. UNCHANGED <<exchange, bot, rest>> /\ pc \in Requests
  BY DEF NeverArrives, Awaited, Requests
<1> QED
  BY <1>1, <1>2, AnswerStep

(* What a list sells leaves the account and is what it has sold: the sum   *)
(* that backs a position is the same.                                      *)
LEMMA ListFillsStep == ASSUME IInv, ListFills PROVE IInv'
<1>0. PICK i \in Open : \E n \in 1..Remaining(i) :
        /\ base' = base - n
        /\ lists' = [lists EXCEPT ![i].done = @ + n, ![i].open = n < Remaining(i)]
  BY DEF ListFills
<1>1. PICK n \in 1..Remaining(i) :
        /\ base' = base - n
        /\ lists' = [lists EXCEPT ![i].done = @ + n, ![i].open = n < Remaining(i)]
  BY <1>0
<1>2. UNCHANGED <<bot, reply, rest>> /\ UNCHANGED <<pos, disk, pc, op, reply>>
  BY DEF ListFills, bot
<1>3. ExchangeOK
  BY DEF IInv
<1>4. i \in ListId /\ Open = {i} /\ base = lists[i].qty - lists[i].done
  BY <1>3 DEF ExchangeOK, Open, Remaining
<1>5. /\ base \in Nat /\ base <= Lot /\ Lot \in Nat
      /\ lists[i].qty \in Nat /\ lists[i].done \in Nat
  BY <1>3, <1>4, Amounts
<1>6. n \in Nat /\ n >= 1 /\ n <= base /\ Remaining(i) = base
  BY <1>1, <1>4, <1>5 DEF Remaining
<1>7. lists[i] \in [qty : Quantity, done : Quantity, open : BOOLEAN]
  BY <1>3, <1>4 DEF ExchangeOK
<1>8. /\ lists'[i] = [qty |-> lists[i].qty, done |-> lists[i].done + n, open |-> n < base]
      /\ \A j \in ListId \ {i} : lists'[j] = lists[j]
  BY <1>1, <1>3, <1>4, <1>6, <1>7 DEF ExchangeOK
<1>9. Open' = IF n < base THEN {i} ELSE {}
  <2>1. \A j \in ListId : lists[j].open <=> j = i
    BY <1>4 DEF Open
  <2>2. ASSUME NEW j \in ListId PROVE lists'[j].open <=> (j = i /\ n < base)
    <3>1. CASE j = i
      <4>1. lists'[i].open = (n < base)
        BY <1>8
      <4> QED
        BY <3>1, <4>1
    <3>2. CASE j # i
      <4>1. lists'[j] = lists[j] /\ ~lists[j].open
        BY <1>8, <2>1, <3>2
      <4> QED
        BY <3>2, <4>1
    <3> QED
      BY <3>1, <3>2
  <2> QED
    BY <1>4, <2>2 DEF Open
<1>10. base' \in 0..Lot /\ base' <= base /\ (n < base => base' > 0)
  BY <1>1, <1>5, <1>6
<1>11. /\ lists[i].done + n \in Quantity
       /\ base' = lists[i].qty - (lists[i].done + n)
       /\ base' + (lists[i].done + n) = base + lists[i].done
  <2>1. lists[i].done + n <= lists[i].qty /\ lists[i].qty <= 2 * Lot
    BY <1>4, <1>5, <1>6, <1>7 DEF Quantity
  <2> QED
    BY <1>1, <1>4, <1>5, <1>6, <2>1 DEF Quantity
<1>12. ExchangeOK'
  <2>1. lists' \in [ListId -> [qty : Quantity, done : Quantity, open : BOOLEAN]]
    <3>1. lists'[i] \in [qty : Quantity, done : Quantity, open : BOOLEAN]
      BY <1>7, <1>8, <1>11
    <3>2. DOMAIN lists' = ListId /\ lists' = [j \in ListId |-> lists'[j]]
      BY <1>1, <1>3 DEF ExchangeOK
    <3> QED
      BY <1>3, <1>8, <3>1, <3>2 DEF ExchangeOK
  <2>2. \A j \in Open' : Open' = {j} /\ base' = lists'[j].qty - lists'[j].done /\ base' > 0
    BY <1>8, <1>9, <1>10, <1>11
  <2> QED
    BY <1>10, <2>1, <2>2 DEF ExchangeOK, Remaining
<1>13. ASSUME NEW qty, NEW j, Backed(qty, j)
       PROVE  j = i /\ qty = base' + lists'[i].done /\ qty = lists'[i].qty
  BY <1>4, <1>8, <1>11, <1>13 DEF Backed
<1>14. ASSUME NEW p, Good(p)
       PROVE  /\ p # NoPos /\ p.link = NoList => base' <= p.qty
              /\ p # NoPos /\ p.link # NoList =>
                    p.link = i /\ p.qty = base' + lists'[i].done /\ p.qty = lists'[i].qty
  <2>1. ASSUME p # NoPos, p.link = NoList PROVE base' <= p.qty
    <3>1. base <= p.qty /\ p.qty \in Nat
      BY <1>14, <2>1, PositionFields, BrokerAssumption DEF Good, Covered
    <3> QED
      BY <1>5, <1>10, <3>1
  <2> QED
    BY <1>13, <1>14, <2>1 DEF Good, Covered
<1>15. Good(pos) /\ Good(disk.pos)
  BY DEF IInv, MemoryOK
<1>16. Open' \subseteq {i} /\ base' + lists'[i].done = lists'[i].qty
  BY <1>4, <1>8, <1>9, <1>11, <1>5
<1>17. Covered(pos)'
  BY <1>2, <1>4, <1>14, <1>15, <1>16 DEF Covered, Backed
<1>18. Covered(disk.pos)'
  BY <1>2, <1>4, <1>14, <1>15, <1>16 DEF Covered, Backed
<1>19. RepliesOK'
  <2>1. pc # "buy" \/ reply # NoReply
    BY <1>5, <1>6 DEF IInv, RepliesOK
  <2>2. ASSUME pc = "sell", reply.st = "ok", pos # NoPos PROVE base' + reply.n <= pos.qty
    <3>1. base + reply.n <= pos.qty /\ pos.qty \in Nat /\ reply.n \in Nat
      BY <1>15, <2>2, PositionFields, BrokerAssumption DEF IInv, RepliesOK, Types, Good
    <3> QED
      BY <1>5, <1>10, <3>1
  <2>3. pc = "oco" /\ reply.st = "ok" => Backed(OcoQty, reply.n)'
    <3> SUFFICES ASSUME pc = "oco", reply.st = "ok" PROVE Backed(OcoQty, reply.n)'
      OBVIOUS
    <3>1. Backed(OcoQty, reply.n)
      BY DEF IInv, RepliesOK
    <3>2. OcoQty' = OcoQty
      BY <1>2 DEF OcoQty
    <3> QED
      BY <1>2, <1>4, <1>13, <1>16, <3>1, <3>2 DEF Backed
  <2>4. SellQty' = SellQty
    BY <1>2 DEF SellQty
  <2> QED
    BY <1>2, <2>1, <2>2, <2>3, <2>4 DEF IInv, RepliesOK
<1>20. reply' \in [st : {"none", "ok", "rejected", "timeout"}, n : Nat]
  BY <1>2 DEF IInv, Types
<1> QED
  BY <1>2, <1>10, <1>12, <1>17, <1>18, <1>19, <1>20, ExchangeStep

-----------------------------------------------------------------------------
(* Reconcile.                                                              *)
LEMMA NoPosGood == Good(NoPos) /\ Attended(NoPos)
BY DEF Good, Covered, Position, Attended

LEMMA ReadAccountStep == ASSUME IInv, ReadAccount PROVE IInv'
<1>1. /\ pc \in {"idle", "boot"} /\ pc' = "lists" /\ boot' = (pc = "boot")
      /\ UNCHANGED <<base, lists, pos, ledger, disk, op, reply, conflict, recover>>
      /\ snap' = [try |-> 1, base |-> base, locked |-> Locked, open |-> {},
                  partial |-> FALSE, err |-> "none", base1 |-> base, open1 |-> {},
                  fresh1 |-> FALSE]
  BY DEF ReadAccount, exchange, memory, rest
<1>2. Types' /\ ExchangeOK'
  BY <1>1, ExchangeKept DEF IInv, Types
<1>3. MemoryOK'
  BY <1>1, GoodKept DEF IInv, MemoryOK
<1>4. PlacesOK' /\ RepliesOK' /\ CycleOK'
  BY <1>1 DEF IInv, PlacesOK, Sends, Requests, RepliesOK, CycleOK
<1>5. SnapOK'
  <2>1. base \in Nat /\ base \in 0..Lot /\ base <= base /\ Locked \in Int /\ 1 \in Nat
    BY FreeIs, Amounts DEF IInv, ExchangeOK
  <2> QED
    BY <1>1, <2>1 DEF SnapOK
<1>6. IntentsOK'
  BY <1>1, NothingPending DEF IntentsOK, Quiet
<1> QED
  BY <1>2, <1>3, <1>4, <1>5, <1>6 DEF IInv

LEMMA ReadListsStep == ASSUME IInv, ReadLists PROVE IInv'
<1>1. PICK ok \in BOOLEAN :
        LET seen == IF ok THEN Open ELSE {}
            now == [snap EXCEPT !.open = seen, !.partial = ~ok]
        IN snap' = IF snap.try > 1 THEN now
                   ELSE [now EXCEPT !.open1 = seen, !.fresh1 = ok]
  BY DEF ReadLists
<1>2. /\ pc = "lists"
      /\ pc' = IF snap.try > 1 THEN "decide" ELSE IF pos = NoPos THEN "untracked" ELSE "sync"
      /\ UNCHANGED <<base, lists, pos, ledger, disk, op, reply, boot, conflict, recover>>
  BY DEF ReadLists, exchange, memory, rest
<1>3. Types' /\ ExchangeOK'
  BY <1>2, ExchangeKept DEF IInv, Types
<1>4. MemoryOK'
  BY <1>2, GoodKept DEF IInv, MemoryOK
<1>5. PlacesOK' /\ RepliesOK' /\ CycleOK'
  BY <1>2 DEF IInv, PlacesOK, Sends, Requests, RepliesOK, CycleOK, Attended
<1>6. SnapOK'
  <2> DEFINE seen == IF ok THEN Open ELSE {}
  <2>1. seen \in SUBSET ListId /\ (~ok) \in BOOLEAN
    BY DEF Open
  <2> HIDE DEF seen
  <2>2. CASE snap.try > 1
    <3>1. snap' = [snap EXCEPT !.open = seen, !.partial = ~ok]
      BY <1>1, <2>2 DEF seen
    <3> QED
      BY <1>2, <2>1, <3>1 DEF IInv, SnapOK
  <2>3. CASE ~(snap.try > 1)
    <3>1. snap' = [snap EXCEPT !.open = seen, !.partial = ~ok, !.open1 = seen, !.fresh1 = ok]
      BY <1>1, <2>3 DEF seen
    <3> QED
      BY <1>2, <2>1, <3>1 DEF IInv, SnapOK
  <2> QED
    BY <2>2, <2>3
<1>7. IntentsOK'
  BY <1>2, NothingPending DEF IntentsOK, Quiet
<1> QED
  BY <1>3, <1>4, <1>5, <1>6, <1>7 DEF IInv

LEMMA ReadFailsStep == ASSUME IInv, ReadFails PROVE IInv'
BY AbortStep, NothingPending DEF ReadFails

(* What is linked at sync and at decide, and what follows from the flags.  *)
LEMMA AtSync ==
    ASSUME IInv, pc \in {"sync", "decide"}
    PROVE  ExchangeOK /\ Good(pos) /\ pos # NoPos /\ Quiet(ledger)
BY NothingPending DEF IInv, MemoryOK, PlacesOK

LEMMA CooldownWaitStep == ASSUME IInv, CooldownWait PROVE IInv'
<1>1. PICK p : p = markPositionForRetry(pos)
  OBVIOUS
<1>2. Good(p) /\ Attended(p) /\ pc = "sync" /\ Judged(p)
  BY <1>1, AtSync, Marked DEF CooldownWait, Attended
<1> QED
  BY <1>2, JudgedStep

LEMMA SyncQuietStep == ASSUME IInv, SyncQuiet PROVE IInv'
BY AtSync, ToDecideStep DEF SyncQuiet

(* A position that its list's fills settle goes on, flagged, or is gone.   *)
LEMMA SettledAtSync ==
    ASSUME IInv, pc = "sync", pos.link # NoList, NEW p, p = settleProtectiveOrderFill(pos)
    PROVE  Good(p) /\ Attended(p) /\ (p = NoPos => base = 0)
BY AtSync, SettledFill DEF Attended

LEMMA SyncStreamFillStep == ASSUME IInv, SyncStreamFill PROVE IInv'
<1>1. PICK p : p = settleProtectiveOrderFill(pos)
  OBVIOUS
<1>2. /\ pc = "sync" /\ Good(p) /\ Attended(p)
      /\ (p # NoPos /\ ToDecide(p, "none")) \/ Judged(p)
  BY <1>1, SettledAtSync DEF SyncStreamFill
<1> QED
  BY <1>2, JudgedStep, ToDecideStep

LEMMA SyncFilledStep == ASSUME IInv, SyncFilled PROVE IInv'
BY NoPosGood, JudgedStep DEF SyncFilled

LEMMA SyncCanceledStep == ASSUME IInv, SyncCanceled PROVE IInv'
<1>1. PICK p : p = [pos EXCEPT !.link = NoList]
  OBVIOUS
<1>2. pc = "sync" /\ ToDecide(p, "none") /\ Good(p) /\ p # NoPos
  BY <1>1, AtSync, WithoutLinkGood DEF SyncCanceled
<1> QED
  BY <1>2, ToDecideStep

LEMMA SyncFailsStep == ASSUME IInv, SyncFails PROVE IInv'
<1>1. PICK p : p = settleProtectiveOrderFill(pos)
  OBVIOUS
<1>2. PICK err \in {"retriable", "fatal"} :
        \/ ToDecide(pos, err)
        \/ p = NoPos /\ Judged(p)
        \/ p # NoPos /\ ToDecide(p, err)
  BY <1>1 DEF SyncFails
<1>3. pc = "sync" /\ Good(p) /\ Attended(p) /\ Good(pos) /\ pos # NoPos
  BY <1>1, AtSync, SettledAtSync DEF SyncFails
<1> QED
  BY <1>2, <1>3, JudgedStep, ToDecideStep

LEMMA RetrySnapshotStep == ASSUME IInv, RetrySnapshot PROVE IInv'
<1>1. /\ pc = "decide" /\ pc' = "lists"
      /\ snap' = [snap EXCEPT !.try = @ + 1, !.base = base, !.locked = Locked, !.err = "none"]
      /\ UNCHANGED <<base, lists, pos, ledger, disk, op, reply, boot, conflict, recover>>
  BY DEF RetrySnapshot, exchange, memory, rest
<1>2. Types' /\ ExchangeOK'
  BY <1>1, ExchangeKept DEF IInv, Types
<1>3. MemoryOK'
  BY <1>1, GoodKept DEF IInv, MemoryOK
<1>4. PlacesOK' /\ RepliesOK' /\ CycleOK'
  BY <1>1 DEF IInv, PlacesOK, Sends, Requests, RepliesOK, CycleOK
<1>5. SnapOK'
  <2> DEFINE S == [try : Nat, base : 0..Lot, locked : Int, open : SUBSET ListId,
                   partial : BOOLEAN, err : {"none", "retriable", "fatal"},
                   base1 : 0..Lot, open1 : SUBSET ListId, fresh1 : BOOLEAN]
  <2>1. base \in 0..Lot /\ base <= base /\ Locked \in Int
    BY FreeIs, Amounts DEF IInv, ExchangeOK
  <2>2. snap \in S /\ base <= snap.base1
    BY <1>1 DEF IInv, SnapOK
  <2>3. snap.try + 1 \in Nat
    BY <2>2
  <2>4. snap' = [snap EXCEPT !.try = snap.try + 1, !.base = base, !.locked = Locked,
                             !.err = "none"]
    BY <1>1
  <2>5. snap' \in S
    BY <2>1, <2>2, <2>3, <2>4
  <2>6. snap'.base = base /\ snap'.base1 = snap.base1
    BY <2>2, <2>4
  <2> QED
    BY <1>1, <2>1, <2>2, <2>5, <2>6 DEF SnapOK
<1>6. IntentsOK'
  BY <1>1, NothingPending DEF IntentsOK, Quiet
<1> QED
  BY <1>2, <1>3, <1>4, <1>5, <1>6 DEF IInv

LEMMA RetriesExhaustedStep == ASSUME IInv, RetriesExhausted PROVE IInv'
<1>1. PICK p : p = markPositionForRetry(pos)
  OBVIOUS
<1>2. Good(p) /\ Attended(p) /\ pc = "decide" /\ Judged(p)
  BY <1>1, AtSync, Marked DEF RetriesExhausted, Attended
<1> QED
  BY <1>2, JudgedStep

LEMMA ManualReviewStep == ASSUME IInv, ManualReview PROVE IInv'
<1>1. PICK p : p = markPositionForManualReview(pos)
  OBVIOUS
<1>2. Good(p) /\ Attended(p) /\ pc = "decide" /\ Judged(p)
  BY <1>1, AtSync, Marked DEF ManualReview, Attended
<1> QED
  BY <1>2, JudgedStep

LEMMA FlatCloseStep == ASSUME IInv, FlatClose PROVE IInv'
BY NoPosGood, JudgedStep DEF FlatClose

(* Where the flags are cleared, there is a link.                           *)
LEMMA ClearedStep ==
    ASSUME IInv, pc = "decide", pos.link # NoList, Judged(clearPositionReconcileFlags(pos))
    PROVE  IInv'
<1>1. PICK p : p = clearPositionReconcileFlags(pos)
  OBVIOUS
<1>2. Good(p) /\ Attended(p) /\ Judged(p)
  BY <1>1, AtSync, Marked DEF Attended
<1> QED
  BY <1>2, JudgedStep

LEMMA VerifyOnlyStep == ASSUME IInv, VerifyOnly PROVE IInv'
<1>1. snap.open \in SUBSET ListId /\ pos.link \in snap.open
  BY DEF VerifyOnly, IInv, SnapOK
<1> QED
  BY <1>1, NoListIsNone, ClearedStep DEF VerifyOnly

LEMMA RebuildNothingStep == ASSUME IInv, RebuildNothing PROVE IInv'
BY ClearedStep DEF RebuildNothing

(* A protective list is sent for a position without one.                   *)
LEMMA SendOcoStep ==
    ASSUME IInv, NEW p, Good(p), NEW led \in LedgerRecord,
           NEW o \in {"entry", "rebuild", "untracked", "after_exit", "after_scale",
                      "refresh", "recover_exit", "recover_scale"},
           IF p = NoPos THEN o = "entry" ELSE p.link = NoList /\ o # "entry",
           \A k \in Settling : led[k] = "open" => k = "entry" /\ o = "entry",
           Send("oco", o, p, With(led, OcoKey(o), "open")),
           UNCHANGED <<base, lists, recover, boot, conflict>>
    PROVE  IInv'
<1>1. PICK new : new = With(led, OcoKey(o), "open")
  OBVIOUS
<1>2. PICK key : key = OcoKey(o)
  OBVIOUS
<1>3. /\ new \in LedgerRecord
      /\ \A x \in Key \ {key} : new[x] = led[x]
  BY <1>1, <1>2, WithType
<1>4. ASSUME NEW k \in Settling, new[k] = "open" PROVE Pending(k, "oco", o)
  <2>1. k \in Key
    BY DEF Settling
  <2> QED
    BY <1>2, <1>3, <1>4, <2>1 DEF Pending
<1>5. Sends("oco", o, p)
  BY DEF Sends
<1>6. "oco" \in Requests
  BY DEF Requests
<1> QED
  BY <1>1, <1>3, <1>4, <1>5, <1>6, SendStep

LEMMA RebuildStep == ASSUME IInv, Rebuild PROVE IInv'
<1>1. /\ pc = "decide" /\ pos.link = NoList /\ Good(pos) /\ pos # NoPos /\ Quiet(ledger)
      /\ OcoKey("rebuild") = "protective_rebuild" /\ ledger \in LedgerRecord
  BY AtSync DEF Rebuild, OcoKey, Quiet
<1>2. CASE /\ Send("oco", "rebuild", pos, With(ledger, "protective_rebuild", "open"))
           /\ UNCHANGED <<exchange, cycle, rest>>
  <2>1. UNCHANGED <<base, lists, recover, boot, conflict>>
    BY <1>2 DEF exchange, cycle, rest
  <2> QED
    BY <1>1, <1>2, <2>1, SendOcoStep DEF Quiet
<1>3. CASE Abort(ledger)
  BY <1>1, <1>3, AbortStep
<1> QED
  BY <1>2, <1>3 DEF Rebuild

(* What the runtime does not track.  The first balance that was read is    *)
(* not below the one there is, so if it was empty the account is.          *)
LEMMA AtUntracked ==
    ASSUME IInv, pc = "untracked"
    PROVE  /\ ExchangeOK /\ Good(pos) /\ Attended(pos) /\ Quiet(ledger)
           /\ base <= snap.base1 /\ snap.base1 \in 0..Lot /\ base \in Nat
BY NothingPending, Amounts DEF IInv, MemoryOK, CycleOK, SnapOK

LEMMA NothingUntrackedStep == ASSUME IInv, NothingUntracked PROVE IInv'
<1>1. /\ ExchangeOK /\ Good(pos) /\ Attended(pos) /\ Quiet(ledger)
      /\ base <= snap.base1 /\ snap.base1 \in 0..Lot /\ base \in Nat
  BY AtUntracked DEF NothingUntracked
<1>2. CASE pos # NoPos
  <2>1. Reconciled(pos, ledger, FALSE) /\ Vacant(pos, FALSE)
    BY <1>2 DEF NothingUntracked, Vacant
  <2> QED
    BY <1>1, <2>1, ReconciledStep
<1>3. CASE pos = NoPos
  <2>1. PICK led, blocked : led = StaleResolved(ledger) /\ blocked = (snap.open1 # {})
    OBVIOUS
  <2>2. Quiet(led) /\ blocked \in BOOLEAN
    BY <1>1, <2>1, QuietWith DEF StaleResolved
  <2>3. snap.base1 = 0 /\ Reconciled(pos, led, blocked)
    BY <1>3, <2>1 DEF NothingUntracked
  <2>4. Vacant(pos, blocked)
    BY <1>1, <2>3 DEF Vacant
  <2> QED
    BY <1>1, <2>2, <2>3, <2>4, ReconciledStep
<1> QED
  BY <1>2, <1>3

LEMMA UntrackedBalanceStep == ASSUME IInv, UntrackedBalance PROVE IInv'
<1>1. Reconciled(pos, ledger, TRUE) /\ Vacant(pos, TRUE)
  BY DEF UntrackedBalance, Vacant
<1> QED
  BY <1>1, AtUntracked, ReconciledStep DEF UntrackedBalance

LEMMA RecoverBalanceStep == ASSUME IInv, RecoverBalance PROVE IInv'
<1>1. PICK p : p = Held(snap.base1, NoList)
  OBVIOUS
<1>2. /\ ExchangeOK /\ Quiet(ledger) /\ base <= snap.base1 /\ snap.base1 \in 1..Lot
  BY AtUntracked, BrokerAssumption DEF RecoverBalance
<1>3. Good(p) /\ p # NoPos /\ p.link = NoList
  BY <1>1, <1>2, HeldGood
<1>4. CASE /\ Send("oco", "untracked", p, With(ledger, "protective_rebuild", "open"))
           /\ UNCHANGED <<exchange, cycle, rest>>
  <2>1. UNCHANGED <<base, lists, recover, boot, conflict>>
    BY <1>4 DEF exchange, cycle, rest
  <2>2. OcoKey("untracked") = "protective_rebuild" /\ ledger \in LedgerRecord
    BY <1>2 DEF OcoKey, Quiet
  <2> QED
    BY <1>2, <1>3, <1>4, <2>1, <2>2, SendOcoStep DEF Quiet
<1>5. CASE Reconciled(markPositionForRetry(p), ledger, FALSE)
  <2>1. PICK q : q = markPositionForRetry(p)
    OBVIOUS
  <2>2. Good(q) /\ Attended(q) /\ Vacant(q, FALSE)
    BY <1>3, <2>1, Marked DEF Attended, Vacant
  <2> QED
    BY <1>2, <1>5, <2>1, <2>2, ReconciledStep
<1> QED
  BY <1>1, <1>4, <1>5 DEF RecoverBalance

-----------------------------------------------------------------------------
(* Management and entry.  A handler settles with a position that is linked *)
(* or flagged, or with none and an empty account.                          *)
LEMMA HandledStep ==
    ASSUME IInv, UNCHANGED <<exchange, cycle, rest>>,
           NEW p, Good(p), NEW led, Quiet(led), NEW next \in {"idle", "scan"},
           Settle(p, led, next),
           next = "scan" => Attended(p) /\ (p = NoPos => base = 0)
    PROVE  IInv'
<1>1. UNCHANGED <<base, lists, recover, boot, conflict>>
  BY DEF exchange, cycle, rest
<1>2. boot' \in BOOLEAN /\ conflict' \in BOOLEAN
  BY <1>1 DEF IInv, Types
<1>3. p = NoPos /\ next = "scan" => Vacant(p, conflict')
  BY Amounts DEF IInv, Vacant
<1>4. p # NoPos => Vacant(p, conflict')
  BY DEF Vacant
<1> QED
  BY <1>1, <1>2, <1>3, <1>4, SettleStep

(* A handler sends the next request and leaves nothing else open.          *)
LEMMA QuietSendStep ==
    ASSUME IInv, UNCHANGED <<exchange, cycle, rest>>,
           NEW p, Good(p), NEW led, Quiet(led), NEW request \in Requests \ {"buy"},
           NEW o \in {"exit", "scale_out", "flatten", "refresh"},
           Send(request, o, p, led), Sends(request, o, p)
    PROVE  IInv'
<1>1. UNCHANGED <<base, lists, recover, boot, conflict>>
  BY DEF exchange, cycle, rest
<1> QED
  BY <1>1, SendStep DEF Quiet

(* ensureProtectiveOrder for a position without a list: it is sent, or the *)
(* position ends flagged.                                                  *)
LEMMA EnsureStep ==
    ASSUME IInv, UNCHANGED <<exchange, cycle, rest>>,
           NEW p, Good(p), p # NoPos, p.link = NoList, NEW led, Quiet(led),
           NEW o \in {"refresh", "recover_exit", "recover_scale", "after_exit", "after_scale"},
           \/ Send("oco", o, p, With(led, OcoKey(o), "open"))
           \/ Settle(Unprotected(p), led, "scan")
    PROVE  IInv'
<1>1. UNCHANGED <<base, lists, recover, boot, conflict>>
  BY DEF exchange, cycle, rest
<1>2. CASE Send("oco", o, p, With(led, OcoKey(o), "open"))
  BY <1>1, <1>2, SendOcoStep DEF Quiet
<1>3. CASE Settle(Unprotected(p), led, "scan")
  <2>1. PICK q : q = Unprotected(p)
    OBVIOUS
  <2>2. Good(q) /\ Attended(q) /\ q # NoPos
    BY <2>1, UnprotectedGood DEF IInv, Attended
  <2> QED
    BY <1>3, <2>1, <2>2, HandledStep
<1> QED
  BY <1>2, <1>3

LEMMA RecoverStep ==
    ASSUME IInv, UNCHANGED <<exchange, cycle, rest>>,
           NEW p, Good(p), p # NoPos, p.link = NoList, NEW led, Quiet(led),
           NEW o \in {"recover_exit", "recover_scale"},
           recoverPositionProtection(o, p, led)
    PROVE  IInv'
<1>1. \/ Send("oco", o, p, With(led, OcoKey(o), "open"))
      \/ Settle(Unprotected(p), led, "scan")
  BY DEF recoverPositionProtection, ensureProtectiveOrder
<1> QED
  BY <1>1, EnsureStep

(* A position that changes in memory only, on the way to the scan.         *)
LEMMA UnsavedStep ==
    ASSUME IInv, NEW p, Good(p), pos' = p, pc' = "scan", pc \in {"manage", "cancel"},
           reply' = NoReply, op' \in {op, "none"},
           UNCHANGED <<base, lists, ledger, disk, boot, conflict, recover>>,
           Attended(p), Vacant(p, conflict)
    PROVE  IInv'
<1>1. Types' /\ ExchangeOK'
  BY ExchangeKept DEF IInv, Types, NoReply
<1>2. MemoryOK'
  BY GoodKept DEF IInv, MemoryOK
<1>3. PlacesOK' /\ RepliesOK' /\ SnapOK'
  BY DEF PlacesOK, Sends, Requests, RepliesOK, SnapOK
<1>4. IntentsOK'
  BY NothingPending DEF IntentsOK, Quiet
<1>5. CycleOK'
  BY DEF CycleOK, Attended, Vacant
<1> QED
  BY <1>1, <1>2, <1>3, <1>4, <1>5 DEF IInv

LEMMA AtManage ==
    ASSUME IInv, pc = "manage"
    PROVE  /\ ExchangeOK /\ Good(pos) /\ Attended(pos) /\ Vacant(pos, conflict)
           /\ Quiet(ledger) /\ reply = NoReply
BY NothingPending DEF IInv, MemoryOK, CycleOK, RepliesOK, Requests

LEMMA HoldStep == ASSUME IInv, Hold PROVE IInv'
<1>1. PICK p : p = pos'
  OBVIOUS
<1>2. /\ pc = "manage" /\ pc' = "scan" /\ reply' = reply /\ op' = op
      /\ UNCHANGED <<base, lists, ledger, disk, boot, conflict, recover>>
      /\ p \in IF pos = NoPos THEN {pos} ELSE Escalated(pos)
  BY <1>1 DEF Hold, exchange, cycle, rest
<1>3. Good(p) /\ Attended(p) /\ Vacant(p, conflict)
  BY <1>2, AtManage, EscalatedGood DEF Attended, Vacant
<1> QED
  BY <1>1, <1>2, <1>3, AtManage, UnsavedStep

LEMMA ManageStep ==
    ASSUME IInv, NEW o \in {"exit", "scale_out"}, pc = "manage", pos # NoPos,
           o = "scale_out" => pos.qty > 1, Manage(o)
    PROVE  IInv'
<1>1. UNCHANGED <<exchange, cycle, rest>>
  BY DEF Manage
<1>2. Good(pos) /\ Attended(pos) /\ Quiet(ledger) /\ o \in Key \ Settling
      /\ "protective_cancel" \in Key \ Settling
  BY AtManage DEF Key, Settling
<1>3. \/ \E q \in Escalated(pos) : Settle(q, ledger, "scan")
      \/ pos.link = NoList /\ Send("sell", o, pos, With(ledger, o, "open"))
      \/ /\ pos.link # NoList
         /\ Send("cancel", o, pos, With(With(ledger, o, "open"), "protective_cancel", "open"))
  BY DEF Manage
<1>4. CASE \E q \in Escalated(pos) : Settle(q, ledger, "scan")
  <2>1. PICK q \in Escalated(pos) : Settle(q, ledger, "scan")
    BY <1>4
  <2>2. Good(q) /\ q # NoPos /\ Attended(q)
    BY <1>2, EscalatedGood DEF Attended
  <2> QED
    BY <1>1, <1>2, <2>1, <2>2, HandledStep
<1>5. PICK led : led = With(ledger, o, "open")
  OBVIOUS
<1>6. PICK both : both = With(led, "protective_cancel", "open")
  OBVIOUS
<1>7. Quiet(led) /\ Quiet(both)
  BY <1>2, <1>5, <1>6, QuietWithOther
<1>8. CASE pos.link = NoList /\ Send("sell", o, pos, led)
  <2>1. Sends("sell", o, pos) /\ "sell" \in Requests \ {"buy"}
    BY <1>8 DEF Sends, Requests
  <2> QED
    BY <1>1, <1>2, <1>7, <1>8, <2>1, QuietSendStep
<1>9. CASE pos.link # NoList /\ Send("cancel", o, pos, both)
  <2>1. Sends("cancel", o, pos) /\ "cancel" \in Requests \ {"buy"}
    BY <1>9 DEF Sends, Requests
  <2> QED
    BY <1>1, <1>2, <1>7, <1>9, <2>1, QuietSendStep
<1> QED
  BY <1>3, <1>4, <1>5, <1>6, <1>8, <1>9

LEMMA exitPositionStep == ASSUME IInv, exitPosition PROVE IInv'
BY ManageStep DEF exitPosition

LEMMA scaleOutPositionStep == ASSUME IInv, scaleOutPosition PROVE IInv'
BY ManageStep DEF scaleOutPosition

LEMMA refreshProtectiveOrderStep == ASSUME IInv, refreshProtectiveOrder PROVE IInv'
<1>1. UNCHANGED <<exchange, cycle, rest>> /\ pos # NoPos
  BY DEF refreshProtectiveOrder
<1>2. Good(pos) /\ Attended(pos) /\ Quiet(ledger)
  BY AtManage DEF refreshProtectiveOrder
<1>3. CASE pos.link = NoList
  <2>1. \/ Send("oco", "refresh", pos, With(ledger, OcoKey("refresh"), "open"))
        \/ Settle(Unprotected(pos), ledger, "scan")
    BY <1>3 DEF refreshProtectiveOrder, ensureProtectiveOrder
  <2> QED
    BY <1>1, <1>2, <1>3, <2>1, EnsureStep
<1>4. CASE pos.link # NoList
  <2>1. PICK led : led = With(ledger, "refresh_cancel", "open")
    OBVIOUS
  <2>2. Quiet(led)
    BY <1>2, <2>1, QuietWithOther DEF Key, Settling
  <2>3. Settle(pos, ledger, "scan") \/ Send("cancel", "refresh", pos, led)
    BY <1>4, <2>1 DEF refreshProtectiveOrder
  <2>4. CASE Settle(pos, ledger, "scan")
    BY <1>1, <1>2, <2>4, HandledStep
  <2>5. CASE Send("cancel", "refresh", pos, led)
    <3>1. Sends("cancel", "refresh", pos) /\ "cancel" \in Requests \ {"buy"}
      BY <1>1, <1>4 DEF Sends, Requests
    <3> QED
      BY <1>1, <1>2, <2>2, <2>5, <3>1, QuietSendStep
  <2> QED
    BY <2>3, <2>4, <2>5
<1> QED
  BY <1>3, <1>4

-----------------------------------------------------------------------------
(* The reply to a cancel.                                                  *)
LEMMA AtCancel ==
    ASSUME IInv, pc = "cancel"
    PROVE  /\ ExchangeOK /\ Good(pos) /\ pos # NoPos /\ pos.link # NoList
           /\ op \in {"exit", "scale_out", "refresh"} /\ op \in Key \cup {"refresh"}
           /\ op = "scale_out" => pos.qty > 1
           /\ Quiet(ledger)
<1>1. op \in {"exit", "scale_out", "refresh"} /\ pos # NoPos /\ pos.link # NoList
      /\ (op = "scale_out" => pos.qty > 1)
  BY DEF IInv, PlacesOK, Sends
<1> QED
  BY <1>1, NothingPending DEF IInv, MemoryOK, Key

LEMMA CancelDoneStep == ASSUME IInv, CancelDone PROVE IInv'
<1>1. PICK p, led : p = [pos EXCEPT !.link = NoList] /\ led = With(ledger, CancelKey, "none")
  OBVIOUS
<1>2. /\ pc = "cancel" /\ UNCHANGED <<exchange, cycle, rest>>
      /\ op = "refresh" => \/ Send("oco", op, p, With(led, OcoKey(op), "open"))
                           \/ Settle(Unprotected(p), led, "scan")
      /\ op # "refresh" => Send("sell", op, p, led)
  BY <1>1 DEF CancelDone, Answered, ensureProtectiveOrder
<1>3. Good(p) /\ p # NoPos /\ p.link = NoList /\ p.qty = pos.qty
  BY <1>1, <1>2, AtCancel, WithoutLinkGood
<1>4. Quiet(led)
  BY <1>1, <1>2, AtCancel, QuietWith
<1>5. CASE op = "refresh"
  BY <1>2, <1>3, <1>4, <1>5, EnsureStep
<1>6. CASE op # "refresh"
  <2>1. op \in {"exit", "scale_out"} /\ Sends("sell", op, p) /\ "sell" \in Requests \ {"buy"}
    BY <1>2, <1>3, <1>6, AtCancel DEF Sends, Requests
  <2> QED
    BY <1>2, <1>3, <1>4, <1>6, <2>1, QuietSendStep
<1> QED
  BY <1>5, <1>6

LEMMA CancelFoundFillStep == ASSUME IInv, CancelFoundFill PROVE IInv'
<1>1. PICK p, led, o : /\ p = settleProtectiveOrderFill(pos)
                       /\ led = Failed(ledger, op) /\ o = RecoverOp
  OBVIOUS
<1>2. pc = "cancel" /\ UNCHANGED <<exchange, cycle, rest>>
  BY DEF CancelFoundFill, Answered
<1>3. Good(p) /\ (p = NoPos => base = 0) /\ (p # NoPos => p.link = NoList /\ p.rec)
  BY <1>1, <1>2, AtCancel, SettledFill
<1>4. CASE p = NoPos \/ op = "refresh"
  <2>1. /\ pos' = p /\ pc' = "scan" /\ op' = "none" /\ reply' = NoReply
        /\ UNCHANGED <<base, lists, ledger, disk, boot, conflict, recover>>
    BY <1>1, <1>4 DEF CancelFoundFill, exchange, cycle, rest
  <2>2. Attended(p) /\ Vacant(p, conflict)
    BY <1>3, Amounts DEF IInv, Attended, Vacant
  <2> QED
    BY <1>2, <1>3, <2>1, <2>2, UnsavedStep
<1>5. CASE ~(p = NoPos \/ op = "refresh")
  <2>1. recoverPositionProtection(o, p, led)
    BY <1>1, <1>5 DEF CancelFoundFill
  <2>2. Quiet(led) /\ o \in {"recover_exit", "recover_scale"}
    BY <1>1, <1>2, AtCancel, QuietFailed DEF RecoverOp
  <2> QED
    BY <1>2, <1>3, <1>5, <2>1, <2>2, RecoverStep
<1> QED
  BY <1>4, <1>5

LEMMA CancelFailedStep == ASSUME IInv, CancelFailed PROVE IInv'
<1>1. PICK led0 : led0 = With(ledger, CancelKey, "ambiguous")
  OBVIOUS
<1>2. PICK led : led = Failed(led0, op)
  OBVIOUS
<1>3. /\ pc = "cancel" /\ UNCHANGED <<exchange, cycle, rest>>
      /\ \E q \in IF op = "refresh" THEN {pos} ELSE Escalated(pos) : Settle(q, led, "scan")
  BY <1>1, <1>2 DEF CancelFailed, Answered
<1>4. PICK q \in IF op = "refresh" THEN {pos} ELSE Escalated(pos) : Settle(q, led, "scan")
  BY <1>3
<1>5. Quiet(led)
  BY <1>1, <1>2, <1>3, AtCancel, QuietWith, QuietFailed
<1>6. Good(q) /\ q # NoPos /\ Attended(q)
  BY <1>3, AtCancel, EscalatedGood DEF Attended
<1> QED
  BY <1>3, <1>4, <1>5, <1>6, HandledStep

-----------------------------------------------------------------------------
(* The reply to a sell: what is left of the position accounts for what is  *)
(* left of the balance.                                                    *)
LEMMA AtSell ==
    ASSUME IInv, pc = "sell", op # "flatten"
    PROVE  /\ ExchangeOK /\ Good(pos) /\ pos # NoPos /\ pos.link = NoList
           /\ op \in {"exit", "scale_out"} /\ op \in Key
           /\ op = "scale_out" => pos.qty > 1
           /\ Quiet(ledger) /\ reply.n \in Nat /\ pos.qty \in Nat
<1>1. op \in {"exit", "scale_out"} /\ pos # NoPos /\ pos.link = NoList
      /\ (op = "scale_out" => pos.qty > 1)
  BY DEF IInv, PlacesOK, Sends
<1>2. Good(pos) /\ pos.qty \in Nat
  BY <1>1, PositionFields, BrokerAssumption DEF IInv, MemoryOK, Good
<1> QED
  BY <1>1, <1>2, NothingPending DEF IInv, Key, Types

LEMMA LeftOver ==
    ASSUME IInv, pc = "sell", op # "flatten", reply.st = "ok",
           NEW p \in PositionRecord \cup [qty : {0}, link : {NoList}, rec : BOOLEAN,
                                          mode : {"normal", "protect_only", "manual"}],
           p.link = NoList, p.qty = pos.qty - reply.n
    PROVE  /\ p.qty = 0 => base = 0
           /\ p.qty # 0 => Good(p) /\ p # NoPos
<1>1. base + reply.n <= pos.qty /\ base \in Nat /\ reply.n \in Nat /\ pos.qty \in Nat
  BY AtSell, Amounts DEF IInv, RepliesOK
<1>2. base <= p.qty
  BY <1>1
<1>3. p.qty # 0 => p \in PositionRecord
  OBVIOUS
<1>4. p.qty # 0 => p # NoPos /\ p \in Position
  BY <1>3, PositionFields DEF Position
<1> QED
  BY <1>1, <1>2, <1>4 DEF Good, Covered

(* What a sell leaves is a position or nothing.                            *)
LEMMA SoldShape ==
    ASSUME IInv, pc = "sell", op # "flatten", reply.st = "ok",
           NEW p, p = [pos EXCEPT !.qty = @ - reply.n] \/
                  p = [pos EXCEPT !.qty = @ - reply.n, !.link = NoList]
    PROVE  /\ p \in PositionRecord \cup [qty : {0}, link : {NoList}, rec : BOOLEAN,
                                         mode : {"normal", "protect_only", "manual"}]
           /\ p.link = NoList /\ p.qty = pos.qty - reply.n
           /\ p.qty = 0 => op = "exit"
<1>1. /\ pos \in PositionRecord /\ pos.link = NoList /\ pos.qty \in 1..(2 * Lot)
      /\ (op = "exit" \/ (op = "scale_out" /\ pos.qty > 1))
  BY AtSell, PositionFields DEF Good
<1>2. /\ reply.n \in Nat /\ pos.qty \in Nat /\ reply.n <= SellQty
      /\ SellQty = IF op = "scale_out" THEN 1 ELSE pos.qty
  BY AtSell DEF IInv, RepliesOK, SellQty
<1>3. /\ pos.qty - reply.n \in 0..(2 * Lot)
      /\ pos.qty - reply.n = 0 => op = "exit"
  BY <1>1, <1>2, BrokerAssumption
<1>4. /\ p.link = NoList /\ p.qty = pos.qty - reply.n /\ p.rec = pos.rec /\ p.mode = pos.mode
      /\ p = [qty |-> pos.qty - reply.n, link |-> NoList, rec |-> pos.rec, mode |-> pos.mode]
  BY <1>1 DEF PositionRecord
<1>5. pos.qty - reply.n \in 1..(2 * Lot) \/ pos.qty - reply.n = 0
  BY <1>3, BrokerAssumption
<1>6. pos.rec \in BOOLEAN /\ pos.mode \in {"normal", "protect_only", "manual"}
  BY <1>1 DEF PositionRecord
<1> QED
  BY <1>3, <1>4, <1>5, <1>6 DEF PositionRecord

LEMMA ExitSoldStep == ASSUME IInv, ExitSold PROVE IInv'
<1>1. PICK p, led, q : /\ p = [pos EXCEPT !.qty = @ - reply.n]
                       /\ led = With(ledger, "exit", "none") /\ q = Unprotected(p)
  OBVIOUS
<1>2. /\ pc = "sell" /\ op = "exit" /\ reply.st = "ok" /\ UNCHANGED <<exchange, cycle, rest>>
      /\ p.qty = 0 => Settle(NoPos, led, "scan")
      /\ p.qty # 0 => \/ Send("oco", "after_exit", p, With(ledger, OcoKey("after_exit"), "open"))
                      \/ recoverPositionProtection("recover_exit", q, led)
  BY <1>1 DEF ExitSold, Answered, Sold, ensureProtectiveOrder
<1>3. /\ p.link = NoList
      /\ p.qty = 0 => base = 0
      /\ p.qty # 0 => Good(p) /\ p # NoPos
  BY <1>1, <1>2, SoldShape, LeftOver
<1>4. Quiet(led) /\ Quiet(ledger) /\ ExchangeOK
  BY <1>1, <1>2, AtSell, QuietWith
<1>5. CASE p.qty = 0
  BY <1>2, <1>3, <1>4, <1>5, NoPosGood, HandledStep
<1>6. CASE p.qty # 0 /\ Send("oco", "after_exit", p, With(ledger, OcoKey("after_exit"), "open"))
  BY <1>2, <1>3, <1>4, <1>6, EnsureStep
<1>7. CASE p.qty # 0 /\ recoverPositionProtection("recover_exit", q, led)
  <2>1. Good(q) /\ q # NoPos /\ q.link = NoList
    BY <1>1, <1>3, <1>4, <1>7, UnprotectedGood
  <2> QED
    BY <1>2, <1>4, <1>7, <2>1, RecoverStep
<1> QED
  BY <1>2, <1>5, <1>6, <1>7

LEMMA ScaledOutStep == ASSUME IInv, ScaledOut PROVE IInv'
<1>1. PICK p, led : /\ p = [pos EXCEPT !.qty = @ - reply.n, !.link = NoList]
                    /\ led = With(ledger, "scale_out", "none")
  OBVIOUS
<1>2. /\ pc = "sell" /\ op = "scale_out" /\ reply.st = "ok" /\ UNCHANGED <<exchange, cycle, rest>>
      /\ \/ Send("oco", "after_scale", p, With(ledger, OcoKey("after_scale"), "open"))
         \/ Settle(Unprotected(p), led, "scan")
  BY <1>1 DEF ScaledOut, Answered, Sold, ensureProtectiveOrder
<1>3. p.link = NoList /\ Good(p) /\ p # NoPos
  BY <1>1, <1>2, SoldShape, LeftOver
<1>4. Quiet(led) /\ Quiet(ledger)
  BY <1>1, <1>2, AtSell, QuietWith
<1> QED
  BY <1>2, <1>3, <1>4, EnsureStep

LEMMA SellFailedStep == ASSUME IInv, SellFailed PROVE IInv'
<1>1. PICK led, o : led = Failed(ledger, op) /\ o = RecoverOp
  OBVIOUS
<1>2. /\ pc = "sell" /\ op # "flatten" /\ UNCHANGED <<exchange, cycle, rest>>
      /\ recoverPositionProtection(o, pos, led)
  BY <1>1 DEF SellFailed, Answered
<1>3. Quiet(led) /\ o \in {"recover_exit", "recover_scale"}
  BY <1>1, <1>2, AtSell, QuietFailed DEF RecoverOp
<1> QED
  BY <1>2, <1>3, AtSell, RecoverStep

-----------------------------------------------------------------------------
(* The reply to a protective list.                                         *)
LEMMA AtOco ==
    ASSUME IInv, pc = "oco"
    PROVE  /\ ExchangeOK /\ Good(pos)
           /\ op \in {"entry", "rebuild", "untracked", "after_exit", "after_scale",
                      "refresh", "recover_exit", "recover_scale"}
           /\ pos = NoPos <=> op = "entry"
           /\ pos # NoPos => pos.link = NoList
           /\ WithoutOcoKey \in LedgerRecord
           /\ \A k \in Settling : WithoutOcoKey[k] = "open" => k = "entry" /\ op = "entry"
           /\ op # "entry" => Quiet(WithoutOcoKey)
<1>1. /\ op \in {"entry", "rebuild", "untracked", "after_exit", "after_scale",
                 "refresh", "recover_exit", "recover_scale"}
      /\ (pos = NoPos <=> op = "entry") /\ (pos # NoPos => pos.link = NoList)
  BY DEF IInv, PlacesOK, Sends
<1>2. PICK key, led : key = OcoKey(op) /\ led = WithoutOcoKey
  OBVIOUS
<1>3. /\ led = With(ledger, key, "none") /\ ledger \in LedgerRecord
      /\ \A k \in Settling : ledger[k] = "open" => k = key \/ (k = "entry" /\ op = "entry")
  BY <1>1, <1>2 DEF WithoutOcoKey, IInv, IntentsOK, Pending
<1>4. /\ led \in LedgerRecord
      /\ \A k \in Settling : led[k] = "open" => k = "entry" /\ op = "entry"
  <2>1. led \in LedgerRecord /\ \A x \in Key \ {key} : led[x] = ledger[x]
    BY <1>3, WithType
  <2>2. key \in Key => led[key] = "none"
    BY <1>3, WithType
  <2>3. Settling \subseteq Key
    BY DEF Settling
  <2> QED
    BY <1>3, <2>1, <2>2, <2>3
<1> QED
  BY <1>1, <1>2, <1>4 DEF IInv, MemoryOK, Quiet

(* The position that the placed list protects.                             *)
LEMMA PlacedGood ==
    ASSUME IInv, pc = "oco", reply.st = "ok", pos # NoPos, NEW p, p = Placed(pos)
    PROVE  /\ Good(p) /\ p # NoPos /\ Attended(p) /\ p.link # NoList
           /\ Vacant(p, FALSE)
<1>1. Backed(OcoQty, reply.n) /\ OcoQty = pos.qty
  BY DEF IInv, RepliesOK, OcoQty
<1>2. reply.n \in ListId /\ reply.n # NoList /\ pos \in PositionRecord
  BY <1>1, AtOco, NoListIsNone, PositionFields DEF Backed, Good
<1>3. p \in PositionRecord /\ p.link = reply.n /\ p.qty = pos.qty
  BY <1>2 DEF Placed, PositionRecord
<1>4. p # NoPos /\ p \in Position
  BY <1>3, PositionFields DEF Position
<1> QED
  BY <1>1, <1>2, <1>3, <1>4 DEF Good, Covered, Attended, Vacant

LEMMA EntryPlaced ==
    ASSUME IInv, pc = "oco", reply.st = "ok", op = "entry", NEW p, p = Held(Lot, reply.n)
    PROVE  Good(p)
<1>1. Backed(Lot, reply.n) /\ reply.n \in ListId
  BY AtOco DEF IInv, RepliesOK, OcoQty, Backed
<1>2. p \in PositionRecord /\ p.link = reply.n /\ p.qty = Lot /\ reply.n # NoList
  BY <1>1, NoListIsNone, BrokerAssumption DEF Held, PositionRecord
<1>3. p # NoPos /\ p \in Position
  BY <1>2, PositionFields DEF Position
<1> QED
  BY <1>1, <1>2, <1>3 DEF Good, Covered

LEMMA OcoPlacedStep == ASSUME IInv, OcoPlaced PROVE IInv'
<1>1. PICK led : led = WithoutOcoKey
  OBVIOUS
<1>2. PICK p : p = Placed(pos)
  OBVIOUS
<1>3. pc = "oco" /\ reply.st = "ok"
  BY DEF OcoPlaced, Answered
<1>4. CASE op = "entry"
  <2>1. PICK q, done : q = Held(Lot, reply.n) /\ done = With(led, "entry", "none")
    OBVIOUS
  <2>2. Settle(q, done, "idle") /\ UNCHANGED <<exchange, cycle, rest>>
    BY <1>1, <1>4, <2>1 DEF OcoPlaced
  <2>3. Quiet(done)
    <3>1. /\ led \in LedgerRecord
          /\ \A k \in Settling : led[k] = "open" => k = "entry"
      BY <1>1, <1>3, AtOco
    <3> QED
      BY <2>1, <3>1 DEF Quiet, With, LedgerRecord, Settling
  <2>4. Good(q)
    BY <1>3, <1>4, <2>1, EntryPlaced
  <2> QED
    BY <2>2, <2>3, <2>4, HandledStep
<1>5. CASE op # "entry"
  <2>1. Good(p) /\ p # NoPos /\ Attended(p) /\ p.link # NoList /\ Vacant(p, FALSE)
    BY <1>2, <1>3, <1>5, AtOco, PlacedGood
  <2>2. Quiet(led)
    BY <1>1, <1>3, <1>5, AtOco
  <2>3. CASE op = "rebuild"
    <3>1. PICK q : q = clearPositionReconcileFlags(p)
      OBVIOUS
    <3>2. Reconciled(q, led, FALSE)
      BY <1>1, <1>2, <2>3, <3>1 DEF OcoPlaced
    <3>3. Good(q) /\ Attended(q) /\ Vacant(q, FALSE)
      BY <2>1, <3>1, Marked DEF Attended, Vacant
    <3> QED
      BY <2>2, <3>2, <3>3, ReconciledStep
  <2>4. CASE op = "untracked"
    <3>1. Reconciled(p, led, FALSE)
      BY <1>1, <1>2, <2>4 DEF OcoPlaced
    <3> QED
      BY <2>1, <2>2, <3>1, ReconciledStep
  <2>5. CASE op \notin {"rebuild", "untracked"}
    <3>1. PICK done : done = IF op = "after_exit" THEN With(led, "exit", "none")
                             ELSE IF op = "after_scale" THEN With(led, "scale_out", "none")
                             ELSE led
      OBVIOUS
    <3>2. Quiet(done)
      BY <2>2, <3>1, QuietWith
    <3>3. Settle(p, done, "scan") /\ UNCHANGED <<exchange, cycle, rest>>
      <4>1. op \in {"after_exit", "after_scale", "refresh", "recover_exit", "recover_scale"}
        BY <1>3, <1>5, <2>5, AtOco
      <4>2. CASE op = "after_exit"
        BY <1>1, <1>2, <3>1, <4>2 DEF OcoPlaced
      <4>3. CASE op = "after_scale"
        BY <1>1, <1>2, <3>1, <4>3 DEF OcoPlaced
      <4>4. CASE op \in {"refresh", "recover_exit", "recover_scale"}
        BY <1>1, <1>2, <3>1, <4>4 DEF OcoPlaced
      <4> QED
        BY <4>1, <4>2, <4>3, <4>4
    <3> QED
      BY <2>1, <3>2, <3>3, HandledStep
  <2> QED
    BY <2>3, <2>4, <2>5
<1> QED
  BY <1>4, <1>5

LEMMA RebuildFailedStep == ASSUME IInv, RebuildFailed PROVE IInv'
<1>1. PICK p, led : /\ p = [Unprotected(pos) EXCEPT !.mode = "protect_only"]
                    /\ led = WithoutOcoKey
  OBVIOUS
<1>2. pc = "oco" /\ op = "rebuild" /\ (Reconciled(p, led, FALSE) \/ Abort(led))
  BY <1>1 DEF RebuildFailed, Answered
<1>3. ExchangeOK /\ Good(pos) /\ pos # NoPos /\ Quiet(led)
  BY <1>1, <1>2, AtOco
<1>4. Good(p) /\ Attended(p) /\ Vacant(p, FALSE)
  BY <1>1, <1>3, ProtectOnlyGood DEF Attended, Vacant
<1> QED
  BY <1>2, <1>3, <1>4, ReconciledStep, AbortStep

LEMMA RecoveredUnprotectedStep == ASSUME IInv, RecoveredUnprotected PROVE IInv'
<1>1. PICK p, led : /\ p = [Unprotected(pos) EXCEPT !.mode = "protect_only"]
                    /\ led = WithoutOcoKey
  OBVIOUS
<1>2. pc = "oco" /\ op = "untracked" /\ Reconciled(p, led, FALSE)
  BY <1>1 DEF RecoveredUnprotected, Answered
<1>3. ExchangeOK /\ Good(pos) /\ pos # NoPos /\ Quiet(led)
  BY <1>1, <1>2, AtOco
<1>4. Good(p) /\ Attended(p) /\ Vacant(p, FALSE)
  BY <1>1, <1>3, ProtectOnlyGood DEF Attended, Vacant
<1> QED
  BY <1>2, <1>3, <1>4, ReconciledStep

LEMMA OcoFailedStep == ASSUME IInv, OcoFailed PROVE IInv'
<1>1. PICK led, q : led = WithoutOcoKey /\ q = Unprotected(pos)
  OBVIOUS
<1>2. pc = "oco" /\ UNCHANGED <<exchange, cycle, rest>> /\ op \notin {"rebuild", "untracked"}
  BY DEF OcoFailed, Answered
<1>3. /\ ExchangeOK /\ Good(pos) /\ (pos = NoPos <=> op = "entry")
      /\ led \in LedgerRecord
      /\ \A k \in Settling : led[k] = "open" => k = "entry" /\ op = "entry"
      /\ op \in {"entry", "after_exit", "after_scale", "refresh", "recover_exit", "recover_scale"}
      /\ op # "entry" => Quiet(led)
  BY <1>1, <1>2, AtOco
<1>4. CASE op = "entry"
  <2>1. Send("sell", "flatten", pos, led) /\ UNCHANGED <<base, lists, recover, boot, conflict>>
    BY <1>1, <1>2, <1>4 DEF OcoFailed, exchange, cycle, rest
  <2>2. Sends("sell", "flatten", pos) /\ "sell" \in Requests
    BY <1>3, <1>4 DEF Sends, Requests
  <2>3. \A k \in Settling : led[k] = "open" => Pending(k, "sell", "flatten")
    BY <1>3 DEF Pending
  <2> QED
    BY <1>3, <2>1, <2>2, <2>3, SendStep
<1>5. CASE op # "entry"
  <2>1. Good(q) /\ q # NoPos /\ q.link = NoList /\ Attended(q)
    BY <1>1, <1>3, <1>5, UnprotectedGood DEF Attended
  <2>2. CASE op = "after_exit"
    <3>1. PICK done : done = With(led, "exit", "none")
      OBVIOUS
    <3>2. Quiet(done)
      BY <1>3, <1>5, <3>1, QuietWith
    <3>3. recoverPositionProtection("recover_exit", q, done)
      BY <1>1, <2>2, <3>1 DEF OcoFailed
    <3> QED
      BY <1>2, <2>1, <3>2, <3>3, RecoverStep
  <2>3. CASE op # "after_exit"
    <3>1. PICK done : done = IF op = "after_scale" THEN With(led, "scale_out", "none") ELSE led
      OBVIOUS
    <3>2. Quiet(done)
      BY <1>3, <1>5, <3>1, QuietWith
    <3>3. Settle(q, done, "scan")
      <4>1. CASE op = "after_scale"
        BY <1>1, <3>1, <4>1 DEF OcoFailed
      <4>2. CASE op \in {"refresh", "recover_exit", "recover_scale"}
        BY <1>1, <3>1, <4>2 DEF OcoFailed
      <4> QED
        BY <1>3, <1>5, <2>3, <4>1, <4>2
    <3> QED
      BY <1>2, <2>1, <3>2, <3>3, HandledStep
  <2> QED
    BY <2>2, <2>3
<1> QED
  BY <1>4, <1>5

-----------------------------------------------------------------------------
(* Entry.  It begins with an empty account, as a scan without a position   *)
(* and without a conflict has nothing beside it.                           *)
LEMMA enterPositionStep == ASSUME IInv, enterPosition PROVE IInv'
<1>1. PICK led : led = With(ledger, "entry", "open")
  OBVIOUS
<1>2. /\ pc = "scan" /\ pos = NoPos /\ ~conflict /\ Send("buy", "entry", NoPos, led)
      /\ UNCHANGED <<base, lists, recover, boot, conflict>>
  BY <1>1 DEF enterPosition, EntryBlocked, exchange, cycle, rest
<1>3. base = 0
  BY <1>2, Amounts DEF IInv, CycleOK, Vacant
<1>4. Quiet(ledger)
  BY <1>2, NothingPending
<1>5. /\ led \in LedgerRecord
      /\ \A k \in Settling : led[k] = "open" => Pending(k, "buy", "entry")
  BY <1>1, <1>4 DEF Quiet, With, LedgerRecord, Settling, Pending
<1>6. Sends("buy", "entry", NoPos) /\ "buy" \in Requests
  BY DEF Sends, Requests
<1> QED
  BY <1>2, <1>3, <1>5, <1>6, NoPosGood, SendStep

LEMMA AtBuy ==
    ASSUME IInv, pc = "buy"
    PROVE  /\ ledger \in LedgerRecord
           /\ \A k \in Settling : ledger[k] = "open" => k = "entry"
BY DEF IInv, IntentsOK, Pending

LEMMA BoughtStep == ASSUME IInv, Bought PROVE IInv'
<1>1. /\ pc = "buy" /\ UNCHANGED <<base, lists, recover, boot, conflict>>
      /\ \/ Send("oco", "entry", NoPos, With(ledger, OcoKey("entry"), "open"))
         \/ Send("sell", "flatten", NoPos, ledger)
  BY DEF Bought, Answered, ensureProtectiveOrder, exchange, cycle, rest
<1>2. CASE Send("oco", "entry", NoPos, With(ledger, OcoKey("entry"), "open"))
  BY <1>1, <1>2, AtBuy, NoPosGood, SendOcoStep
<1>3. CASE Send("sell", "flatten", NoPos, ledger)
  <2>1. Sends("sell", "flatten", NoPos) /\ "sell" \in Requests
    BY DEF Sends, Requests
  <2>2. \A k \in Settling : ledger[k] = "open" => Pending(k, "sell", "flatten")
    BY <1>1, AtBuy DEF Pending
  <2> QED
    BY <1>1, <1>3, <2>1, <2>2, AtBuy, NoPosGood, SendStep
<1> QED
  BY <1>1, <1>2, <1>3

LEMMA NotBoughtStep == ASSUME IInv, NotBought PROVE IInv'
<1>1. PICK led : led = With(ledger, "entry", "none")
  OBVIOUS
<1>2. pc = "buy" /\ Settle(NoPos, led, "idle") /\ UNCHANGED <<exchange, cycle, rest>>
  BY <1>1 DEF NotBought, Answered
<1>3. Quiet(led)
  BY <1>1, <1>2, AtBuy DEF Quiet, With, LedgerRecord, Settling
<1> QED
  BY <1>2, <1>3, NoPosGood, HandledStep

LEMMA FlattenedStep == ASSUME IInv, Flattened PROVE IInv'
<1>1. PICK led, h : led = With(ledger, "entry", "ambiguous") /\ h = Held(Lot, NoList)
  OBVIOUS
<1>2. PICK q : q = Unprotected(h)
  OBVIOUS
<1>3. /\ pc = "sell" /\ op = "flatten" /\ UNCHANGED <<exchange, cycle, rest>>
      /\ Settle(NoPos, led, "idle") \/ Settle(q, led, "idle")
  BY <1>1, <1>2 DEF Flattened, Answered
<1>4. Quiet(led)
  <2>1. /\ ledger \in LedgerRecord
        /\ \A k \in Settling : ledger[k] = "open" => k = "entry"
    BY <1>3 DEF IInv, IntentsOK, Pending
  <2> QED
    BY <1>1, <2>1 DEF Quiet, With, LedgerRecord, Settling
<1>5. ExchangeOK /\ base <= Lot /\ Lot \in 1..Lot
  BY Amounts, BrokerAssumption DEF IInv
<1>6. Good(h) /\ h # NoPos
  BY <1>1, <1>5, HeldGood
<1>7. Good(q)
  BY <1>2, <1>5, <1>6, UnprotectedGood
<1> QED
  BY <1>3, <1>4, <1>7, NoPosGood, HandledStep

LEMMA EndCycleStep == ASSUME IInv, EndCycle PROVE IInv'
BY NothingPending, HandledStep DEF EndCycle, IInv, MemoryOK

-----------------------------------------------------------------------------
(* A crash goes back to what was saved; a restart makes what is open       *)
(* ambiguous.                                                              *)
LEMMA CrashStep == ASSUME IInv, Crash PROVE IInv'
<1>1. /\ pos' = disk.pos /\ ledger' = disk.ledger /\ pc' = "down" /\ op' = "none"
      /\ reply' = NoReply /\ boot' = FALSE /\ conflict' = FALSE
      /\ UNCHANGED <<base, lists, disk, recover>>
  BY DEF Crash, exchange
<1>2. Good(disk.pos) /\ disk \in [pos : Position, ledger : LedgerRecord]
  BY DEF IInv, MemoryOK
<1>3. Types' /\ ExchangeOK'
  BY <1>1, ExchangeKept DEF IInv, Types, NoReply
<1>4. MemoryOK'
  BY <1>1, <1>2, GoodKept DEF MemoryOK
<1>5. PlacesOK' /\ RepliesOK' /\ SnapOK' /\ CycleOK'
  BY <1>1 DEF PlacesOK, Sends, Requests, RepliesOK, SnapOK, CycleOK
<1>6. IntentsOK'
  BY <1>1, <1>2 DEF IntentsOK, Pending
<1> QED
  BY <1>3, <1>4, <1>5, <1>6 DEF IInv

LEMMA RestartStep == ASSUME IInv, Restart PROVE IInv'
<1>1. /\ pc = "down" /\ pc' = "boot"
      /\ ledger' = [k \in Key |-> IF ledger[k] = "none" THEN "none" ELSE "ambiguous"]
      /\ UNCHANGED <<base, lists, pos, disk, op, reply, snap, boot, conflict, recover>>
  BY DEF Restart, exchange, cycle, rest
<1>2. Types' /\ ExchangeOK'
  BY <1>1, ExchangeKept DEF IInv, Types
<1>3. MemoryOK'
  BY <1>1, GoodKept DEF IInv, MemoryOK
<1>4. PlacesOK' /\ RepliesOK' /\ SnapOK' /\ CycleOK'
  BY <1>1 DEF IInv, PlacesOK, Sends, Requests, RepliesOK, SnapOK, CycleOK
<1>5. IntentsOK'
  BY <1>1 DEF IntentsOK, LedgerRecord, Settling
<1> QED
  BY <1>2, <1>3, <1>4, <1>5 DEF IInv

LEMMA StutterStep == ASSUME IInv, UNCHANGED vars PROVE IInv'
<1>1. UNCHANGED <<recover, base, lists, pos, ledger, disk, pc, op, reply, snap, boot, conflict>>
  BY DEF vars
<1>2. Types' /\ ExchangeOK'
  BY <1>1, ExchangeKept DEF IInv, Types
<1>3. MemoryOK'
  BY <1>1, GoodKept DEF IInv, MemoryOK
<1>4. RepliesOK'
  BY <1>1 DEF IInv, RepliesOK, SellQty, OcoQty, Backed, Open
<1>5. PlacesOK' /\ SnapOK' /\ CycleOK' /\ IntentsOK'
  BY <1>1 DEF IInv, PlacesOK, SnapOK, CycleOK, Attended, Vacant, IntentsOK
<1> QED
  BY <1>2, <1>3, <1>4, <1>5 DEF IInv

LEMMA NextIInv == IInv /\ [Next]_vars => IInv'
<1> SUFFICES ASSUME IInv, [Next]_vars PROVE IInv'
  OBVIOUS
<1>1. CASE Exchange
  BY <1>1, BuyExecutesStep, SellExecutesStep, OcoExecutesStep, CancelExecutesStep,
     RefusesStep, NeverArrivesStep, ListFillsStep DEF Exchange
<1>2. CASE Reconcile
  BY <1>2, ReadAccountStep, ReadListsStep, ReadFailsStep, CooldownWaitStep, SyncQuietStep,
     SyncStreamFillStep, SyncFilledStep, SyncCanceledStep, SyncFailsStep, RetrySnapshotStep,
     RetriesExhaustedStep, ManualReviewStep, FlatCloseStep, VerifyOnlyStep,
     RebuildNothingStep, RebuildStep, RebuildFailedStep, NothingUntrackedStep,
     UntrackedBalanceStep, RecoverBalanceStep, RecoveredUnprotectedStep DEF Reconcile
<1>3. CASE Trade
  BY <1>3, HoldStep, exitPositionStep, scaleOutPositionStep, refreshProtectiveOrderStep,
     CancelDoneStep, CancelFoundFillStep, CancelFailedStep, ExitSoldStep, ScaledOutStep,
     SellFailedStep, OcoPlacedStep, OcoFailedStep, enterPositionStep, BoughtStep,
     NotBoughtStep, FlattenedStep, EndCycleStep DEF Trade
<1>4. CASE Crash \/ Restart
  BY <1>4, CrashStep, RestartStep
<1>5. CASE UNCHANGED vars
  BY <1>5, StutterStep
<1> QED
  BY <1>1, <1>2, <1>3, <1>4, <1>5 DEF Next

LEMMA Invariant == Spec => []IInv
<1> QED
  BY InitIInv, NextIInv, PTL DEF Spec

-----------------------------------------------------------------------------
(* The types: in particular no list sells more than it was placed for and  *)
(* no position is larger than what could have been bought.                 *)
THEOREM TypeCorrect == Spec => []TypeOK
<1>1. IInv => TypeOK
  <2> SUFFICES ASSUME IInv PROVE TypeOK
    OBVIOUS
  <2>1. base \in Quantity
    BY BrokerAssumption DEF IInv, ExchangeOK, Quantity
  <2> QED
    BY <2>1 DEF IInv, Types, ExchangeOK, MemoryOK, Good, Position, IntentsOK, TypeOK
<1> QED
  BY <1>1, Invariant, PTL

(* The bot never holds two entries of the symbol: enterPosition buys only  *)
(* where the reconcile before it left an empty account.                    *)
THEOREM OneEntry == Spec => []NoDoubleEntry
<1>1. IInv => NoDoubleEntry
  BY Amounts DEF IInv, NoDoubleEntry
<1> QED
  BY <1>1, Invariant, PTL

(* An unflagged position that is managed accounts exactly for what the     *)
(* account holds and its list has sold, through fills, exits, scale-outs,  *)
(* reconciles, lost answers and crashes.                                   *)
THEOREM QuantitiesAgree == Spec => []QuantityAgrees
<1>1. IInv => QuantityAgrees
  <2> SUFFICES ASSUME IInv, pc \in {"manage", "scan"}, pos # NoPos, ~pos.rec
               PROVE  pos.link # NoList /\ pos.qty = base + lists[pos.link].done
    BY DEF QuantityAgrees
  <2>1. pos.link # NoList
    BY DEF IInv, CycleOK, Attended
  <2> QED
    BY <2>1 DEF IInv, MemoryOK, Good, Covered, Backed
<1> QED
  BY <1>1, Invariant, PTL

(* Past reconcile every position has a list or a flag, whatever failed     *)
(* while it was managed.                                                   *)
THEOREM ManagedIsProtected == Spec => []ManagedIsLinked
<1>1. IInv => ManagedIsLinked
  BY DEF IInv, CycleOK, Attended, ManagedIsLinked
<1> QED
  BY <1>1, Invariant, PTL

(* No scan stands beside a balance it does not know of.                    *)
THEOREM ExposureIsBlocked == Spec => []NoSilentExposure
<1>1. IInv => NoSilentExposure
  BY DEF IInv, CycleOK, Vacant, NoSilentExposure
<1> QED
  BY <1>1, Invariant, PTL

(* Between cycles no entry or protection intent is open, whichever of its  *)
(* steps failed (executionIntentLedger, and its callers' error paths).     *)
THEOREM IntentsAreSettled == Spec => []IntentsSettle
<1>1. IInv => IntentsSettle
  BY NothingPending DEF Quiet, Settling, IntentsSettle
<1> QED
  BY <1>1, Invariant, PTL

-----------------------------------------------------------------------------
(* Steps that keep a position, or drop it over an empty account.           *)
LEMMA ReconcileKeeps ==
    ASSUME IInv, Reconcile, pos # NoPos, pos' = NoPos, pc' # "down"
    PROVE  base = 0
<1>1. CASE ReadAccount \/ ReadLists \/ RetrySnapshot
  BY <1>1 DEF ReadAccount, ReadLists, RetrySnapshot, memory
<1>2. ASSUME NEW led, Abort(led) PROVE FALSE
  BY <1>2 DEF Abort
<1>3. CASE ReadFails
  BY <1>2, <1>3 DEF ReadFails
<1>4. CASE CooldownWait
  BY <1>4, AtSync, Marked DEF CooldownWait, Judged
<1>5. CASE RetriesExhausted
  BY <1>5, AtSync, Marked DEF RetriesExhausted, Judged
<1>6. CASE ManualReview
  BY <1>6, AtSync, Marked DEF ManualReview, Judged
<1>7. CASE VerifyOnly
  BY <1>7, AtSync, Marked DEF VerifyOnly, Judged
<1>8. CASE RebuildNothing
  BY <1>8, AtSync, Marked DEF RebuildNothing, Judged
<1>9. CASE SyncQuiet
  BY <1>9 DEF SyncQuiet, ToDecide
<1>10. CASE SyncStreamFill
  BY <1>10, SettledAtSync DEF SyncStreamFill, ToDecide, Judged
<1>11. CASE SyncFilled
  <2>1. Backed(pos.qty, pos.link) /\ lists[pos.link].done = lists[pos.link].qty
    BY <1>11, AtSync DEF SyncFilled, Good, Covered
  <2>2. base + lists[pos.link].done = lists[pos.link].done /\ pos.link \in ListId
    BY <2>1 DEF Backed
  <2> QED
    BY <2>2, Amounts DEF IInv
<1>12. CASE SyncCanceled
  <2>1. PICK p : p = [pos EXCEPT !.link = NoList]
    OBVIOUS
  <2>2. pos' = p /\ p # NoPos
    BY <1>12, <2>1, AtSync, WithoutLinkGood DEF SyncCanceled, ToDecide
  <2> QED
    BY <2>2
<1>13. CASE SyncFails
  <2>1. PICK p : p = settleProtectiveOrderFill(pos)
    OBVIOUS
  <2>2. pos' = pos \/ pos' = p
    BY <1>13, <2>1 DEF SyncFails, ToDecide, Judged
  <2>3. p = NoPos => base = 0
    BY <1>13, <2>1, SettledAtSync DEF SyncFails
  <2> QED
    BY <2>2, <2>3
<1>14. CASE FlatClose
  <2>1. VenueQty = 0 /\ pos.qty # 0
    BY <1>14, AtSync, PositionFields, BrokerAssumption DEF FlatClose, ConfirmedFlat, Good
  <2>2. snap.base = 0
    BY <2>1 DEF VenueQty
  <2>3. base <= snap.base /\ base \in Nat
    BY <1>14, Amounts DEF FlatClose, IInv, SnapOK
  <2> QED
    BY <2>2, <2>3
<1>15. CASE Rebuild
  BY <1>2, <1>15 DEF Rebuild, Send
<1>16. CASE NothingUntracked \/ UntrackedBalance \/ RecoverBalance
  BY <1>16 DEF NothingUntracked, UntrackedBalance, RecoverBalance, Reconciled, Settle
<1>17. CASE RebuildFailed \/ RecoveredUnprotected
  <2>1. PICK p : p = [Unprotected(pos) EXCEPT !.mode = "protect_only"]
    OBVIOUS
  <2>2. p # NoPos
    BY <1>17, <2>1, AtOco, ProtectOnlyGood DEF RebuildFailed, RecoveredUnprotected, Answered
  <2>3. pos' = p
    BY <1>2, <1>17, <2>1 DEF RebuildFailed, RecoveredUnprotected, Reconciled, Settle
  <2> QED
    BY <2>2, <2>3
<1> QED
  BY <1>1, <1>3, <1>4, <1>5, <1>6, <1>7, <1>8, <1>9, <1>10, <1>11, <1>12, <1>13, <1>14,
     <1>15, <1>16, <1>17 DEF Reconcile

LEMMA TradeKeeps ==
    ASSUME IInv, Trade, pos # NoPos, pos' = NoPos, pc' # "down"
    PROVE  base = 0
<1> USE DEF Send, Settle
<1>0. ExchangeOK /\ Good(pos)
  BY DEF IInv, MemoryOK
<1>1. \A q \in Escalated(pos) : q # NoPos
  BY <1>0, EscalatedGood
<1>2. Unprotected(pos) # NoPos
  <2>1. PICK q : q = Unprotected(pos)
    OBVIOUS
  <2> QED
    BY <1>0, <2>1, UnprotectedGood
<1>3. CASE Hold
  BY <1>1, <1>3 DEF Hold
<1>4. CASE exitPosition \/ scaleOutPosition
  BY <1>1, <1>4 DEF exitPosition, scaleOutPosition, Manage
<1>5. CASE refreshProtectiveOrder
  BY <1>2, <1>5 DEF refreshProtectiveOrder, ensureProtectiveOrder
<1>6. CASE CancelDone
  <2>1. PICK p : p = [pos EXCEPT !.link = NoList]
    OBVIOUS
  <2>2. PICK q : q = Unprotected(p)
    OBVIOUS
  <2>3. p # NoPos /\ q # NoPos
    BY <1>0, <2>1, <2>2, WithoutLinkGood, UnprotectedGood
  <2>4. pos' = p \/ pos' = q
    BY <1>6, <2>1, <2>2 DEF CancelDone, ensureProtectiveOrder
  <2> QED
    BY <2>3, <2>4
<1>7. CASE CancelFoundFill
  <2>1. PICK p : p = settleProtectiveOrderFill(pos)
    OBVIOUS
  <2>2. PICK q : q = Unprotected(p)
    OBVIOUS
  <2>3. Good(p) /\ (p = NoPos => base = 0)
    BY <1>0, <1>7, <2>1, AtCancel, SettledFill DEF CancelFoundFill, Answered
  <2>4. p # NoPos => q # NoPos
    BY <1>0, <2>2, <2>3, UnprotectedGood
  <2>5. pos' = p \/ pos' = q
    BY <1>7, <2>1, <2>2
       DEF CancelFoundFill, recoverPositionProtection, ensureProtectiveOrder
  <2> QED
    BY <2>3, <2>4, <2>5
<1>8. CASE CancelFailed
  BY <1>1, <1>8 DEF CancelFailed
<1>9. CASE ExitSold
  <2>1. PICK p : p = [pos EXCEPT !.qty = @ - reply.n]
    OBVIOUS
  <2>2. PICK q : q = Unprotected(p)
    OBVIOUS
  <2>3. PICK r : r = Unprotected(q)
    OBVIOUS
  <2>4. p.qty # 0 => Good(p) /\ p # NoPos
    BY <1>9, <2>1, SoldShape, LeftOver DEF ExitSold, Answered, Sold
  <2>5. p.qty = 0 => base = 0
    BY <1>9, <2>1, SoldShape, LeftOver DEF ExitSold, Answered, Sold
  <2>6. p.qty # 0 => q # NoPos /\ r # NoPos
    BY <1>0, <2>2, <2>3, <2>4, UnprotectedGood
  <2>7. p.qty = 0 \/ pos' = p \/ pos' = q \/ pos' = r
    BY <1>9, <2>1, <2>2, <2>3
       DEF ExitSold, recoverPositionProtection, ensureProtectiveOrder
  <2> QED
    BY <2>4, <2>5, <2>6, <2>7
<1>10. CASE ScaledOut
  <2>1. PICK p : p = [pos EXCEPT !.qty = @ - reply.n, !.link = NoList]
    OBVIOUS
  <2>2. PICK q : q = Unprotected(p)
    OBVIOUS
  <2>3. Good(p) /\ p # NoPos
    BY <1>10, <2>1, SoldShape, LeftOver DEF ScaledOut, Answered, Sold
  <2>4. q # NoPos
    BY <1>0, <2>2, <2>3, UnprotectedGood
  <2>5. pos' = p \/ pos' = q
    BY <1>10, <2>1, <2>2 DEF ScaledOut, ensureProtectiveOrder
  <2> QED
    BY <2>3, <2>4, <2>5
<1>11. CASE SellFailed
  BY <1>2, <1>11 DEF SellFailed, recoverPositionProtection, ensureProtectiveOrder
<1>12. CASE OcoPlaced
  <2>1. PICK p : p = Placed(pos)
    OBVIOUS
  <2>2. PICK q : q = clearPositionReconcileFlags(p)
    OBVIOUS
  <2>3. op # "entry" /\ Good(p) /\ p # NoPos
    BY <1>12, <2>1, AtOco, PlacedGood DEF OcoPlaced, Answered
  <2>4. q # NoPos
    BY <2>2, <2>3, Marked
  <2>5. op \in {"rebuild", "untracked", "after_exit", "after_scale",
                "refresh", "recover_exit", "recover_scale"}
    BY <1>12, <2>3, AtOco DEF OcoPlaced, Answered
  <2>6. CASE op = "rebuild"
    BY <1>12, <2>1, <2>2, <2>4, <2>6 DEF OcoPlaced, Reconciled
  <2>7. CASE op = "untracked"
    BY <1>12, <2>1, <2>3, <2>7 DEF OcoPlaced, Reconciled
  <2>8. CASE op = "after_exit"
    BY <1>12, <2>1, <2>3, <2>8 DEF OcoPlaced
  <2>9. CASE op = "after_scale"
    BY <1>12, <2>1, <2>3, <2>9 DEF OcoPlaced
  <2>10. CASE op \in {"refresh", "recover_exit", "recover_scale"}
    BY <1>12, <2>1, <2>3, <2>10 DEF OcoPlaced
  <2> QED
    BY <2>5, <2>6, <2>7, <2>8, <2>9, <2>10
<1>13. CASE OcoFailed
  <2>1. PICK q : q = Unprotected(pos)
    OBVIOUS
  <2>2. PICK r : r = Unprotected(q)
    OBVIOUS
  <2>3. q # NoPos /\ r # NoPos
    BY <1>0, <2>1, <2>2, UnprotectedGood
  <2>4. op \in {"after_exit", "after_scale", "refresh", "recover_exit", "recover_scale"}
    BY <1>13, AtOco DEF OcoFailed, Answered
  <2>5. CASE op = "after_exit"
    BY <1>13, <2>1, <2>2, <2>3, <2>5
       DEF OcoFailed, recoverPositionProtection, ensureProtectiveOrder
  <2>6. CASE op = "after_scale"
    BY <1>13, <2>1, <2>3, <2>6 DEF OcoFailed
  <2>7. CASE op \in {"refresh", "recover_exit", "recover_scale"}
    BY <1>13, <2>1, <2>3, <2>7 DEF OcoFailed
  <2> QED
    BY <2>4, <2>5, <2>6, <2>7
<1>14. CASE enterPosition
  BY <1>14 DEF enterPosition
<1>15. CASE Bought \/ NotBought
  BY <1>15 DEF Bought, NotBought, Answered, IInv, PlacesOK, Sends
<1>16. CASE Flattened
  BY <1>16 DEF Flattened, Answered, IInv, PlacesOK, Sends
<1>17. CASE EndCycle
  BY <1>17 DEF EndCycle
<1> QED
  BY <1>3, <1>4, <1>5, <1>6, <1>7, <1>8, <1>9, <1>10, <1>11, <1>12, <1>13, <1>14, <1>15,
     <1>16, <1>17 DEF Trade

(* A position leaves the runtime only when the exchange holds nothing of   *)
(* it: after an exit, a fill found by a cancel or a stream, or a reconcile *)
(* whose account, read before the lists, was flat.                         *)
THEOREM ClosesWhenFlat == Spec => ClosedOnlyWhenFlat
<1>1. IInv /\ [Next]_vars => (pos # NoPos /\ pos' = NoPos /\ pc' # "down" => base = 0)
  <2> SUFFICES ASSUME IInv, [Next]_vars, pos # NoPos, pos' = NoPos, pc' # "down"
               PROVE  base = 0
    OBVIOUS
  <2>1. CASE Exchange
    BY <2>1 DEF Exchange, BuyExecutes, SellExecutes, OcoExecutes, CancelExecutes, Refuses,
                NeverArrives, ListFills, bot
  <2>2. CASE Reconcile
    BY <2>2, ReconcileKeeps
  <2>3. CASE Trade
    BY <2>3, TradeKeeps
  <2>4. CASE Crash
    BY <2>4 DEF Crash
  <2>5. CASE Restart
    BY <2>5 DEF Restart
  <2>6. CASE UNCHANGED vars
    BY <2>6 DEF vars
  <2> QED
    BY <2>1, <2>2, <2>3, <2>4, <2>5, <2>6 DEF Next
<1> QED
  BY <1>1, Invariant, PTL DEF Spec, ClosedOnlyWhenFlat
=============================================================================
