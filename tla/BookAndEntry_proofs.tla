------------------------ MODULE BookAndEntry_proofs ------------------------
(***************************************************************************)
(* Proofs about two components that meet at the exchange, each about its   *)
(* own specification.                                                      *)
(*                                                                         *)
(* The local order book is well typed and, whatever the stream does,       *)
(* faithful to the exchange whenever it says it is synced, for every set   *)
(* of levels, every history of the exchange and every buffer size: it      *)
(* implements BookView.                                                    *)
(*                                                                         *)
(* The entry with a resting order never counts more than the account has,  *)
(* and knows which of its orders may still be live, for every size of the  *)
(* entry, every number of orders, failures and deaths of the process.      *)
(***************************************************************************)
EXTENDS LocalOrderBook, MakerEntry, FiniteSetTheorems, WellFoundedInduction, TLAPS

USE DEF Ids

LEMMA CutType ==
    ASSUME NEW n \in Ids, NEW S
    PROVE  CutTo(n, S) \in [Level -> Quantity]
BY BookAssumption DEF CutTo

(* What a diff event does to a book (applySide): if the book is the         *)
(* exchange's on some levels, at any update from just before the event's    *)
(* range to its end, the result is the exchange's book at the end of the    *)
(* range, on those levels and on the ones the event carries.                *)
LEMMA PatchFaithful ==
    ASSUME NEW n \in Ids, NEW S \in SUBSET Level,
           NEW e \in Event, e.U <= n + 1, n <= e.u
    PROVE  applySide(CutTo(n, S), e) = CutTo(e.u, S \cup Carried(e))
<1>1. n \in (e.U - 1)..e.u /\ e.u \in Ids
  BY BookAssumption DEF Event
<1>2. ASSUME NEW l \in Level, l \in Carried(e)
      PROVE  applySide(CutTo(n, S), e)[l] = CutTo(e.u, S \cup Carried(e))[l]
  BY <1>2 DEF applySide, CutTo
<1>3. ASSUME NEW l \in Level, l \notin Carried(e)
      PROVE  applySide(CutTo(n, S), e)[l] = CutTo(e.u, S \cup Carried(e))[l]
  <2>1. Depth[n][l] = Depth[e.u][l]
    BY <1>1, <1>3 DEF Carried
  <2>2. applySide(CutTo(n, S), e)[l] = CutTo(n, S)[l]
    BY <1>3 DEF applySide
  <2> QED
    BY <1>3, <2>1, <2>2 DEF CutTo
<1> QED
  BY <1>2, <1>3 DEF applySide, CutTo

-----------------------------------------------------------------------------
(* The inductive invariant: the two safety invariants, and that the replay  *)
(* runs only on a synced bucket.                                            *)
IInv ==
    /\ TypeOK
    /\ BookFaithful
    /\ PrimingUnsynced
    /\ prime = "draining" => synced
    /\ prime \in {"snapshot", "draining"} => attempt < MaxAttempts

LEMMA InitIInv == Init => IInv
<1> SUFFICES ASSUME Init PROVE IInv
  OBVIOUS
<1>1. TypeOK
  <2>1. book \in [Level -> Quantity]
    BY BookAssumption DEF Init, Empty
  <2>2. buffer \in Seq(Event) /\ Len(buffer) <= MaxBuffer
    BY BookAssumption DEF Init
  <2>3. lastUpdateId \in Ids /\ attempt \in 0..MaxAttempts
    BY BookAssumption DEF Init
  <2> QED
    BY <2>1, <2>2, <2>3 DEF Init, TypeOK
<1> QED
  BY <1>1 DEF Init, IInv, BookFaithful, PrimingUnsynced

(* The pieces of a step that several actions share.                         *)
LEMMA PushType ==
    ASSUME TypeOK, NEW e \in Event
    PROVE  Push(e) \in Seq(Event) /\ Len(Push(e)) <= MaxBuffer
<1>1. buffer \in Seq(Event) /\ Len(buffer) <= MaxBuffer /\ MaxBuffer \in Nat \ {0}
  BY BookAssumption DEF TypeOK
<1>2. CASE Len(buffer) = MaxBuffer
  <2>1. buffer # <<>>
    BY <1>1, <1>2
  <2>2. Tail(buffer) \in Seq(Event) /\ Len(Tail(buffer)) = Len(buffer) - 1
    BY <1>1, <2>1
  <2> QED
    BY <1>1, <1>2, <2>2 DEF Push
<1>3. CASE Len(buffer) # MaxBuffer
  BY <1>1, <1>3 DEF Push
<1> QED
  BY <1>2, <1>3

LEMMA SummaryType ==
    ASSUME NEW isSynced \in BOOLEAN, NEW id \in Ids,
           NEW a \in {"never", "fresh", "old"}
    PROVE  computeDepthSummary(isSynced, id, a) \in Summary
BY DEF computeDepthSummary, Summary

LEMMA ApplyType ==
    ASSUME TypeOK, NEW e \in Event, Apply(e)
    PROVE  /\ book' \in [Level -> Quantity]
           /\ lastUpdateId' \in Ids
           /\ age' \in {"never", "fresh", "old"}
           /\ summary' \in Summary
           /\ reach' \in SUBSET Level
<1>1. e.u \in Ids
  BY BookAssumption DEF Event
<1>2. book' \in [Level -> Quantity]
  <2>1. book \in [Level -> Quantity] /\ Depth[e.u] \in [Level -> Quantity]
    BY <1>1, BookAssumption DEF TypeOK
  <2>2. \A l \in Level : book[l] \in Quantity /\ Depth[e.u][l] \in Quantity
    BY <2>1
  <2> QED
    BY <2>2 DEF Apply, applySide
<1>3. summary' \in Summary
  BY <1>1, SummaryType DEF Apply
<1>4. reach' \in SUBSET Level
  BY DEF TypeOK, Apply, Carried
<1> QED
  BY <1>1, <1>2, <1>3, <1>4 DEF Apply

(* An event that is neither stale nor after a gap keeps a faithful book     *)
(* faithful.                                                                *)
LEMMA ApplyFaithful ==
    ASSUME TypeOK, BookFaithful, synced,
           NEW e \in Event, Apply(e), ~Stale(e), ~Gap(e)
    PROVE  book' = CutTo(lastUpdateId', reach')
<1>1. lastUpdateId \in Ids /\ lastUpdateId \in Nat /\ e.u \in Nat /\ e.U \in Nat
  BY BookAssumption DEF TypeOK, Event
<1>2. e.U <= lastUpdateId + 1 /\ lastUpdateId <= e.u
  BY <1>1 DEF Stale, Gap
<1>3. book = CutTo(lastUpdateId, reach) /\ reach \in SUBSET Level
  BY DEF BookFaithful, TypeOK
<1> QED
  BY <1>1, <1>2, <1>3, PatchFaithful DEF Apply

LEMMA ResetType ==
    ASSUME resetBucket
    PROVE  /\ synced' = FALSE
           /\ lastUpdateId' \in Ids
           /\ book' \in [Level -> Quantity]
           /\ buffer' \in Seq(Event) /\ Len(buffer') <= MaxBuffer
           /\ summary' \in Summary \cup {NoSummary}
           /\ reach' \in SUBSET Level
<1>1. book' \in [Level -> Quantity]
  BY BookAssumption DEF resetBucket, Empty
<1>2. buffer' \in Seq(Event) /\ Len(buffer') <= MaxBuffer
  BY BookAssumption DEF resetBucket
<1> QED
  BY <1>1, <1>2, BookAssumption DEF resetBucket

-----------------------------------------------------------------------------
LEMMA StepIInv == IInv /\ [Next]_vars => IInv'
<1> SUFFICES ASSUME IInv, [Next]_vars PROVE IInv'
  OBVIOUS
<1> USE DEF IInv
<1>1. ASSUME NEW e \in Event, EventWhileInactive(e) PROVE IInv'
  <2>1. buffer' \in Seq(Event) /\ Len(buffer') <= MaxBuffer
    BY <1>1, BookAssumption DEF EventWhileInactive
  <2> QED
    BY <1>1, <2>1 DEF EventWhileInactive, TypeOK, BookFaithful, PrimingUnsynced
<1>2. ASSUME NEW e \in Event, EventWhileUnsynced(e) PROVE IInv'
  <2>1. buffer' \in Seq(Event) /\ Len(buffer') <= MaxBuffer
    BY <1>2, PushType DEF EventWhileUnsynced
  <2>2. /\ prime' \in {prime, "waiting"} /\ attempt' \in {attempt, 0}
        /\ prime' = prime => attempt' = attempt \/ prime' = "waiting"
    BY <1>2 DEF EventWhileUnsynced, StartPriming
  <2> QED
    BY <1>2, <2>1, <2>2, BookAssumption
    DEF EventWhileUnsynced, TypeOK, BookFaithful, PrimingUnsynced
<1>3. ASSUME NEW e \in Event, EventSkipped(e) PROVE IInv'
  <2>1. buffer' \in Seq(Event) /\ Len(buffer') <= MaxBuffer
    BY <1>3, PushType DEF EventSkipped
  <2> QED
    BY <1>3, <2>1 DEF EventSkipped, TypeOK, BookFaithful, PrimingUnsynced
<1>4. ASSUME NEW e \in Event, EventApplied(e) PROVE IInv'
  <2>1. buffer' \in Seq(Event) /\ Len(buffer') <= MaxBuffer
    BY <1>4, PushType DEF EventApplied
  <2>2. TypeOK'
    BY <1>4, <2>1, ApplyType DEF EventApplied, TypeOK
  <2>3. BookFaithful'
    BY <1>4, ApplyFaithful DEF EventApplied, BookFaithful
  <2> QED
    BY <1>4, <2>2, <2>3 DEF EventApplied, PrimingUnsynced
<1>5. ASSUME NEW e \in Event, EventAfterGap(e) PROVE IInv'
  <2>1. /\ prime' \in {prime, "waiting"} /\ attempt' \in {attempt, 0}
        /\ prime' = prime => attempt' = attempt \/ prime' = "waiting"
    BY <1>5 DEF EventAfterGap, StartPriming
  <2>2. TypeOK'
    BY <1>5, <2>1, ResetType, BookAssumption DEF EventAfterGap, TypeOK
  <2>3. prime # "draining"
    BY <1>5 DEF EventAfterGap, Free
  <2> QED
    BY <1>5, <2>1, <2>2, <2>3, ResetType
    DEF EventAfterGap, BookFaithful, PrimingUnsynced
<1>6. CASE Leave
  BY <1>6 DEF Leave, TypeOK, BookFaithful, PrimingUnsynced
<1>7. CASE Enter
  BY <1>7, BookAssumption
  DEF Enter, StartPriming, Deferred, TypeOK, BookFaithful, PrimingUnsynced
<1>8. CASE EventAges
  BY <1>8 DEF EventAges, TypeOK, BookFaithful, PrimingUnsynced
<1>9. CASE CooldownEnds
  BY <1>9 DEF CooldownEnds, TypeOK, BookFaithful, PrimingUnsynced
<1>10. CASE RequestSnapshot
  <2>1. attempt < MaxAttempts /\ prime' = "snapshot" /\ ~synced
    BY <1>10 DEF RequestSnapshot, AtLoopHead, PrimingUnsynced
  <2> QED
    BY <1>10, <2>1 DEF RequestSnapshot, TypeOK, BookFaithful, PrimingUnsynced
<1>11. CASE SnapshotSuppressed
  <2>1. summary' \in Summary
    BY <1>11, SummaryType DEF SnapshotSuppressed, TypeOK
  <2> QED
    BY <1>11, <2>1, BookAssumption
    DEF SnapshotSuppressed, TypeOK, BookFaithful, PrimingUnsynced
<1>12. CASE GiveUp
  <2>1. TypeOK'
    BY <1>12, ResetType, BookAssumption DEF GiveUp, TypeOK
  <2> QED
    BY <1>12, <2>1, ResetType DEF GiveUp, BookFaithful, PrimingUnsynced
<1>13. CASE SnapshotFails
  BY <1>13, BookAssumption DEF SnapshotFails, TypeOK, BookFaithful, PrimingUnsynced
<1>14. ASSUME NEW n \in Ids, SnapshotBehindBuffer(n) PROVE IInv'
  <2>1. /\ book' \in [Level -> Quantity] /\ reach' \in SUBSET Level
        /\ book' = CutTo(lastUpdateId', reach')
    BY <1>14, CutType, BookAssumption DEF SnapshotBehindBuffer, AdoptSnapshot
  <2>2. attempt + 1 \in 0..MaxAttempts
    BY <1>14, BookAssumption DEF SnapshotBehindBuffer, AdoptSnapshot, TypeOK
  <2>3. ~synced
    BY <1>14 DEF SnapshotBehindBuffer, AdoptSnapshot, PrimingUnsynced
  <2>4. TypeOK'
    BY <1>14, <2>1, <2>2 DEF SnapshotBehindBuffer, AdoptSnapshot, TypeOK
  <2> QED
    BY <1>14, <2>3, <2>4
    DEF SnapshotBehindBuffer, AdoptSnapshot, BookFaithful, PrimingUnsynced
<1>15. ASSUME NEW n \in Ids, SnapshotJoinsBuffer(n) PROVE IInv'
  <2>1. /\ book' \in [Level -> Quantity] /\ reach' \in SUBSET Level
        /\ book' = CutTo(lastUpdateId', reach')
    BY <1>15, CutType, BookAssumption DEF SnapshotJoinsBuffer, AdoptSnapshot
  <2>2. Buffered(n) \in SUBSET Event
    BY DEF Buffered
  <2>3. buffer' \in Seq(Event) /\ Len(buffer') <= MaxBuffer
    BY <1>15, BookAssumption DEF SnapshotJoinsBuffer
  <2>4. TypeOK'
    BY <1>15, <2>1, <2>2, <2>3 DEF SnapshotJoinsBuffer, AdoptSnapshot, TypeOK
  <2> QED
    BY <1>15, <2>1, <2>4
    DEF SnapshotJoinsBuffer, AdoptSnapshot, BookFaithful, PrimingUnsynced
<1>16. ASSUME NEW e \in Event, DrainSkip(e) PROVE IInv'
  BY <1>16 DEF DrainSkip, TypeOK, BookFaithful, PrimingUnsynced
<1>17. ASSUME NEW e \in Event, DrainApply(e) PROVE IInv'
  <2>1. TypeOK'
    BY <1>17, ApplyType DEF DrainApply, TypeOK
  <2>2. BookFaithful'
    BY <1>17, ApplyFaithful DEF DrainApply, BookFaithful
  <2> QED
    BY <1>17, <2>1, <2>2 DEF DrainApply, PrimingUnsynced
<1>18. ASSUME NEW e \in Event, DrainGap(e) PROVE IInv'
  <2>1. attempt + 1 \in 0..MaxAttempts
    BY <1>18, BookAssumption DEF DrainGap, TypeOK
  <2> QED
    BY <1>18, <2>1 DEF DrainGap, TypeOK, BookFaithful, PrimingUnsynced
<1>19. CASE Drained
  <2>1. summary' \in Summary
    BY <1>19, SummaryType DEF Drained, TypeOK
  <2>2. attempt' \in 0..MaxAttempts
    BY <1>19, BookAssumption DEF Drained
  <2>3. drain' = drain
    BY <1>19 DEF Drained
  <2>4. TypeOK'
    BY <1>19, <2>1, <2>2, <2>3 DEF Drained, TypeOK
  <2> QED
    BY <1>19, <2>4 DEF Drained, BookFaithful, PrimingUnsynced
<1>20. CASE UNCHANGED vars
  BY <1>20 DEF vars, TypeOK, BookFaithful, PrimingUnsynced
<1> QED
  BY <1>1, <1>2, <1>3, <1>4, <1>5, <1>6, <1>7, <1>8, <1>9, <1>10, <1>11, <1>12,
     <1>13, <1>14, <1>15, <1>16, <1>17, <1>18, <1>19, <1>20
  DEF Next, handleDepthEvent, PrimingStep

(* The bucket keeps its shape: in particular the buffer never outgrows its  *)
(* cap and no priming makes more than MaxAttempts attempts.                 *)
THEOREM TypeCorrect == Spec => []TypeOK
<1>1. IInv => TypeOK
  BY DEF IInv
<1> QED
  BY <1>1, InitIInv, StepIInv, PTL DEF Spec

(* A synced book is the exchange's book at the update it claims, on every   *)
(* level it has seen, whatever diff events were lost, repeated or reordered *)
(* and wherever the snapshot was cut.                                       *)
THEOREM SyncedBookFaithful == Spec => []BookFaithful
<1>1. IInv => BookFaithful
  BY DEF IInv
<1> QED
  BY <1>1, InitIInv, StepIInv, PTL DEF Spec

(* A priming that waits for a snapshot never runs beside a synced book.     *)
THEOREM PrimingRunsUnsynced == Spec => []PrimingUnsynced
<1>1. IInv => PrimingUnsynced
  BY DEF IInv
<1> QED
  BY <1>1, InitIInv, StepIInv, PTL DEF Spec

-----------------------------------------------------------------------------
(* A step that starts and ends synced never rewinds the book.               *)
LEMMA StepNeverRewinds ==
    ASSUME IInv, [Next]_vars
    PROVE  synced /\ synced' => lastUpdateId' >= lastUpdateId
<1> SUFFICES ASSUME synced, synced' PROVE lastUpdateId' >= lastUpdateId
  OBVIOUS
<1>1. lastUpdateId \in Nat
  BY BookAssumption DEF IInv, TypeOK
<1>2. lastUpdateId' = lastUpdateId => lastUpdateId' >= lastUpdateId
  BY <1>1
<1>3. ASSUME NEW e \in Event, Apply(e), ~Stale(e) PROVE lastUpdateId' >= lastUpdateId
  BY <1>1, <1>3 DEF Apply, Stale, Event
<1>4. prime # "snapshot"
  BY DEF IInv, PrimingUnsynced
<1>5. CASE Next
  BY <1>2, <1>3, <1>4, <1>5
  DEF Next, handleDepthEvent, EventWhileInactive, EventWhileUnsynced, EventSkipped,
      EventApplied, EventAfterGap, resetBucket, Leave, Enter, EventAges, CooldownEnds,
      PrimingStep, RequestSnapshot, SnapshotSuppressed, GiveUp, SnapshotFails,
      SnapshotBehindBuffer, SnapshotJoinsBuffer, AdoptSnapshot, DrainSkip, DrainApply,
      DrainGap, Drained
<1> QED
  BY <1>2, <1>5 DEF vars

(* While the book stays synced it never goes back to an older update.       *)
THEOREM SyncedNeverRewinds == Spec => NeverRewinds
<1>1. IInv /\ [Next]_vars
      => [synced /\ synced' => lastUpdateId' >= lastUpdateId]_vars
  BY StepNeverRewinds
<1> QED
  BY <1>1, InitIInv, StepIInv, PTL DEF Spec, NeverRewinds

(* While the book stays synced it forgets no level, and learns of one only *)
(* from an event that takes it to a later update.                          *)
LEMMA StepKeepsReach ==
    ASSUME IInv, [Next]_vars, synced, synced'
    PROVE  reach \subseteq reach' /\ (lastUpdateId' = lastUpdateId => reach' = reach)
<1> DEFINE Goal == reach \subseteq reach' /\ (lastUpdateId' = lastUpdateId => reach' = reach)
<1>1. ASSUME NEW e \in Event, Apply(e), ~Stale(e) PROVE Goal
  BY <1>1, BookAssumption DEF Apply, Stale, Event, IInv, TypeOK
<1>2. prime # "snapshot"
  BY DEF IInv, PrimingUnsynced
<1>3. CASE Next
  BY <1>1, <1>2, <1>3
  DEF Next, handleDepthEvent, EventWhileInactive, EventWhileUnsynced, EventSkipped,
      EventApplied, EventAfterGap, resetBucket, Leave, Enter, EventAges, CooldownEnds,
      PrimingStep, RequestSnapshot, SnapshotSuppressed, GiveUp, SnapshotFails,
      SnapshotBehindBuffer, SnapshotJoinsBuffer, AdoptSnapshot, DrainSkip, DrainApply,
      DrainGap, Drained
<1> QED
  BY <1>3 DEF vars

(* What each step does to what the bucket shows: it shows some levels of   *)
(* the book after one update, and if it did before, an update that is not  *)
(* older and no level fewer.                                               *)
LEMMA ShownStep ==
    IInv /\ IInv' /\ [Next]_vars => [View!Next]_Shown
<1> SUFFICES ASSUME IInv, IInv', [Next]_vars PROVE View!Next \/ Shown' = Shown
  OBVIOUS
<1>1. /\ synced \in BOOLEAN /\ synced' \in BOOLEAN
      /\ lastUpdateId \in Ids /\ lastUpdateId' \in Ids
      /\ lastUpdateId \in Nat /\ lastUpdateId' \in Nat
      /\ reach \in SUBSET Level /\ reach' \in SUBSET Level
  BY BookAssumption DEF IInv, TypeOK
<1>2. synced => Shown = View!BookAfter(lastUpdateId, reach)
  <2> SUFFICES ASSUME synced
               PROVE  [l \in reach |-> book[l]] = [l \in reach |-> Depth[lastUpdateId][l]]
    BY DEF Shown, View!BookAfter
  <2> QED
    BY <1>1 DEF IInv, BookFaithful, CutTo
<1>3. synced' => Shown' = View!BookAfter(lastUpdateId', reach')
  <2> SUFFICES ASSUME synced'
               PROVE  [l \in reach' |-> book'[l]]
                      = [l \in reach' |-> Depth[lastUpdateId'][l]]
    BY DEF Shown, View!BookAfter
  <2>1. book' = CutTo(lastUpdateId', reach')
    BY DEF IInv, BookFaithful
  <2> QED
    BY <1>1, <2>1 DEF CutTo
<1>4. CASE ~synced'
  BY <1>4 DEF Shown, View!Next, View!Close, View!Silent
<1>5. CASE ~synced /\ synced'
  BY <1>1, <1>3, <1>5 DEF Shown, View!Next, View!Open, View!Silent
<1>6. CASE synced /\ synced'
  <2>1. lastUpdateId <= lastUpdateId' /\ reach \subseteq reach'
    BY <1>1, <1>6, StepNeverRewinds, StepKeepsReach
  <2>2. CASE lastUpdateId < lastUpdateId'
    BY <1>1, <1>2, <1>3, <1>6, <2>1, <2>2 DEF View!Next, View!Advance
  <2>3. CASE lastUpdateId' = lastUpdateId
    BY <1>2, <1>3, <1>6, <2>3, StepKeepsReach
  <2> QED
    BY <1>1, <2>1, <2>2, <2>3
<1> QED
  BY <1>1, <1>4, <1>5, <1>6

(* The local book implements BookView: it is silent, or shows levels of    *)
(* the exchange's book that are all of one update, and then it only goes   *)
(* forward and loses none.                                                 *)
THEOREM BookViewImplemented == Spec => BookIsView
<1>1. Init => View!Init
  BY DEF Init, View!Init, View!Silent, Shown
<1> QED
  BY <1>1, InitIInv, StepIInv, ShownStep, PTL DEF Spec, BookIsView, View!Spec

-----------------------------------------------------------------------------
(* The inductive invariant of MakerEntry.                                  *)

(* Where an entry is under way; where it has an order that it works on;    *)
(* and where a reconcile is.                                               *)
Entering == {"submit", "lookup", "patience", "adjust", "reread", "patience2", "lookup2",
             "cancel", "confirm", "recheck", "fallback", "protect", "flatten", "pending"}
Working == {"patience", "adjust", "reread", "patience2", "lookup2", "cancel", "confirm",
            "recheck", "pending"}
Judging == {"orders", "sweep", "judge", "untracked"}

PositionType == {NoPos} \cup [qty : Nat \ {0}, flagged : BOOLEAN]
OrderType == [qty : 0..Lot, done : 0..Lot, live : BOOLEAN]
EntryType ==
    [style : {"limit", "pegged"}, mine : SUBSET OrderId,
     work : OrderId \cup {None}, lost : OrderId \cup {None},
     known : [OrderId -> Nat], market : Nat,
     seen : BOOLEAN, replaced : BOOLEAN, looked : BOOLEAN]
SnapType ==
    [try : Nat \ {0}, base : Nat, open : SUBSET OrderId, fresh : BOOLEAN,
     base1 : Nat, open1 : SUBSET OrderId, fresh1 : BOOLEAN, todo : SUBSET OrderId]

MakerTypes ==
    /\ base \in Nat
    /\ orders \in [OrderId -> OrderType]
    /\ \A o \in OrderId : orders[o].done <= orders[o].qty
    /\ pos \in PositionType
    /\ intent \in {"none", "open", "ambiguous"}
    /\ pc \in Waiting
    /\ conflict \in BOOLEAN /\ recover \in BOOLEAN /\ boot \in BOOLEAN
    /\ entries \in 0..MaxEntries /\ faults \in 0..MaxFaults /\ crashes \in 0..MaxCrashes

(* What a reconcile has read is not above what the account has by now, and *)
(* if it read the open orders, those there are are among them; an entry    *)
(* begins where it found none.                                             *)
ReadingsOK ==
    /\ pc \in Judging \cup {"scan"} =>
          /\ snap \in SnapType
          /\ snap.fresh1 => Live \subseteq snap.open1
    /\ pc = "orders" /\ snap.try = 1 => ~snap.fresh1
    /\ pc \in Judging => snap.base <= base /\ snap.base1 <= base
    /\ pc = "judge" \/ (pc = "orders" /\ snap.try > 1) => pos # NoPos
    /\ pc = "scan" /\ pos = NoPos /\ ~conflict => snap.open1 = {}
    /\ pc = "submit" /\ snap.fresh1 => Live = {}

(* What the orders of an entry have filled, and its sum.                   *)
Filled(e) == [o \in OrderId |-> IF o \in e.mine THEN orders[o].done ELSE 0]
Total(f) == MapThenSumSet(LAMBDA o : f[o], OrderId)

(* An entry knows of no fill that there was not, and the account has all   *)
(* that its orders and its market buy brought.                             *)
EntryAt(e, place) ==
    /\ e \in EntryType
    /\ \A o \in OrderId : e.known[o] <= Filled(e)[o]
    /\ Total(Filled(e)) + e.market <= base
    /\ e.work # None => e.work \in e.mine
    /\ e.lost # None => e.lost \in e.mine
    /\ place \in Working => e.work # None
    /\ place \notin {"protect", "flatten"} => e.market = 0
    /\ place \in {"protect", "flatten"} => Counted(e) > 0

EntryOK ==
    /\ pc \notin Entering => entry = NoEntry
    /\ pc \in Entering => pos = NoPos /\ EntryAt(entry, pc)

(* Which of an entry's orders may still be live, and what is known of      *)
(* those that are not.                                                     *)
KnowsAll(e) == \A o \in e.mine : e.known[o] = orders[o].done
OrdersAt(e, place) ==
    /\ place = "submit" => e.mine = {} /\ ~e.replaced
    /\ place \in {"patience", "adjust", "reread"} => e.mine = {e.work} /\ ~e.replaced
    /\ place \in {"adjust", "reread"} => e.seen
    /\ place = "patience2" => e.replaced
    /\ place \in {"patience2", "cancel", "confirm", "recheck"} => e.mine \cap Live \subseteq {e.work}
    /\ place = "lookup2" /\ e.lost # None => e.mine \cap Live \subseteq {e.lost}
    /\ place \in {"cancel", "confirm", "recheck"} /\ ~e.replaced => e.mine = {e.work}
    /\ place = "cancel" /\ ~e.seen =>
          e.work \notin Live /\ e.known[e.work] = orders[e.work].done
    /\ place = "confirm" => e.work \notin Live
    /\ place \in {"fallback", "protect"} /\ ~e.looked =>
          e.mine \cap Live = {} /\ (~e.replaced => KnowsAll(e))
OrdersOK == OrdersAt(entry, pc)

MakerInv == MakerTypes /\ ReadingsOK /\ EntryOK /\ OrdersOK /\ NeverOverclaims

-----------------------------------------------------------------------------
(* Sums over the orders.  Total(f) is h[OrderId] of the h that adds one    *)
(* order after the other, in the order of First.                           *)
First(s) == CHOOSE o \in s : TRUE
Upto(f, h, s) == IF s = {} THEN 0 ELSE LET o == First(s) IN f[o] + h[s \ {o}]
Adds(f, h) == h = [s \in SUBSET OrderId |-> Upto(f, h, s)]
Sums(f) == CHOOSE h : Adds(f, h)

(* Induction over the sets of orders.                                      *)
LEMMA OrderInduction ==
    ASSUME NEW G, {} \in G,
           \A s \in SUBSET OrderId : s # {} /\ s \ {First(s)} \in G => s \in G
    PROVE  SUBSET OrderId \subseteq G
<1> DEFINE Bad == (SUBSET OrderId) \ G
<1> SUFFICES ASSUME Bad # {} PROVE FALSE
  OBVIOUS
<1>1. IsWellFoundedOn(StrictSubsetOrdering(OrderId), SUBSET OrderId)
  <2>1. FiniteSubsetsOf(OrderId) = SUBSET OrderId
    BY MakerAssumption, FS_FiniteSubsetsOfFinite
  <2>2. IsWellFoundedOn(StrictSubsetOrdering(OrderId), FiniteSubsetsOf(OrderId))
    BY FS_StrictSubsetOrderingWellFounded
  <2> QED
    BY <2>1, <2>2
<1>2. PICK s \in Bad : \A t \in Bad : ~(<<t, s>> \in StrictSubsetOrdering(OrderId))
  <2> HIDE DEF Bad
  <2>1. Bad \subseteq SUBSET OrderId
    BY DEF Bad
  <2> QED
    BY <1>1, <2>1, WFMin
<1>3. s # {} /\ s \in SUBSET OrderId
  BY <1>2
<1>4. First(s) \in s
  BY <1>3 DEF First
<1>5. <<s \ {First(s)}, s>> \in StrictSubsetOrdering(OrderId)
  BY <1>3, <1>4 DEF StrictSubsetOrdering
<1>6. s \ {First(s)} \in G
  BY <1>2, <1>3, <1>5
<1> QED
  BY <1>2, <1>3, <1>6

LEMMA FirstIsOne == ASSUME NEW s, s # {} PROVE First(s) \in s
BY DEF First

LEMMA SmallestNat ==
    ASSUME NEW S, S \subseteq Nat, S # {}
    PROVE  \E m \in S : \A n \in S : m <= n
<1>1. PICK m \in S : \A n \in S : ~(<<n, m>> \in OpToRel(<, Nat))
  BY NatLessThanWellFounded, WFMin
<1>2. ASSUME NEW n \in S PROVE m <= n
  <2>1. n \in Nat /\ m \in Nat
    OBVIOUS
  <2>2. ~(n < m)
    BY <1>1, <2>1 DEF OpToRel
  <2> QED
    BY <2>1, <2>2
<1> QED
  BY <1>2

LEMMA SumsExist == ASSUME NEW f PROVE \E h : Adds(f, h)
<1> DEFINE Sets == SUBSET OrderId
           Holds(h, n) == \A s \in Sets : Cardinality(s) <= n => h[s] = Upto(f, h, s)
           Bad == {n \in Nat : ~ \E h : Holds(h, n)}
<1>1. \A s \in Sets : IsFiniteSet(s) /\ Cardinality(s) \in Nat
  BY MakerAssumption, FS_Subset, FS_CardinalityType
<1>2. Bad = {}
  <2> SUFFICES ASSUME Bad # {} PROVE FALSE
    OBVIOUS
  <2>1. PICK n \in Bad : \A m \in Bad : n <= m
    <3>1. Bad \subseteq Nat
      OBVIOUS
    <3> HIDE DEF Bad
    <3> QED
      BY <3>1, SmallestNat
  <2>2. \E h : \A s \in Sets : Cardinality(s) < n => h[s] = Upto(f, h, s)
    <3>1. CASE n = 0
      BY <3>1, <1>1
    <3>2. CASE n # 0
      <4>1. n - 1 \in Nat /\ n - 1 \notin Bad
        BY <2>1, <3>2
      <4>2. PICK h : Holds(h, n - 1)
        BY <4>1
      <4>3. \A s \in Sets : Cardinality(s) < n => h[s] = Upto(f, h, s)
        BY <4>2, <1>1, <2>1
      <4> QED
        BY <4>3
    <3> QED
      BY <3>1, <3>2
  <2>3. PICK h : \A s \in Sets : Cardinality(s) < n => h[s] = Upto(f, h, s)
    BY <2>2
  <2> DEFINE g == [s \in Sets |-> Upto(f, h, s)]
  <2>4. ASSUME NEW s \in Sets, Cardinality(s) <= n
        PROVE  g[s] = Upto(f, g, s)
    <3>1. CASE s = {}
      BY <3>1 DEF Upto
    <3>2. CASE s # {}
      <4> DEFINE t == s \ {First(s)}
      <4>1. First(s) \in s /\ t \in Sets
        BY <3>2, FirstIsOne
      <4>2. Cardinality(t) < n
        <5>1. Cardinality(t) = Cardinality(s) - 1
          BY <1>1, <4>1, FS_RemoveElement
        <5> QED
          BY <5>1, <1>1, <2>1, <2>4
      <4>3. g[t] = h[t]
        BY <2>3, <4>1, <4>2
      <4> QED
        BY <3>2, <4>1, <4>3 DEF Upto
    <3> QED
      BY <3>1, <3>2
  <2>5. Holds(g, n)
    BY <2>4
  <2> HIDE DEF g, Holds
  <2> QED
    BY <2>1, <2>5
<1>3. Cardinality(OrderId) \in Nat
  BY <1>1
<1>4. PICK h : Holds(h, Cardinality(OrderId))
  BY <1>2, <1>3
<1>5. \A s \in Sets : h[s] = Upto(f, h, s)
  BY <1>4, MakerAssumption, FS_Subset
<1> DEFINE g == [s \in Sets |-> h[s]]
<1>6. ASSUME NEW s \in Sets PROVE g[s] = Upto(f, g, s)
  <2>1. s # {} => s \ {First(s)} \in Sets
    OBVIOUS
  <2> QED
    BY <1>5, <2>1 DEF Upto
<1>7. g = [s \in Sets |-> Upto(f, g, s)]
  BY <1>6
<1> HIDE DEF g
<1> QED
  BY <1>7 DEF Adds

LEMMA SumsAre ==
    ASSUME NEW f
    PROVE  /\ Sums(f)[{}] = 0
           /\ \A s \in SUBSET OrderId : s # {} =>
                 Sums(f)[s] = f[First(s)] + Sums(f)[s \ {First(s)}]
<1>1. Adds(f, Sums(f))
  BY SumsExist DEF Sums
<1>2. \A s \in SUBSET OrderId : Sums(f)[s] = Upto(f, Sums(f), s)
  BY <1>1 DEF Adds
<1> QED
  BY <1>2 DEF Upto

LEMMA TotalIs == ASSUME NEW f PROVE Total(f) = Sums(f)[OrderId]
BY DEF Total, MapThenSumSet, MapThenFoldSet, Sums, Adds, Upto, First

LEMMA SumsType ==
    ASSUME NEW f \in [OrderId -> Nat], NEW s \in SUBSET OrderId
    PROVE  Sums(f)[s] \in Nat
<1> DEFINE G == {t \in SUBSET OrderId : Sums(f)[t] \in Nat}
<1>1. {} \in G
  BY SumsAre
<1>2. ASSUME NEW t \in SUBSET OrderId, t # {}, t \ {First(t)} \in G PROVE t \in G
  <2>1. First(t) \in OrderId
    BY <1>2, FirstIsOne
  <2> QED
    BY <1>2, <2>1, SumsAre
<1> HIDE DEF G
<1>3. SUBSET OrderId \subseteq G
  BY <1>1, <1>2, OrderInduction
<1> QED
  BY <1>3 DEF G

(* A sum of smaller parts is smaller.                                      *)
LEMMA TotalMono ==
    ASSUME NEW f \in [OrderId -> Nat], NEW g \in [OrderId -> Nat],
           \A o \in OrderId : f[o] <= g[o]
    PROVE  Total(f) <= Total(g) /\ Total(f) \in Nat /\ Total(g) \in Nat
<1> DEFINE G == {t \in SUBSET OrderId : Sums(f)[t] <= Sums(g)[t]}
<1>1. {} \in G
  BY SumsAre
<1>2. ASSUME NEW t \in SUBSET OrderId, t # {}, t \ {First(t)} \in G PROVE t \in G
  <2>1. First(t) \in OrderId /\ t \ {First(t)} \in SUBSET OrderId
    BY <1>2, FirstIsOne
  <2>2. Sums(f)[t] = f[First(t)] + Sums(f)[t \ {First(t)}]
    BY <1>2, SumsAre
  <2>3. Sums(g)[t] = g[First(t)] + Sums(g)[t \ {First(t)}]
    BY <1>2, SumsAre
  <2>4. Sums(f)[t \ {First(t)}] \in Nat /\ Sums(g)[t \ {First(t)}] \in Nat
    BY <2>1, SumsType
  <2>5. f[First(t)] \in Nat /\ g[First(t)] \in Nat /\ f[First(t)] <= g[First(t)]
    BY <2>1
  <2>6. Sums(f)[t \ {First(t)}] <= Sums(g)[t \ {First(t)}]
    BY <1>2
  <2> HIDE DEF G
  <2>7. Sums(f)[t] <= Sums(g)[t]
    BY <2>2, <2>3, <2>4, <2>5, <2>6
  <2> QED
    BY <2>7 DEF G
<1> HIDE DEF G
<1>3. SUBSET OrderId \subseteq G
  BY <1>1, <1>2, OrderInduction
<1>4. Sums(f)[OrderId] <= Sums(g)[OrderId]
  BY <1>3 DEF G
<1> QED
  BY <1>4, TotalIs, SumsType

(* A part that grows adds as much to the sum.                              *)
LEMMA TotalAdd ==
    ASSUME NEW f \in [OrderId -> Nat], NEW x \in OrderId, NEW n \in Nat
    PROVE  Total([f EXCEPT ![x] = @ + n]) = Total(f) + n
<1> DEFINE g == [f EXCEPT ![x] = @ + n]
           Plus(t) == IF x \in t THEN n ELSE 0
           G == {t \in SUBSET OrderId : Sums(g)[t] = Sums(f)[t] + Plus(t)}
<1>0. g \in [OrderId -> Nat] /\ g[x] = f[x] + n /\ \A o \in OrderId \ {x} : g[o] = f[o]
  OBVIOUS
<1> HIDE DEF g
<1>1. {} \in G
  BY SumsAre
<1>2. ASSUME NEW t \in SUBSET OrderId, t # {}, t \ {First(t)} \in G PROVE t \in G
  <2> DEFINE o == First(t)
             u == t \ {o}
  <2>1. o \in OrderId /\ o \in t /\ u \in SUBSET OrderId
    BY <1>2, FirstIsOne
  <2>2. Sums(f)[t] = f[o] + Sums(f)[u] /\ Sums(g)[t] = g[o] + Sums(g)[u]
    BY <1>2, SumsAre
  <2>3. Sums(f)[u] \in Nat /\ Sums(g)[u] \in Nat
    BY <2>1, <1>0, SumsType
  <2>4. Sums(g)[u] = Sums(f)[u] + Plus(u)
    BY <1>2
  <2>5. f[o] \in Nat /\ g[o] \in Nat /\ f[x] \in Nat
    BY <2>1, <1>0
  <2> HIDE DEF o, G
  <2>6. Sums(g)[t] = Sums(f)[t] + Plus(t)
    <3>1. CASE o = x
      <4>1. Plus(u) = 0 /\ Plus(t) = n
        BY <2>1, <3>1
      <4> HIDE DEF Plus, u
      <4> QED
        BY <2>2, <2>3, <2>4, <2>5, <3>1, <1>0, <4>1
    <3>2. CASE o # x
      <4>1. g[o] = f[o] /\ Plus(u) = Plus(t) /\ Plus(t) \in Nat
        BY <2>1, <3>2, <1>0
      <4> HIDE DEF Plus, u
      <4> QED
        BY <2>2, <2>3, <2>4, <2>5, <4>1
    <3> QED
      BY <3>1, <3>2
  <2> QED
    BY <2>6 DEF G
<1>3. SUBSET OrderId \subseteq G
  <2> HIDE DEF G
  <2> QED
    BY <1>1, <1>2, OrderInduction
<1>4. Sums(g)[OrderId] = Sums(f)[OrderId] + n
  BY <1>3
<1> QED
  BY <1>4, TotalIs DEF g

LEMMA TotalNone == ASSUME NEW f \in [OrderId -> Nat], \A o \in OrderId : f[o] = 0
                   PROVE  Total(f) = 0
<1> DEFINE G == {t \in SUBSET OrderId : Sums(f)[t] = 0}
<1>1. {} \in G
  BY SumsAre
<1>2. ASSUME NEW t \in SUBSET OrderId, t # {}, t \ {First(t)} \in G PROVE t \in G
  <2>1. First(t) \in t /\ f[First(t)] = 0
    BY <1>2, FirstIsOne
  <2>2. Sums(f)[t] = f[First(t)] + Sums(f)[t \ {First(t)}]
    BY <1>2, SumsAre
  <2>3. Sums(f)[t \ {First(t)}] = 0
    BY <1>2
  <2>4. Sums(f)[t] = 0
    BY <2>1, <2>2, <2>3
  <2> QED
    BY <2>4
<1> HIDE DEF G
<1>3. SUBSET OrderId \subseteq G
  BY <1>1, <1>2, OrderInduction
<1> QED
  BY <1>3, TotalIs DEF G

-----------------------------------------------------------------------------
(* What the steps of an entry have in common.                              *)
LEMMA OrderIds == None \notin OrderId /\ IsFiniteSet(OrderId) /\ OrderId \subseteq Nat
BY MakerAssumption DEF None

LEMMA FaultsBounded ==
    ASSUME MakerTypes, Fault \/ Faultless
    PROVE  faults' \in 0..MaxFaults
BY MakerAssumption DEF MakerTypes, Fault, Faultless

LEMMA FilledType ==
    ASSUME MakerTypes, NEW e
    PROVE  Filled(e) \in [OrderId -> Nat]
<1>1. \A o \in OrderId : orders[o].done \in Nat
  BY MakerAssumption DEF MakerTypes, OrderType
<1> QED
  BY <1>1 DEF Filled

LEMMA CountedIs == ASSUME NEW e PROVE Counted(e) = Total(e.known) + e.market
BY DEF Counted, Total

(* What an entry counts is in the account.                                 *)
LEMMA CountedHeld ==
    ASSUME MakerTypes, NEW e, NEW place, EntryAt(e, place)
    PROVE  /\ Total(e.known) \in Nat /\ Total(Filled(e)) \in Nat /\ e.market \in Nat
           /\ Total(e.known) <= Total(Filled(e))
           /\ Counted(e) = Total(e.known) + e.market
           /\ Counted(e) \in 0..base
<1>1. e.known \in [OrderId -> Nat] /\ e.market \in Nat
  BY DEF EntryAt, EntryType
<1>2. Filled(e) \in [OrderId -> Nat]
  BY FilledType
<1>3. \A o \in OrderId : e.known[o] <= Filled(e)[o]
  BY DEF EntryAt
<1>4. Total(e.known) <= Total(Filled(e)) /\ Total(e.known) \in Nat /\ Total(Filled(e)) \in Nat
  BY <1>1, <1>2, <1>3, TotalMono
<1>5. Total(Filled(e)) + e.market <= base /\ base \in Nat
  BY DEF EntryAt, MakerTypes
<1> QED
  BY <1>1, <1>4, <1>5, CountedIs

(* A step that only reads leaves what was found.                           *)
LEMMA ReadsStep ==
    ASSUME MakerInv, pc \in Entering, NEW e, NEW next \in Entering \ {"submit"},
           Reads(e, next), Stay, Fault \/ Faultless,
           EntryAt(e, next), OrdersAt(e, next)
    PROVE  MakerInv'
<1> USE DEF MakerInv
<1>1. entry' = e /\ pc' = next /\ UNCHANGED <<base, orders>>
  BY DEF Reads, Go, exchange
<1>2. Live' = Live
  BY <1>1 DEF Live
<1>3. UNCHANGED <<pos, intent, snap, conflict, recover, boot, entries, crashes>>
  BY DEF Stay
<1>4. MakerTypes'
  <2>1. pc' \in Waiting
    BY <1>1 DEF Waiting, Entering
  <2> QED
    BY <1>1, <1>3, <2>1, FaultsBounded DEF MakerTypes
<1>5. ReadingsOK'
  BY <1>1, <1>3 DEF ReadingsOK, Entering, Judging
<1>6. EntryOK'
  <2>1. pos = NoPos
    BY DEF EntryOK
  <2>2. Filled(e)' = Filled(e)
    BY <1>1 DEF Filled
  <2>3. EntryAt(e, next)'
    BY <1>1, <2>2 DEF EntryAt
  <2> QED
    BY <1>1, <1>3, <2>1, <2>3 DEF EntryOK
<1>7. OrdersOK'
  BY <1>1, <1>2 DEF OrdersOK, OrdersAt, KnowsAll
<1>8. NeverOverclaims'
  BY <1>1, <1>3 DEF NeverOverclaims
<1> QED
  BY <1>4, <1>5, <1>6, <1>7, <1>8

(* What an order's read adds is in the account.                            *)
LEMMA SettledAt ==
    ASSUME MakerTypes, NEW place, EntryAt(entry, place), place \notin {"protect", "flatten"},
           NEW o \in entry.mine, NEW e \in EntryType,
           e.mine = entry.mine, e.market = entry.market,
           e.known = [entry.known EXCEPT ![o] = orders[o].done],
           e.work # None => e.work \in e.mine,
           e.lost # None => e.lost \in e.mine,
           NEW next, next \notin {"protect", "flatten"},
           next \in Working => e.work # None
    PROVE  EntryAt(e, next)
<1>1. Filled(e) = Filled(entry)
  BY DEF Filled
<1>2. o \in OrderId /\ entry.known \in [OrderId -> Nat] /\ entry.market = 0
  BY DEF EntryAt, EntryType
<1>3. \A x \in OrderId : e.known[x] <= Filled(e)[x]
  <2>1. orders[o].done <= Filled(e)[o]
    <3>1. orders[o].done \in Nat /\ Filled(e)[o] = orders[o].done
      BY <1>2, MakerAssumption DEF Filled, MakerTypes, OrderType
    <3> QED
      BY <3>1
  <2> QED
    BY <1>1, <1>2, <2>1 DEF EntryAt
<1> QED
  BY <1>1, <1>2, <1>3 DEF EntryAt

LEMMA SettledIs ==
    ASSUME entry \in EntryType, MakerTypes, NEW o \in OrderId
    PROVE  /\ settleMakerOrder(entry, o) \in EntryType
           /\ settleMakerOrder(entry, o).known = [entry.known EXCEPT ![o] = orders[o].done]
           /\ settleMakerOrder(entry, o).known[o] = orders[o].done
           /\ settleMakerOrder(entry, o).seen = (o \in Live)
           /\ settleMakerOrder(entry, o).mine = entry.mine
           /\ settleMakerOrder(entry, o).market = entry.market
           /\ settleMakerOrder(entry, o).work = entry.work
           /\ settleMakerOrder(entry, o).lost = entry.lost
           /\ settleMakerOrder(entry, o).replaced = entry.replaced
           /\ settleMakerOrder(entry, o).looked = entry.looked
<1>1. orders[o].done \in Nat
  BY MakerAssumption DEF MakerTypes, OrderType
<1>2. (o \in Live) \in BOOLEAN
  OBVIOUS
<1> QED
  BY <1>1, <1>2 DEF settleMakerOrder, isActiveExchangeOrderStatus, EntryType

(* The end of an entry.                                                    *)
LEMMA EntryEndsStep ==
    ASSUME MakerInv, pc \in Entering, NEW p \in PositionType,
           NEW st \in {"none", "ambiguous"}, EntryEnds(p, st), orders' = orders,
           base' \in Nat, p # NoPos /\ ~p.flagged => p.qty <= base', Fault \/ Faultless
    PROVE  MakerInv'
<1> USE DEF MakerInv
<1>1. pos' = p /\ intent' = st /\ entry' = NoEntry /\ pc' = "idle"
      /\ UNCHANGED <<conflict, recover, boot, entries, crashes>>
  BY DEF EntryEnds, Go
<1>2. MakerTypes'
  BY <1>1, FaultsBounded DEF MakerTypes, Waiting
<1>3. ReadingsOK'
  BY <1>1 DEF ReadingsOK, Judging
<1>4. EntryOK' /\ OrdersOK'
  BY <1>1 DEF EntryOK, OrdersOK, OrdersAt, Entering
<1>5. NeverOverclaims'
  BY <1>1 DEF NeverOverclaims
<1> QED
  BY <1>2, <1>3, <1>4, <1>5

LEMMA EntryFailsStep ==
    ASSUME MakerInv, pc \in Entering, EntryFails, orders' = orders, base' \in Nat,
           Fault \/ Faultless
    PROVE  MakerInv'
<1>1. pos = NoPos /\ NoPos \in PositionType
  BY DEF MakerInv, EntryOK, PositionType
<1> QED
  BY <1>1, EntryEndsStep DEF EntryFails

LEMMA KeptAt ==
    ASSUME NEW e, NEW next, EntryAt(e, next), base' = base,
           \A o \in e.mine : orders'[o].done = orders[o].done
    PROVE  EntryAt(e, next)'
<1>1. Filled(e)' = Filled(e)
  BY DEF Filled
<1> QED
  BY <1>1 DEF EntryAt

(* A step that changes orders.                                             *)
LEMMA OrdersStep ==
    ASSUME MakerInv, pc \in Entering, NEW e, NEW next \in Entering \ {"submit"},
           entry' = e, pc' = next, base' = base, Stay, Fault \/ Faultless,
           orders' \in [OrderId -> OrderType],
           \A o \in OrderId : orders'[o].done <= orders'[o].qty,
           EntryAt(e, next)', OrdersAt(e, next)'
    PROVE  MakerInv'
<1> USE DEF MakerInv
<1>1. UNCHANGED <<pos, intent, snap, conflict, recover, boot, entries, crashes>>
  BY DEF Stay
<1>2. MakerTypes'
  <2>1. pc' \in Waiting
    BY DEF Waiting, Entering
  <2> QED
    BY <1>1, <2>1, FaultsBounded DEF MakerTypes
<1>3. ReadingsOK'
  BY <1>1 DEF ReadingsOK, Entering, Judging
<1>4. EntryOK'
  <2>1. pos = NoPos
    BY DEF EntryOK
  <2> QED
    BY <1>1, <2>1 DEF EntryOK
<1>5. OrdersOK'
  BY DEF OrdersOK, OrdersAt, KnowsAll, Live
<1>6. NeverOverclaims'
  BY <1>1 DEF NeverOverclaims
<1> QED
  BY <1>2, <1>3, <1>4, <1>5, <1>6

-----------------------------------------------------------------------------
(* The entry, step by step: those that only read.                          *)
LEMMA Underway == ASSUME MakerInv, pc \in Entering
                  PROVE  /\ MakerTypes /\ entry \in EntryType /\ pos = NoPos
                         /\ EntryAt(entry, pc) /\ OrdersAt(entry, pc)
BY DEF MakerInv, EntryOK, EntryAt, OrdersOK

(* The entry as it is, at its next place.                                  *)
LEMMA SameAt ==
    ASSUME NEW e, NEW place, EntryAt(e, place), place \notin {"protect", "flatten"},
           NEW next, next \notin {"protect", "flatten"}, next \in Working => e.work # None
    PROVE  EntryAt(e, next)
BY DEF EntryAt

LEMMA SubmitNeverArrivesStep == ASSUME MakerInv, SubmitNeverArrives PROVE MakerInv'
<1>1. pc = "submit" /\ pc \in Entering /\ Reads(entry, "lookup") /\ Stay /\ Fault
  BY DEF SubmitNeverArrives, Entering
<1>2. EntryAt(entry, "lookup")
  BY <1>1, Underway, SameAt DEF Working
<1>3. OrdersAt(entry, "lookup")
  BY DEF OrdersAt
<1> QED
  BY <1>1, <1>2, <1>3, ReadsStep DEF Entering

LEMMA SubmitRecoveredStep == ASSUME MakerInv, SubmitRecovered PROVE MakerInv'
<1> DEFINE s == settleMakerOrder(entry, entry.lost)
           e == [s EXCEPT !.looked = TRUE]
<1>1. pc = "lookup" /\ pc \in Entering /\ Reads(e, "fallback") /\ Stay /\ Faultless
      /\ entry.lost # None
  BY DEF SubmitRecovered, Entering
<1>2. entry.lost \in entry.mine /\ entry.lost \in OrderId
  BY <1>1, Underway DEF EntryAt, EntryType
<1>3. s \in EntryType /\ s.known = [entry.known EXCEPT ![entry.lost] = orders[entry.lost].done]
      /\ s.mine = entry.mine /\ s.market = entry.market /\ s.work = entry.work
      /\ s.lost = entry.lost
  BY <1>1, <1>2, Underway, SettledIs
<1> HIDE DEF s
<1>4. e \in EntryType /\ e.known = s.known /\ e.mine = s.mine /\ e.market = s.market
      /\ e.work = s.work /\ e.lost = s.lost /\ e.looked
  BY <1>3 DEF EntryType
<1> HIDE DEF e
<1>5. entry.work # None => entry.work \in entry.mine
  BY <1>1, Underway DEF EntryAt
<1>6. EntryAt(e, "fallback")
  BY <1>1, <1>2, <1>3, <1>4, <1>5, Underway, SettledAt DEF Working
<1>7. OrdersAt(e, "fallback")
  BY <1>4 DEF OrdersAt
<1> QED
  BY <1>1, <1>6, <1>7, ReadsStep DEF Entering

(* A read of the order that the entry works on.                            *)
LEMMA ReadWork ==
    ASSUME MakerInv, pc \in Working, NEW next \in Entering \ {"protect", "flatten"}
    PROVE  LET e == settleMakerOrder(entry, entry.work) IN
           /\ EntryAt(e, next)
           /\ e.mine = entry.mine /\ e.work = entry.work /\ e.lost = entry.lost
           /\ e.replaced = entry.replaced
           /\ e.seen = (entry.work \in Live)
           /\ e.known[entry.work] = orders[entry.work].done
           /\ entry.work \in entry.mine
<1> DEFINE e == settleMakerOrder(entry, entry.work)
<1>1. pc \in Entering /\ pc \notin {"protect", "flatten"}
  BY DEF Working, Entering
<1>2. entry.work \in entry.mine /\ entry.work \in OrderId /\ entry.work # None
  BY <1>1, Underway DEF EntryAt, EntryType
<1>3. /\ e \in EntryType /\ e.known = [entry.known EXCEPT ![entry.work] = orders[entry.work].done]
      /\ e.mine = entry.mine /\ e.market = entry.market /\ e.work = entry.work
      /\ e.lost = entry.lost /\ e.replaced = entry.replaced
      /\ e.seen = (entry.work \in Live)
      /\ e.known[entry.work] = orders[entry.work].done
  BY <1>1, <1>2, Underway, SettledIs
<1> HIDE DEF e
<1>4. EntryAt(e, next)
  <2>1. entry.lost # None => entry.lost \in entry.mine
    BY <1>1, Underway DEF EntryAt
  <2> QED
    BY <1>1, <1>2, <1>3, <2>1, Underway, SettledAt
<1> QED
  BY <1>2, <1>3, <1>4 DEF e

LEMMA ReadOrderStep == ASSUME MakerInv, ReadOrder PROVE MakerInv'
<1> DEFINE e == settleMakerOrder(entry, entry.work)
<1>1. pc = "patience" /\ pc \in Entering /\ pc \in Working /\ Faultless /\ Stay
  BY DEF ReadOrder, Entering, Working
<1>2. PICK next \in {"adjust", "fallback"} :
         Reads(e, next) /\ (next = "adjust" <=> entry.work \in Live)
  BY DEF ReadOrder
<1>3. /\ e.mine = entry.mine /\ e.work = entry.work /\ e.replaced = entry.replaced
      /\ e.seen = (entry.work \in Live)
      /\ e.known[entry.work] = orders[entry.work].done
      /\ EntryAt(e, next)
  BY <1>1, ReadWork DEF Entering
<1>4. entry.mine = {entry.work} /\ ~entry.replaced
  BY <1>1, Underway DEF OrdersAt
<1> HIDE DEF e
<1>5. OrdersAt(e, next)
  BY <1>2, <1>3, <1>4 DEF OrdersAt, KnowsAll
<1> QED
  BY <1>1, <1>2, <1>3, <1>5, ReadsStep DEF Entering

(* Steps after which the entry is as it was.                               *)
LEMMA NoNewsStep ==
    ASSUME MakerInv, pc \in Entering \ {"protect", "flatten"},
           NEW next \in Entering \ {"submit", "protect", "flatten"},
           Reads(entry, next), Stay, Fault \/ Faultless, OrdersAt(entry, next),
           next \in Working => pc \in Working
    PROVE  MakerInv'
<1>1. EntryAt(entry, next)
  <2>1. pc \in Working => entry.work # None
    BY Underway DEF EntryAt
  <2> QED
    BY <2>1, Underway, SameAt
<1> QED
  BY <1>1, ReadsStep

LEMMA ReadOrderFailsStep == ASSUME MakerInv, ReadOrderFails PROVE MakerInv'
BY NoNewsStep DEF ReadOrderFails, Entering, Working, OrdersAt

LEMMA LeaveAsItIsStep == ASSUME MakerInv, LeaveAsItIs PROVE MakerInv'
<1>1. pc = "adjust" /\ pc \in Entering
  BY DEF LeaveAsItIs, Entering
<1>2. OrdersAt(entry, "cancel")
  BY <1>1, Underway DEF OrdersAt
<1> QED
  BY <1>1, <1>2, NoNewsStep DEF LeaveAsItIs, Entering, Working

LEMMA ReadAmendedStep == ASSUME MakerInv, ReadAmended PROVE MakerInv'
<1> DEFINE e == settleMakerOrder(entry, entry.work)
<1>1. pc = "reread" /\ pc \in Entering /\ pc \in Working /\ Stay
  BY DEF ReadAmended, Entering, Working
<1>2. entry.mine = {entry.work} /\ ~entry.replaced /\ entry.seen
  BY <1>1, Underway DEF OrdersAt
<1>3. CASE Reads(e, "cancel") /\ Faultless
  <2>1. /\ e.mine = entry.mine /\ e.work = entry.work /\ e.replaced = entry.replaced
        /\ e.seen = (entry.work \in Live)
        /\ e.known[entry.work] = orders[entry.work].done
        /\ EntryAt(e, "cancel")
    BY <1>1, ReadWork DEF Entering
  <2> HIDE DEF e
  <2>2. OrdersAt(e, "cancel")
    BY <1>2, <2>1 DEF OrdersAt
  <2> QED
    BY <1>1, <1>3, <2>1, <2>2, ReadsStep DEF Entering
<1>4. CASE Reads(entry, "cancel") /\ Fault
  <2>1. OrdersAt(entry, "cancel")
    BY <1>2 DEF OrdersAt
  <2> QED
    BY <1>1, <1>4, <2>1, NoNewsStep DEF Entering, Working
<1> QED
  BY <1>3, <1>4 DEF ReadAmended

LEMMA ReplaceNeverArrivesStep == ASSUME MakerInv, ReplaceNeverArrives PROVE MakerInv'
<1>1. pc = "adjust" /\ pc \in Entering
  BY DEF ReplaceNeverArrives, Entering
<1>2. OrdersAt(entry, "lookup2")
  <2>1. entry.mine = {entry.work} /\ (entry.lost # None => entry.lost \in entry.mine)
    BY <1>1, Underway DEF OrdersAt, EntryAt
  <2> QED
    BY <2>1 DEF OrdersAt
<1> QED
  BY <1>1, <1>2, NoNewsStep DEF ReplaceNeverArrives, Entering, Working

LEMMA ReadReplacementStep == ASSUME MakerInv, ReadReplacement PROVE MakerInv'
<1> DEFINE e == settleMakerOrder(entry, entry.work)
           l == [entry EXCEPT !.lost = entry.work]
<1>1. pc = "patience2" /\ pc \in Entering /\ pc \in Working /\ Stay
  BY DEF ReadReplacement, Entering, Working
<1>2. entry.mine \cap Live \subseteq {entry.work} /\ entry.replaced
  BY <1>1, Underway DEF OrdersAt
<1>3. CASE Reads(e, "cancel") /\ Faultless
  <2>1. /\ e.mine = entry.mine /\ e.work = entry.work /\ e.replaced = entry.replaced
        /\ e.seen = (entry.work \in Live)
        /\ e.known[entry.work] = orders[entry.work].done
        /\ EntryAt(e, "cancel")
    BY <1>1, ReadWork DEF Entering
  <2> HIDE DEF e
  <2>2. OrdersAt(e, "cancel")
    BY <1>2, <2>1 DEF OrdersAt
  <2> QED
    BY <1>1, <1>3, <2>1, <2>2, ReadsStep DEF Entering
<1>4. CASE Reads(l, "lookup2") /\ Fault
  <2>1. entry \in EntryType /\ entry.work \in entry.mine /\ EntryAt(entry, pc)
    BY <1>1, Underway DEF EntryAt
  <2>2. l \in EntryType /\ l.mine = entry.mine /\ l.known = entry.known
        /\ l.market = entry.market /\ l.work = entry.work /\ l.lost = entry.work
    BY <2>1 DEF EntryType
  <2> HIDE DEF l
  <2>3. EntryAt(l, "lookup2")
    <3>1. Filled(l) = Filled(entry)
      BY <2>2 DEF Filled
    <3>2. entry.work # None /\ entry.market = 0
      BY <1>1, <2>1 DEF EntryAt
    <3> QED
      BY <2>1, <2>2, <3>1, <3>2 DEF EntryAt
  <2>4. OrdersAt(l, "lookup2")
    BY <1>2, <2>2 DEF OrdersAt
  <2> QED
    BY <1>1, <1>4, <2>3, <2>4, ReadsStep DEF Entering
<1>5. CASE Reads(entry, "pending") /\ Fault
  BY <1>1, <1>5, NoNewsStep DEF Entering, Working, OrdersAt
<1> QED
  BY <1>3, <1>4, <1>5 DEF ReadReplacement

LEMMA ReplacementRecoveredStep == ASSUME MakerInv, ReplacementRecovered PROVE MakerInv'
<1> DEFINE s == settleMakerOrder(entry, entry.lost)
           e == [s EXCEPT !.work = entry.lost, !.replaced = TRUE]
<1>1. pc = "lookup2" /\ pc \in Entering /\ Reads(e, "cancel") /\ Stay /\ Faultless
      /\ entry.lost # None
  BY DEF ReplacementRecovered, Entering
<1>2. entry.lost \in entry.mine /\ entry.lost \in OrderId
  BY <1>1, Underway DEF EntryAt, EntryType
<1>3. s \in EntryType /\ s.known = [entry.known EXCEPT ![entry.lost] = orders[entry.lost].done]
      /\ s.mine = entry.mine /\ s.market = entry.market /\ s.lost = entry.lost
      /\ s.seen = (entry.lost \in Live) /\ s.known[entry.lost] = orders[entry.lost].done
  BY <1>1, <1>2, Underway, SettledIs
<1> HIDE DEF s
<1>4. e \in EntryType /\ e.known = s.known /\ e.mine = s.mine /\ e.market = s.market
      /\ e.work = entry.lost /\ e.lost = s.lost /\ e.replaced /\ e.seen = s.seen
  BY <1>2, <1>3 DEF EntryType
<1> HIDE DEF e
<1>5. EntryAt(e, "cancel")
  BY <1>1, <1>2, <1>3, <1>4, Underway, SettledAt
<1>6. OrdersAt(e, "cancel")
  <2>1. entry.mine \cap Live \subseteq {entry.lost}
    BY <1>1, Underway DEF OrdersAt
  <2> QED
    BY <1>3, <1>4, <2>1 DEF OrdersAt
<1> QED
  BY <1>1, <1>5, <1>6, ReadsStep DEF Entering

LEMMA ReplacementNotRecoveredStep == ASSUME MakerInv, ReplacementNotRecovered PROVE MakerInv'
BY NoNewsStep DEF ReplacementNotRecovered, Entering, Working, OrdersAt

LEMMA NothingToCancelStep == ASSUME MakerInv, NothingToCancel PROVE MakerInv'
<1>1. pc = "cancel" /\ pc \in Entering /\ ~entry.seen
  BY DEF NothingToCancel, Entering
<1>2. OrdersAt(entry, "fallback")
  BY <1>1, Underway DEF OrdersAt, KnowsAll
<1> QED
  BY <1>1, <1>2, NoNewsStep DEF NothingToCancel, Entering, Working

(* A read that finds the order over: all that it filled is known.          *)
LEMMA LastReadStep ==
    ASSUME MakerInv, pc \in {"confirm", "recheck"}, entry.work \notin Live,
           Reads(settleMakerOrder(entry, entry.work), "fallback"), Stay, Faultless
    PROVE  MakerInv'
<1> DEFINE e == settleMakerOrder(entry, entry.work)
<1>1. pc \in Working /\ pc \in Entering
  BY DEF Working, Entering
<1>2. /\ e.mine = entry.mine /\ e.work = entry.work /\ e.replaced = entry.replaced
      /\ e.known[entry.work] = orders[entry.work].done
      /\ EntryAt(e, "fallback")
  BY <1>1, ReadWork DEF Entering
<1>3. /\ entry.mine \cap Live \subseteq {entry.work}
      /\ ~entry.replaced => entry.mine = {entry.work}
  BY <1>1, Underway DEF OrdersAt
<1> HIDE DEF e
<1>4. OrdersAt(e, "fallback")
  BY <1>2, <1>3 DEF OrdersAt, KnowsAll
<1> QED
  BY <1>1, <1>2, <1>4, ReadsStep DEF Entering, e

LEMMA ReadCanceledStep == ASSUME MakerInv, ReadCanceled PROVE MakerInv'
<1>1. pc = "confirm" /\ pc \in Entering /\ Stay
  BY DEF ReadCanceled, Entering
<1>2. /\ entry.work \notin Live /\ entry.mine \cap Live \subseteq {entry.work}
      /\ ~entry.replaced => entry.mine = {entry.work}
  BY <1>1, Underway DEF OrdersAt
<1>3. CASE Reads(entry, "recheck") /\ Fault
  <2>1. OrdersAt(entry, "recheck")
    BY <1>2 DEF OrdersAt
  <2> QED
    BY <1>1, <1>3, <2>1, NoNewsStep DEF Entering, Working
<1> QED
  BY <1>1, <1>2, <1>3, LastReadStep DEF ReadCanceled

LEMMA RecheckStep == ASSUME MakerInv, Recheck PROVE MakerInv'
<1> DEFINE e == settleMakerOrder(entry, entry.work)
<1>1. pc = "recheck" /\ pc \in Entering /\ pc \in Working /\ Stay
  BY DEF Recheck, Entering, Working
<1>2. CASE entry.work \in Live /\ Reads(e, "pending") /\ Faultless
  <2>1. EntryAt(e, "pending")
    BY <1>1, ReadWork DEF Entering
  <2>2. OrdersAt(e, "pending")
    BY DEF OrdersAt
  <2> HIDE DEF e
  <2> QED
    BY <1>1, <1>2, <2>1, <2>2, ReadsStep DEF Entering
<1>3. CASE entry.work \notin Live /\ Reads(e, "fallback") /\ Faultless
  BY <1>1, <1>3, LastReadStep
<1>4. CASE Reads(entry, "pending") /\ Fault
  BY <1>1, <1>4, NoNewsStep DEF Entering, Working, OrdersAt
<1> QED
  BY <1>2, <1>3, <1>4 DEF Recheck, isActiveExchangeOrderStatus

-----------------------------------------------------------------------------
(* The entry, step by step: those that place, change and end orders.       *)
LEMMA MinOfNats ==
    ASSUME NEW S, S \subseteq Nat, S # {}
    PROVE  Min(S) \in S
<1>1. \E m \in S : \A n \in S : m =< n
  BY SmallestNat
<1> QED
  BY <1>1 DEF Min

LEMMA SpareOrder ==
    ASSUME MakerTypes, pc \in Entering => entry \in EntryType,
           pc \notin Entering => entry = NoEntry, Spare # {}
    PROVE  /\ Min(Spare) \in OrderId /\ Min(Spare) \notin Live
           /\ pc \in Entering => Min(Spare) \notin entry.mine
<1>1. Spare \subseteq Nat
  BY OrderIds DEF Spare
<1>2. Min(Spare) \in Spare
  BY <1>1, MinOfNats
<1>3. entry \in EntryType => entry # NoEntry
  BY DEF EntryType, NoEntry
<1> QED
  BY <1>2, <1>3 DEF Spare, Mine

LEMMA PlacedOrders ==
    ASSUME NEW w \in [OrderId -> OrderType], \A x \in OrderId : w[x].done <= w[x].qty,
           NEW o \in OrderId, NEW qty \in 0..Lot, NEW os, os = Placed(w, o, qty)
    PROVE  /\ os \in [OrderId -> OrderType]
           /\ os[o] = [qty |-> qty, done |-> 0, live |-> TRUE]
           /\ \A x \in OrderId \ {o} : os[x] = w[x]
           /\ \A x \in OrderId : os[x].done <= os[x].qty
<1> DEFINE r == [qty |-> qty, done |-> 0, live |-> TRUE]
<1>1. r \in OrderType /\ r.done <= r.qty
  BY MakerAssumption DEF OrderType
<1>2. os \in [OrderId -> OrderType] /\ os[o] = r /\ \A x \in OrderId \ {o} : os[x] = w[x]
  BY <1>1 DEF Placed
<1> HIDE DEF r
<1>3. \A x \in OrderId : os[x].done <= os[x].qty
  BY <1>1, <1>2
<1> QED
  BY <1>2, <1>3 DEF r

LEMMA EndedOrders ==
    ASSUME MakerTypes, NEW o \in OrderId, NEW os, os = Ended(orders, o)
    PROVE  /\ os \in [OrderId -> OrderType]
           /\ \A x \in OrderId : /\ os[x].done = orders[x].done /\ os[x].qty = orders[x].qty
                                 /\ os[x].live = (x # o /\ orders[x].live)
           /\ \A x \in OrderId : os[x].done <= os[x].qty
<1>1. orders \in [OrderId -> OrderType]
  BY DEF MakerTypes
<1>2. os \in [OrderId -> OrderType]
      /\ \A x \in OrderId : /\ os[x].done = orders[x].done /\ os[x].qty = orders[x].qty
                            /\ os[x].live = (x # o /\ orders[x].live)
  BY <1>1 DEF Ended, OrderType
<1> QED
  BY <1>2 DEF MakerTypes

(* The entry begins with no orders and what the account has.               *)
LEMMA enterPositionStep == ASSUME MakerInv, enterPosition PROVE MakerInv'
<1>1. /\ pc = "scan" /\ pos = NoPos /\ ~conflict /\ intent' = "open" /\ pc' = "submit"
      /\ entries' = entries + 1 /\ entries < MaxEntries /\ Faultless
      /\ UNCHANGED <<base, orders, pos, snap, conflict, recover, boot, crashes>>
  BY DEF enterPosition, Go, exchange
<1>2. PICK style \in {"limit", "pegged"} : entry' = NewEntry(style)
  BY DEF enterPosition
<1> DEFINE e == NewEntry(style)
<1>3. e \in EntryType /\ e.mine = {} /\ e.work = None /\ e.lost = None /\ e.market = 0
      /\ \A o \in OrderId : e.known[o] = 0
  BY <1>2 DEF NewEntry, EntryType
<1> HIDE DEF e
<1>4. Filled(e) \in [OrderId -> Nat] /\ \A o \in OrderId : Filled(e)[o] = 0
  BY <1>3 DEF Filled
<1>5. Total(Filled(e)) = 0
  BY <1>4, TotalNone
<1>6. base \in Nat
  BY DEF MakerInv, MakerTypes
<1>7. EntryAt(e, "submit")
  BY <1>3, <1>4, <1>5, <1>6 DEF EntryAt, Working
<1>8. EntryOK'
  <2>1. EntryAt(e, "submit")'
    <3>1. Filled(e)' = Filled(e)
      BY <1>1, <1>2, <1>3 DEF Filled, e, NewEntry
    <3>2. e' = e
      BY <1>2 DEF e, NewEntry
    <3> QED
      BY <1>1, <1>7, <3>1, <3>2 DEF EntryAt, EntryType
  <2>2. entry' = e' /\ pos' = NoPos
    BY <1>1, <1>2 DEF e, NewEntry
  <2> QED
    BY <1>1, <2>1, <2>2 DEF EntryOK, Entering
<1>9. OrdersOK'
  <2>1. entry'.mine = {} /\ ~entry'.replaced
    BY <1>2 DEF NewEntry
  <2> QED
    BY <1>1, <2>1 DEF OrdersOK, OrdersAt
<1>10. MakerTypes'
  <2>1. entries' \in 0..MaxEntries
    BY <1>1, MakerAssumption DEF MakerInv, MakerTypes
  <2>2. faults' \in 0..MaxFaults
    BY <1>1, FaultsBounded DEF MakerInv
  <2> QED
    BY <1>1, <2>1, <2>2 DEF MakerInv, MakerTypes, Waiting
<1>11. ReadingsOK'
  BY <1>1 DEF MakerInv, ReadingsOK, Judging, Live
<1>12. NeverOverclaims'
  BY <1>1 DEF NeverOverclaims
<1> QED
  BY <1>8, <1>9, <1>10, <1>11, <1>12 DEF MakerInv

(* A new order has filled nothing.                                         *)
LEMMA PlacedAt ==
    ASSUME MakerTypes, entry \in EntryType, NEW place, EntryAt(entry, place),
           place \notin {"protect", "flatten"},
           NEW o \in OrderId, o \notin entry.mine, NEW e \in EntryType,
           e.mine = entry.mine \cup {o}, e.known = entry.known, e.market = entry.market,
           e.work # None => e.work \in e.mine,
           e.lost # None => e.lost \in e.mine,
           NEW next, next \notin {"protect", "flatten"},
           next \in Working => e.work # None,
           base' = base, orders'[o].done = 0,
           \A x \in entry.mine : orders'[x].done = orders[x].done
    PROVE  EntryAt(e, next)'
<1>1. Filled(e)' = Filled(entry)
  BY DEF Filled
<1>2. \A x \in OrderId : e.known[x] <= Filled(entry)[x]
  BY DEF EntryAt
<1>3. Total(Filled(entry)) + e.market <= base /\ e.market = 0
  BY DEF EntryAt
<1> QED
  BY <1>1, <1>2, <1>3 DEF EntryAt

LEMMA SubmitStep == ASSUME MakerInv, Submit PROVE MakerInv'
<1>1. PICK o : o = Min(Spare)
  OBVIOUS
<1> DEFINE n == [entry EXCEPT !.mine = {o}]
<1>2. pc = "submit" /\ pc \in Entering /\ Spare # {} /\ Stay /\ base' = base
      /\ orders' = Placed(orders, o, Lot)
  BY <1>1 DEF Submit, Entering
<1>3. MakerTypes /\ entry \in EntryType /\ EntryAt(entry, pc) /\ entry.mine = {}
  BY <1>2, Underway DEF OrdersAt
<1>4. o \in OrderId
  BY <1>1, <1>2, <1>3, SpareOrder
<1>5. Lot \in 0..Lot
  BY MakerAssumption
<1>6. /\ orders' \in [OrderId -> OrderType]
      /\ orders'[o].done = 0
      /\ \A x \in OrderId : orders'[x].done <= orders'[x].qty
  <2>1. PICK os : os = orders'
    OBVIOUS
  <2>2. orders \in [OrderId -> OrderType] /\ \A x \in OrderId : orders[x].done <= orders[x].qty
    BY <1>3 DEF MakerTypes
  <2>3. /\ os \in [OrderId -> OrderType]
        /\ os[o] = [qty |-> Lot, done |-> 0, live |-> TRUE]
        /\ \A x \in OrderId : os[x].done <= os[x].qty
    BY <1>2, <1>4, <1>5, <2>1, <2>2, PlacedOrders
  <2>4. os[o].done = 0
    BY <2>3
  <2> QED
    BY <2>1, <2>3, <2>4
<1>7. entry.work = None /\ entry.lost = None
  BY <1>2, <1>3 DEF EntryAt
<1>8. n \in EntryType /\ n.mine = {o} /\ n.known = entry.known /\ n.market = entry.market
      /\ n.work = None /\ n.lost = None /\ n.replaced = entry.replaced
  BY <1>3, <1>4, <1>7 DEF EntryType
<1> HIDE DEF n
<1>9. CASE entry' = [n EXCEPT !.work = o] /\ Go("patience") /\ Faultless
  <2>1. PICK e : e = [n EXCEPT !.work = o]
    OBVIOUS
  <2>2. e \in EntryType /\ e.mine = {o} /\ e.known = entry.known /\ e.market = entry.market
        /\ e.work = o /\ e.lost = None
    BY <1>4, <1>8, <2>1 DEF EntryType
  <2>3. EntryAt(e, "patience")'
    BY <1>2, <1>3, <1>4, <1>6, <2>2, PlacedAt, OrderIds
  <2>4. OrdersAt(e, "patience")'
    <3>1. ~entry.replaced /\ e.replaced = n.replaced
      BY <1>2, <1>8, <2>1, Underway DEF OrdersAt, EntryType
    <3> QED
      BY <1>8, <2>2, <3>1 DEF OrdersAt
  <2> QED
    BY <1>2, <1>6, <1>9, <2>1, <2>3, <2>4, OrdersStep DEF Go, Entering
<1>10. CASE entry' = [n EXCEPT !.lost = o] /\ Go("lookup") /\ Fault
  <2>1. PICK e : e = [n EXCEPT !.lost = o]
    OBVIOUS
  <2>2. e \in EntryType /\ e.mine = {o} /\ e.known = entry.known /\ e.market = entry.market
        /\ e.work = None /\ e.lost = o
    BY <1>4, <1>8, <2>1 DEF EntryType
  <2>3. EntryAt(e, "lookup")'
    BY <1>2, <1>3, <1>4, <1>6, <2>2, PlacedAt, OrderIds DEF Working
  <2>4. OrdersAt(e, "lookup")'
    BY DEF OrdersAt
  <2> QED
    BY <1>2, <1>6, <1>10, <2>1, <2>3, <2>4, OrdersStep DEF Go, Entering
<1> QED
  BY <1>1, <1>2, <1>9, <1>10 DEF Submit, n

LEMMA AmendStep == ASSUME MakerInv, Amend PROVE MakerInv'
<1>1. PICK w : w = entry.work
  OBVIOUS
<1>2. pc = "adjust" /\ pc \in Entering /\ Stay /\ base' = base /\ entry' = entry /\ w \in Live
      /\ ShrinkTo \in (orders[w].done + 1)..(orders[w].qty - 1)
      /\ orders' = [orders EXCEPT ![w].qty = ShrinkTo]
  BY <1>1 DEF Amend, Entering
<1>3. PICK next \in {"reread", "cancel"} : pc' = next /\ (Fault \/ Faultless)
  BY DEF Amend, Go
<1>4. MakerTypes /\ entry \in EntryType /\ EntryAt(entry, pc) /\ entry.mine = {w}
      /\ ~entry.replaced /\ entry.seen
  BY <1>1, <1>2, Underway DEF OrdersAt
<1>5. w \in OrderId /\ entry.work # None /\ orders \in [OrderId -> OrderType]
  BY <1>1, <1>2, <1>4 DEF EntryAt, EntryType, Working, MakerTypes
<1>6. PICK q : q = ShrinkTo
  OBVIOUS
<1>7. q \in 0..Lot /\ orders[w].done <= q
  BY <1>2, <1>5, <1>6, MakerAssumption DEF OrderType
<1>8. PICK os : os = orders'
  OBVIOUS
<1>9. /\ os \in [OrderId -> OrderType]
      /\ \A x \in OrderId : os[x].done = orders[x].done
      /\ \A x \in OrderId : os[x].done <= os[x].qty
  <2>1. os = [orders EXCEPT ![w] = [orders[w] EXCEPT !.qty = q]]
    BY <1>2, <1>6, <1>8
  <2>2. PICK r : r = [orders[w] EXCEPT !.qty = q]
    OBVIOUS
  <2>3. r \in OrderType /\ r.done = orders[w].done /\ r.qty = q
    BY <1>5, <1>7, <2>2 DEF OrderType
  <2>4. os = [orders EXCEPT ![w] = r]
    BY <2>1, <2>2
  <2> QED
    BY <1>4, <1>5, <1>7, <2>3, <2>4 DEF MakerTypes
<1>10. PICK e : e = entry
  OBVIOUS
<1>11. EntryAt(e, next)'
  <2>1. EntryAt(e, next)
    BY <1>2, <1>4, <1>5, <1>10, SameAt
  <2>2. \A o \in e.mine : orders'[o].done = orders[o].done
    BY <1>4, <1>5, <1>8, <1>9, <1>10
  <2> QED
    BY <1>2, <2>1, <2>2, KeptAt
<1>12. OrdersAt(e, next)'
  BY <1>1, <1>4, <1>10 DEF OrdersAt
<1> QED
  BY <1>2, <1>3, <1>8, <1>9, <1>10, <1>11, <1>12, OrdersStep DEF Entering

(* What a replacement asks for.                                            *)
LEMMA RestIs ==
    ASSUME MakerTypes, pc \in Working, EntryAt(entry, pc)
    PROVE  Rest \in 0..Lot
<1>1. entry.work \in OrderId /\ entry.work \in entry.mine /\ entry.known \in [OrderId -> Nat]
  BY DEF EntryAt, EntryType
<1>2. entry.known[entry.work] <= orders[entry.work].done
  BY <1>1 DEF EntryAt, Filled
<1>3. orders[entry.work] \in OrderType /\ orders[entry.work].done <= orders[entry.work].qty
  BY <1>1 DEF MakerTypes
<1>4. PICK a, b, d : a = orders[entry.work].qty /\ b = entry.known[entry.work]
                     /\ d = orders[entry.work].done
  OBVIOUS
<1>5. a \in Nat /\ a <= Lot /\ d \in Nat /\ b \in Nat /\ b <= d /\ d <= a
  <2>1. a \in 0..Lot /\ d \in 0..Lot /\ d <= a
    BY <1>3, <1>4 DEF OrderType
  <2>2. b \in Nat /\ b <= d
    BY <1>1, <1>2, <1>4
  <2> QED
    BY <2>1, <2>2, MakerAssumption
<1>6. a - b \in 0..Lot
  BY <1>5, MakerAssumption
<1> QED
  BY <1>4, <1>6 DEF Rest

LEMMA ReplaceStep == ASSUME MakerInv, Replace PROVE MakerInv'
<1>1. PICK w, o, q, ended, os :
         w = entry.work /\ o = Min(Spare) /\ q = Rest /\ ended = Ended(orders, w) /\ os = orders'
  OBVIOUS
<1> DEFINE n == [entry EXCEPT !.mine = @ \cup {o}]
<1>2. pc = "adjust" /\ pc \in Entering /\ pc \in Working /\ Stay /\ base' = base /\ w \in Live
      /\ Spare # {} /\ os = Placed(ended, o, q)
  BY <1>1 DEF Replace, Entering, Working
<1>3. MakerTypes /\ entry \in EntryType /\ EntryAt(entry, pc) /\ entry.mine = {w}
  BY <1>1, <1>2, Underway DEF OrdersAt
<1>4. o \in OrderId /\ o \notin entry.mine /\ o # w
  BY <1>1, <1>2, <1>3, SpareOrder
<1>5. w \in OrderId /\ q \in 0..Lot
  BY <1>1, <1>2, <1>3, RestIs DEF EntryType
<1>6. /\ os \in [OrderId -> OrderType]
      /\ os[o].done = 0
      /\ os[w].done = orders[w].done /\ ~os[w].live
      /\ \A x \in OrderId : os[x].done <= os[x].qty
  <2>1. /\ ended \in [OrderId -> OrderType]
        /\ ended[w].done = orders[w].done /\ ~ended[w].live
        /\ \A x \in OrderId : ended[x].done <= ended[x].qty
    <3>1. /\ ended \in [OrderId -> OrderType]
          /\ \A x \in OrderId : /\ ended[x].done = orders[x].done
                                /\ ended[x].live = (x # w /\ orders[x].live)
          /\ \A x \in OrderId : ended[x].done <= ended[x].qty
      BY <1>1, <1>3, <1>5, EndedOrders
    <3> QED
      BY <1>5, <3>1
  <2>2. /\ os \in [OrderId -> OrderType]
        /\ os[o] = [qty |-> q, done |-> 0, live |-> TRUE]
        /\ \A x \in OrderId \ {o} : os[x] = ended[x]
        /\ \A x \in OrderId : os[x].done <= os[x].qty
    BY <1>2, <1>4, <1>5, <2>1, PlacedOrders
  <2>3. os[o].done = 0 /\ os[w] = ended[w]
    BY <1>4, <1>5, <2>2
  <2> QED
    BY <2>1, <2>2, <2>3
<1>7. n \in EntryType /\ n.mine = {w, o} /\ n.known = entry.known /\ n.market = entry.market
      /\ n.work = w /\ n.lost = entry.lost
  BY <1>1, <1>3, <1>4 DEF EntryType
<1> HIDE DEF n
<1>8. w # None /\ o # None /\ (entry.lost # None => entry.lost = w)
  BY <1>1, <1>2, <1>3, <1>4, OrderIds DEF EntryAt
<1>9. CASE entry' = [n EXCEPT !.work = o, !.replaced = TRUE] /\ Go("patience2") /\ Faultless
  <2>1. PICK e : e = [n EXCEPT !.work = o, !.replaced = TRUE]
    OBVIOUS
  <2>2. e \in EntryType /\ e.mine = {w, o} /\ e.known = entry.known /\ e.market = entry.market
        /\ e.work = o /\ e.lost = entry.lost /\ e.replaced
    BY <1>4, <1>7, <2>1 DEF EntryType
  <2>3. EntryAt(e, "patience2")'
    BY <1>1, <1>2, <1>3, <1>4, <1>6, <1>8, <2>2, PlacedAt
  <2>4. OrdersAt(e, "patience2")'
    BY <1>1, <1>6, <2>2 DEF OrdersAt, Live
  <2> QED
    BY <1>1, <1>2, <1>6, <1>9, <2>1, <2>3, <2>4, OrdersStep DEF Go, Entering
<1>10. CASE entry' = [n EXCEPT !.lost = o] /\ Go("lookup2") /\ Fault
  <2>1. PICK e : e = [n EXCEPT !.lost = o]
    OBVIOUS
  <2>2. e \in EntryType /\ e.mine = {w, o} /\ e.known = entry.known /\ e.market = entry.market
        /\ e.work = w /\ e.lost = o
    BY <1>4, <1>7, <2>1 DEF EntryType
  <2>3. EntryAt(e, "lookup2")'
    BY <1>1, <1>2, <1>3, <1>4, <1>6, <1>8, <2>2, PlacedAt
  <2>4. OrdersAt(e, "lookup2")'
    BY <1>1, <1>6, <2>2 DEF OrdersAt, Live
  <2> QED
    BY <1>1, <1>2, <1>6, <1>10, <2>1, <2>3, <2>4, OrdersStep DEF Go, Entering
<1> QED
  BY <1>1, <1>9, <1>10 DEF Replace, n

(* The order that an entry works on comes to its end.                      *)
LEMMA WorkEnds ==
    ASSUME MakerInv, pc \in Working \ {"lookup2"}, orders' = Ended(orders, entry.work),
           base' = base, entry' = entry, Stay, Fault \/ Faultless,
           NEW next \in {"pending", "confirm", "recheck"}, pc' = next,
           pc \in {"adjust", "cancel"}
    PROVE  MakerInv'
<1>1. PICK e, w, os : e = entry /\ w = entry.work /\ os = orders'
  OBVIOUS
<1>2. pc \in Entering
  BY DEF Entering
<1>3. MakerTypes /\ e \in EntryType /\ EntryAt(e, pc) /\ w \in OrderId /\ w # None
      /\ e.mine \subseteq OrderId
  BY <1>1, <1>2, Underway DEF EntryAt, EntryType, Working
<1>4. /\ os \in [OrderId -> OrderType]
      /\ \A x \in OrderId : os[x].done = orders[x].done /\ os[x].live = (x # w /\ orders[x].live)
      /\ \A x \in OrderId : os[x].done <= os[x].qty
  BY <1>1, <1>3, EndedOrders
<1>5. EntryAt(e, next)'
  <2>1. EntryAt(e, next)
    BY <1>1, <1>3, SameAt
  <2>2. \A o \in e.mine : orders'[o].done = orders[o].done
    BY <1>1, <1>3, <1>4
  <2> QED
    BY <2>1, <2>2, KeptAt
<1>6. OrdersAt(e, next)'
  <2>1. e.mine \cap Live \subseteq {w} /\ (~e.replaced => e.mine = {w})
    BY <1>1, <1>2, Underway DEF OrdersAt
  <2> QED
    BY <1>1, <1>3, <1>4, <2>1 DEF OrdersAt, Live
<1> QED
  BY <1>1, <1>2, <1>4, <1>5, <1>6, OrdersStep DEF Entering

LEMMA ReplaceRefusedStep == ASSUME MakerInv, ReplaceRefused PROVE MakerInv'
BY WorkEnds DEF ReplaceRefused, Go, Working

LEMMA cancelOrderStep == ASSUME MakerInv, cancelOrder PROVE MakerInv'
<1>1. pc = "cancel" /\ pc \in Entering /\ Stay /\ entry' = entry /\ base' = base
  BY DEF cancelOrder, Entering
<1>2. CASE orders' = Ended(orders, entry.work)
           /\ ((Go("confirm") /\ Faultless) \/ (Go("recheck") /\ Fault))
  BY <1>1, <1>2, WorkEnds DEF Go, Working
<1>3. CASE UNCHANGED orders /\ Go("recheck") /\ (Fault \/ Faultless)
  <2>1. Reads(entry, "recheck")
    BY <1>1, <1>3 DEF Reads, Go, exchange
  <2>2. OrdersAt(entry, "recheck")
    BY <1>1, Underway DEF OrdersAt
  <2> QED
    BY <1>1, <1>3, <2>1, <2>2, NoNewsStep DEF Entering, Working
<1> QED
  BY <1>2, <1>3 DEF cancelOrder, Fault, Faultless

-----------------------------------------------------------------------------
(* The entry, step by step: how it ends.                                   *)
LEMMA SubmitRefusedStep == ASSUME MakerInv, SubmitRefused PROVE MakerInv'
BY EntryFailsStep DEF SubmitRefused, Entering, exchange, MakerInv, MakerTypes

LEMMA SubmitNotRecoveredStep == ASSUME MakerInv, SubmitNotRecovered PROVE MakerInv'
BY EntryFailsStep DEF SubmitNotRecovered, Entering, exchange, MakerInv, MakerTypes, Fault, Faultless

LEMMA RecoverPendingFailsStep == ASSUME MakerInv, RecoverPendingFails PROVE MakerInv'
BY EntryFailsStep DEF RecoverPendingFails, Entering, exchange, MakerInv, MakerTypes

(* Only the pending order is counted: what it filled, and nothing of the   *)
(* entry's other orders.                                                   *)
LEMMA RecoverPendingStep == ASSUME MakerInv, RecoverPending PROVE MakerInv'
<1> DEFINE zero == NewEntry("limit").known
           f == [entry EXCEPT !.known = zero]
           e == settleMakerOrder(f, entry.work)
<1>1. pc = "pending" /\ pc \in Entering /\ Faultless
      /\ IF Counted(e) > 0 THEN Reads(e, "flatten") /\ Stay ELSE EntryFails /\ UNCHANGED exchange
  BY DEF RecoverPending, Entering
<1>2. MakerTypes /\ entry \in EntryType /\ EntryAt(entry, pc)
  BY <1>1, Underway
<1>3. entry.work \in OrderId /\ entry.work \in entry.mine /\ entry.market = 0
  BY <1>1, <1>2 DEF EntryAt, EntryType, Working
<1>4. zero \in [OrderId -> Nat] /\ \A o \in OrderId : zero[o] = 0
  BY DEF NewEntry
<1> HIDE DEF zero
<1>5. f \in EntryType /\ f.known = zero /\ f.mine = entry.mine /\ f.market = entry.market
      /\ f.work = entry.work /\ f.lost = entry.lost
  BY <1>2, <1>4 DEF EntryType
<1> HIDE DEF f
<1>6. orders[entry.work].done \in Nat
  <2>1. orders[entry.work] \in OrderType
    BY <1>2, <1>3 DEF MakerTypes
  <2> QED
    BY <2>1, MakerAssumption DEF OrderType
<1>7. e \in EntryType /\ e.known = [zero EXCEPT ![entry.work] = orders[entry.work].done]
      /\ e.mine = entry.mine /\ e.market = 0 /\ e.work = entry.work /\ e.lost = entry.lost
  <2>1. PICK w, d, b : w = entry.work /\ d = orders[entry.work].done /\ b = (entry.work \in Live)
    OBVIOUS
  <2>2. e = [f EXCEPT !.known = [zero EXCEPT ![w] = d], !.seen = b]
    BY <1>5, <2>1 DEF settleMakerOrder, isActiveExchangeOrderStatus, EntryType
  <2>3. [zero EXCEPT ![w] = d] \in [OrderId -> Nat] /\ b \in BOOLEAN
    BY <1>3, <1>4, <1>6, <2>1
  <2> QED
    BY <1>3, <1>5, <2>1, <2>2, <2>3 DEF EntryType
<1> HIDE DEF e
<1>8. CASE Counted(e) > 0
  <2>1. EntryAt(e, "flatten")
    <3>1. Filled(e) = Filled(entry)
      BY <1>7 DEF Filled
    <3>2. \A o \in OrderId : e.known[o] <= Filled(e)[o]
      <4>1. \A o \in OrderId : Filled(entry)[o] \in Nat
        BY <1>2, FilledType
      <4>2. Filled(entry)[entry.work] = orders[entry.work].done
        BY <1>3 DEF Filled
      <4> QED
        BY <1>3, <1>4, <1>6, <1>7, <3>1, <4>1, <4>2
    <3>3. entry.lost # None => entry.lost \in entry.mine
      BY <1>2 DEF EntryAt
    <3> QED
      BY <1>2, <1>3, <1>7, <1>8, <3>1, <3>2, <3>3 DEF EntryAt, Working
  <2>2. OrdersAt(e, "flatten")
    BY DEF OrdersAt
  <2> QED
    BY <1>1, <1>8, <2>1, <2>2, ReadsStep DEF Entering
<1>9. CASE ~(Counted(e) > 0)
  BY <1>1, <1>2, <1>9, EntryFailsStep DEF exchange, MakerTypes
<1> QED
  BY <1>8, <1>9

(* What the entry knows, when it is to be protected or sold.               *)
LEMMA ProtectedAt ==
    ASSUME MakerTypes, NEW e, NEW place, EntryAt(e, place), Counted(e) > 0,
           NEW next \in {"protect", "flatten"}
    PROVE  EntryAt(e, next)
BY DEF EntryAt, Working

LEMMA EnoughStep == ASSUME MakerInv, Enough PROVE MakerInv'
<1>1. pc = "fallback" /\ pc \in Entering /\ Counted(entry) # 0 /\ Faultless
      /\ Reads(entry, "protect") /\ Stay
  BY DEF Enough, MustFallBack, Entering
<1>2. MakerTypes /\ EntryAt(entry, pc) /\ OrdersAt(entry, pc)
  BY <1>1, Underway
<1>3. Counted(entry) > 0
  BY <1>1, <1>2, CountedHeld DEF MakerTypes
<1>4. EntryAt(entry, "protect")
  BY <1>2, <1>3, ProtectedAt
<1>5. OrdersAt(entry, "protect")
  BY <1>1, <1>2 DEF OrdersAt
<1> QED
  BY <1>1, <1>4, <1>5, ReadsStep DEF Entering

LEMMA ProtectionFailsStep == ASSUME MakerInv, ProtectionFails PROVE MakerInv'
<1>1. pc = "protect" /\ pc \in Entering /\ Fault /\ Reads(entry, "flatten") /\ Stay
  BY DEF ProtectionFails, Entering
<1>2. MakerTypes /\ EntryAt(entry, pc)
  BY <1>1, Underway
<1>3. EntryAt(entry, "flatten")
  BY <1>1, <1>2, ProtectedAt DEF EntryAt
<1>4. OrdersAt(entry, "flatten")
  BY DEF OrdersAt
<1> QED
  BY <1>1, <1>3, <1>4, ReadsStep DEF Entering

(* The market buy brings what it is counted for.                           *)
LEMMA MarketBuyStep == ASSUME MakerInv, MarketBuy PROVE MakerInv'
<1>1. PICK e, m : e = entry' /\ m = Lot - Counted(entry)
  OBVIOUS
<1>2. pc = "fallback" /\ pc \in Entering /\ Counted(entry) < Lot /\ base' = base + m
      /\ e = [entry EXCEPT !.market = m] /\ (Fault \/ Faultless) /\ pc' = "protect"
      /\ Stay /\ orders' = orders
  BY <1>1 DEF MarketBuy, MayFallBack, Go, Entering, Fault, Faultless
<1>3. MakerTypes /\ entry \in EntryType /\ EntryAt(entry, pc) /\ OrdersAt(entry, pc)
      /\ base \in Nat /\ entry.market = 0
  BY <1>2, Underway DEF EntryAt, MakerTypes
<1>4. /\ Counted(entry) = Total(entry.known) /\ Counted(entry) \in Nat
      /\ Total(Filled(entry)) \in Nat /\ Total(Filled(entry)) <= base
  <2>1. /\ Total(entry.known) \in Nat /\ Total(Filled(entry)) \in Nat
        /\ Counted(entry) = Total(entry.known) + entry.market
        /\ Counted(entry) \in 0..base
    BY <1>3, CountedHeld
  <2>2. Total(Filled(entry)) + entry.market <= base
    BY <1>3 DEF EntryAt
  <2> QED
    BY <1>3, <2>1, <2>2
<1>5. m \in Nat /\ m > 0 /\ Counted(entry) + m = Lot
  BY <1>1, <1>2, <1>4, MakerAssumption
<1>6. e \in EntryType /\ e.mine = entry.mine /\ e.known = entry.known /\ e.market = m
      /\ e.work = entry.work /\ e.lost = entry.lost /\ e.looked = entry.looked
      /\ e.replaced = entry.replaced
  BY <1>2, <1>3, <1>5 DEF EntryType
<1>7. Filled(e) = Filled(entry) /\ Filled(e)' = Filled(e)
  BY <1>2, <1>6 DEF Filled
<1>8. Counted(e) > 0
  <2>1. Counted(e) = Total(entry.known) + m
    BY <1>6, CountedIs
  <2> QED
    BY <1>4, <1>5, <2>1
<1>9. EntryAt(e, "protect")'
  <2>1. Total(Filled(e)) + e.market <= base'
    BY <1>2, <1>3, <1>4, <1>5, <1>6, <1>7
  <2> QED
    BY <1>3, <1>6, <1>7, <1>8, <2>1 DEF EntryAt, Working
<1>10. OrdersAt(e, "protect")'
  BY <1>2, <1>3, <1>6 DEF OrdersAt, KnowsAll, Live
<1>11. UNCHANGED <<pos, intent, snap, conflict, recover, boot, entries, crashes>> /\ pos = NoPos
  BY <1>2, Underway DEF Stay
<1>12. base' \in Nat
  BY <1>2, <1>3, <1>5
<1>13. MakerTypes'
  BY <1>2, <1>3, <1>11, <1>12, FaultsBounded DEF MakerTypes, Waiting
<1>14. ReadingsOK'
  BY <1>2, <1>11 DEF ReadingsOK, Judging
<1>15. EntryOK'
  BY <1>1, <1>2, <1>9, <1>11 DEF EntryOK, Entering
<1>16. OrdersOK'
  BY <1>1, <1>2, <1>10 DEF OrdersOK, OrdersAt, KnowsAll, Live
<1>17. NeverOverclaims'
  BY <1>11 DEF NeverOverclaims
<1> QED
  BY <1>13, <1>14, <1>15, <1>16, <1>17 DEF MakerInv

(* The account may have more than is known, never less.                    *)
LEMMA MarketBuyFailsStep == ASSUME MakerInv, MarketBuyFails PROVE MakerInv'
<1>1. pc = "fallback" /\ pc \in Entering /\ Counted(entry) < Lot /\ Fault /\ orders' = orders
      /\ base' \in {base, base + Lot - Counted(entry)}
  BY DEF MarketBuyFails, MayFallBack, Entering
<1>2. MakerTypes /\ entry \in EntryType /\ EntryAt(entry, pc) /\ base \in Nat
  BY <1>1, Underway DEF MakerTypes
<1>3. Counted(entry) \in 0..base /\ Total(Filled(entry)) \in Nat
  BY <1>2, CountedHeld
<1>4. base' \in Nat /\ base' >= base
  BY <1>1, <1>2, <1>3, MakerAssumption
<1>5. CASE Counted(entry) > 0 /\ pc' = "flatten" /\ Stay /\ UNCHANGED entry
  <2>1. PICK e : e = entry
    OBVIOUS
  <2>2. UNCHANGED <<pos, intent, snap, conflict, recover, boot, entries, crashes>> /\ pos = NoPos
    BY <1>1, <1>5, Underway DEF Stay
  <2>3. Filled(e)' = Filled(e)
    BY <1>1 DEF Filled
  <2>4. EntryAt(e, "flatten") /\ e \in EntryType
    BY <1>2, <1>5, <2>1, ProtectedAt
  <2>5. EntryAt(e, "flatten")'
    <3>1. e.market \in Nat
      BY <2>4 DEF EntryType
    <3>2. Total(Filled(e)) + e.market <= base'
      BY <1>2, <1>3, <1>4, <2>1, <2>4, <3>1 DEF EntryAt
    <3> QED
      BY <2>3, <2>4, <3>2 DEF EntryAt
  <2>6. MakerTypes'
    BY <1>1, <1>2, <1>4, <1>5, <2>2, FaultsBounded DEF MakerTypes, Waiting
  <2>7. ReadingsOK'
    BY <1>5 DEF ReadingsOK, Judging
  <2>8. EntryOK'
    BY <1>5, <2>1, <2>2, <2>5 DEF EntryOK, Entering
  <2>9. OrdersOK'
    BY <1>5 DEF OrdersOK, OrdersAt
  <2>10. NeverOverclaims'
    BY <2>2 DEF NeverOverclaims
  <2> QED
    BY <2>6, <2>7, <2>8, <2>9, <2>10 DEF MakerInv
<1>6. CASE EntryFails
  BY <1>1, <1>4, <1>6, EntryFailsStep
<1> QED
  BY <1>5, <1>6 DEF MarketBuyFails, Go

(* What is to be protected or sold is there.                               *)
LEMMA Protected ==
    ASSUME MakerInv, pc \in {"protect", "flatten"}
    PROVE  /\ base \in Nat /\ Counted(entry) \in Nat \ {0} /\ Counted(entry) <= base
           /\ pc \in Entering
<1>1. pc \in Entering
  BY DEF Entering
<1>2. MakerTypes /\ EntryAt(entry, pc)
  BY <1>1, Underway
<1> QED
  BY <1>1, <1>2, CountedHeld DEF MakerTypes, EntryAt

LEMMA HeldIs ==
    ASSUME NEW q \in Nat \ {0}
    PROVE  /\ Held(q) \in PositionType /\ Held(q).qty = q /\ ~Held(q).flagged
           /\ [Held(q) EXCEPT !.flagged = TRUE] \in PositionType
           /\ [Held(q) EXCEPT !.flagged = TRUE].flagged
BY DEF Held, PositionType

LEMMA PositionOpenedStep == ASSUME MakerInv, PositionOpened PROVE MakerInv'
<1>1. pc = "protect" /\ Faultless /\ EntryEnds(Held(Counted(entry)), "none")
      /\ base' = base /\ orders' = orders
  BY DEF PositionOpened, exchange
<1>2. PICK q : q = Counted(entry)
  OBVIOUS
<1>3. base \in Nat /\ q \in Nat \ {0} /\ q <= base /\ pc \in Entering
  BY <1>1, <1>2, Protected
<1>4. PICK p : p = Held(q)
  OBVIOUS
<1>5. p \in PositionType /\ p.qty = q
  BY <1>3, <1>4, HeldIs
<1> QED
  BY <1>1, <1>2, <1>3, <1>4, <1>5, EntryEndsStep

LEMMA FlattenedStep == ASSUME MakerInv, Flattened PROVE MakerInv'
<1>1. pc = "flatten" /\ Faultless /\ EntryEnds(NoPos, "ambiguous")
      /\ base' = base - Counted(entry) /\ orders' = orders
  BY DEF Flattened
<1>2. base' \in Nat /\ pc \in Entering
  BY <1>1, Protected
<1>3. NoPos \in PositionType
  BY DEF PositionType
<1> QED
  BY <1>1, <1>2, <1>3, EntryEndsStep

LEMMA FlattenFailsStep == ASSUME MakerInv, FlattenFails PROVE MakerInv'
<1>1. PICK q, p : q = Counted(entry) /\ p = [Held(q) EXCEPT !.flagged = TRUE]
  OBVIOUS
<1>2. pc = "flatten" /\ Fault /\ EntryEnds(p, "ambiguous") /\ orders' = orders
      /\ \E n \in 0..q : base' = base - n
  BY <1>1 DEF FlattenFails
<1>3. base' \in Nat /\ pc \in Entering /\ q \in Nat \ {0}
  BY <1>1, <1>2, Protected
<1>4. p \in PositionType /\ p.flagged
  BY <1>1, <1>3, HeldIs
<1> QED
  BY <1>2, <1>3, <1>4, EntryEndsStep

-----------------------------------------------------------------------------
(* The exchange fills an order.                                            *)
LEMMA FillStep == ASSUME MakerInv, Fill PROVE MakerInv'
<1>1. PICK o \in Live : \E n \in 1..(orders[o].qty - orders[o].done) :
         /\ orders' = [orders EXCEPT ![o].done = @ + n,
                                     ![o].live = orders[o].done + n < orders[o].qty]
         /\ base' = base + n
  BY DEF Fill
<1>2. PICK n \in 1..(orders[o].qty - orders[o].done) :
         /\ orders' = [orders EXCEPT ![o].done = @ + n,
                                     ![o].live = orders[o].done + n < orders[o].qty]
         /\ base' = base + n
  BY <1>1
<1>3. UNCHANGED <<pos, intent, pc, entry, snap, conflict, recover, boot, entries, faults, crashes>>
  BY DEF Fill, counters
<1>4. PICK os, d, q : os = orders' /\ d = orders[o].done /\ q = orders[o].qty
  OBVIOUS
<1>5. o \in OrderId /\ orders[o].live /\ orders \in [OrderId -> OrderType]
      /\ orders[o] \in OrderType /\ MakerTypes /\ base \in Nat
  BY DEF MakerInv, MakerTypes, Live
<1>6. d \in Nat /\ q \in Nat /\ q <= Lot /\ n \in Nat /\ n >= 1 /\ d + n <= q
  <2>1. d \in 0..Lot /\ q \in 0..Lot
    BY <1>4, <1>5 DEF OrderType
  <2>2. n \in 1..(q - d)
    BY <1>2, <1>4
  <2> QED
    BY <2>1, <2>2, MakerAssumption
<1>7. PICK r : r = [orders[o] EXCEPT !.done = d + n, !.live = d + n < q]
  OBVIOUS
<1>8. r \in OrderType /\ r.done = d + n /\ r.qty = q
  <2>1. d + n \in 0..Lot
    BY <1>6, MakerAssumption
  <2>2. PICK b : b = (d + n < q)
    OBVIOUS
  <2>3. b \in BOOLEAN /\ r = [orders[o] EXCEPT !.done = d + n, !.live = b]
    BY <1>7, <2>2
  <2> QED
    BY <1>4, <1>5, <2>1, <2>3 DEF OrderType
<1>9. os = [orders EXCEPT ![o] = r]
  BY <1>2, <1>4, <1>5, <1>7
<1>10. /\ os \in [OrderId -> OrderType] /\ os[o].done = d + n /\ os[o].done <= os[o].qty
       /\ \A x \in OrderId \ {o} : os[x] = orders[x]
  BY <1>5, <1>6, <1>8, <1>9
<1>11. Live' \subseteq Live
  BY <1>4, <1>5, <1>10 DEF Live
<1>12. base' \in Nat /\ base <= base'
  BY <1>2, <1>5, <1>6
<1>13. MakerTypes'
  BY <1>3, <1>4, <1>5, <1>10, <1>12 DEF MakerTypes
<1>14. ReadingsOK'
  <2>1. ReadingsOK
    BY DEF MakerInv
  <2>2. pc \in Judging \cup {"scan"} => snap' \in SnapType /\ (snap'.fresh1 => Live' \subseteq snap'.open1)
    BY <1>3, <1>11, <2>1 DEF ReadingsOK
  <2>3. pc \in Judging => snap'.base <= base' /\ snap'.base1 <= base'
    BY <1>3, <1>5, <1>12, <2>1, <2>2 DEF ReadingsOK, SnapType
  <2>4. pc = "submit" /\ snap'.fresh1 => Live' = {}
    BY <1>3, <1>11, <2>1 DEF ReadingsOK
  <2> QED
    BY <1>3, <2>1, <2>2, <2>3, <2>4 DEF ReadingsOK
<1>15. EntryOK' /\ OrdersOK'
  <2>1. CASE pc \notin Entering
    BY <1>3, <2>1 DEF MakerInv, EntryOK, OrdersOK, OrdersAt, Entering
  <2>2. CASE pc \in Entering
    <3>1. PICK e : e = entry
      OBVIOUS
    <3>2. /\ e \in EntryType /\ EntryAt(e, pc) /\ OrdersAt(e, pc) /\ pos = NoPos
          /\ e.mine \subseteq OrderId
      BY <2>2, <3>1, Underway DEF EntryType
    <3>3. PICK f, g : f = Filled(e) /\ g = Filled(e)'
      OBVIOUS
    <3>4. f \in [OrderId -> Nat] /\ g \in [OrderId -> Nat]
      BY <1>5, <3>3, FilledType, <1>13 DEF Filled, MakerTypes, OrderType
    <3>5. g = f \/ g = [f EXCEPT ![o] = @ + n]
      <4>1. CASE o \in e.mine
        <5>1. f[o] = d
          BY <1>4, <1>5, <3>3, <4>1 DEF Filled
        <5>2. g[o] = f[o] + n
          BY <1>4, <1>5, <1>10, <3>3, <4>1, <5>1 DEF Filled
        <5>3. \A x \in OrderId \ {o} : g[x] = f[x]
          BY <1>4, <1>10, <3>3 DEF Filled
        <5>4. PICK h : h = [f EXCEPT ![o] = f[o] + n]
          OBVIOUS
        <5>5. h \in [OrderId -> Nat] /\ \A x \in OrderId : g[x] = h[x]
          BY <1>5, <1>6, <3>4, <5>2, <5>3, <5>4
        <5>6. g = h
          BY <3>4, <5>5
        <5> QED
          BY <5>4, <5>6
      <4>2. CASE o \notin e.mine
        <5>1. \A x \in OrderId : g[x] = f[x]
          BY <1>4, <1>10, <3>3, <4>2 DEF Filled
        <5> QED
          BY <3>4, <5>1
      <4> QED
        BY <4>1, <4>2
    <3>6. /\ Total(f) \in Nat /\ Total(g) \in Nat /\ Total(g) <= Total(f) + n
      <4>1. Total(f) \in Nat /\ Total(g) \in Nat
        BY <3>4, SumsType, TotalMono
      <4>2. g = [f EXCEPT ![o] = @ + n] => Total(g) = Total(f) + n
        <5>1. Total([f EXCEPT ![o] = @ + n]) = Total(f) + n
          BY <1>5, <1>6, <3>4, TotalAdd
        <5> QED
          BY <5>1
      <4> QED
        BY <1>6, <3>5, <4>1, <4>2
    <3>7. \A x \in OrderId : f[x] <= g[x]
      BY <1>5, <1>6, <3>4, <3>5
    <3>8. EntryAt(e, pc)'
      <4>1. Total(f) + e.market <= base /\ e.market \in Nat /\ \A x \in OrderId : e.known[x] <= f[x]
        BY <3>2, <3>3 DEF EntryAt, EntryType
      <4>2. Total(g) + e.market <= base'
        BY <1>2, <1>5, <1>6, <3>6, <4>1
      <4>3. \A x \in OrderId : e.known[x] <= g[x]
        <5> SUFFICES ASSUME NEW x \in OrderId PROVE e.known[x] <= g[x]
          OBVIOUS
        <5>1. e.known[x] \in Nat /\ f[x] \in Nat /\ g[x] \in Nat
          BY <3>2, <3>4 DEF EntryType
        <5> QED
          BY <3>7, <4>1, <5>1
      <4> QED
        BY <1>3, <3>2, <3>3, <4>2, <4>3 DEF EntryAt
    <3>9. \A x \in OrderId : x \notin Live => orders'[x] = orders[x]
      BY <1>4, <1>10
    <3>10. OrdersAt(e, pc)'
      <4>1. e.mine \cap Live = {} /\ KnowsAll(e) => KnowsAll(e)'
        BY <3>2, <3>9 DEF KnowsAll
      <4>2. e.work # None => e.work \in OrderId
        BY <3>2 DEF EntryType
      <4>3. pc = "cancel" => e.work # None
        BY <3>2 DEF EntryAt, Working
      <4>4. pc = "cancel" /\ ~e.seen =>
               e.work \notin Live' /\ e.known[e.work] = orders'[e.work].done
        BY <1>11, <3>2, <3>9, <4>2, <4>3 DEF OrdersAt
      <4> QED
        BY <1>3, <1>11, <3>2, <4>1, <4>4 DEF OrdersAt
    <3> QED
      BY <1>3, <2>2, <3>1, <3>2, <3>8, <3>10 DEF EntryOK, OrdersOK, EntryAt, OrdersAt, Filled, KnowsAll, Live
  <2> QED
    BY <2>1, <2>2
<1>16. NeverOverclaims'
  BY <1>3, <1>5, <1>12 DEF NeverOverclaims, MakerInv, MakerTypes, PositionType, NoPos
<1> QED
  BY <1>13, <1>14, <1>15, <1>16 DEF MakerInv

-----------------------------------------------------------------------------
(* The reconcile: nothing of an entry is there.                            *)
LEMMA NoEntryStep ==
    ASSUME MakerInv, pc \notin Entering, pc' \notin Entering, UNCHANGED entry,
           MakerTypes', ReadingsOK', NeverOverclaims'
    PROVE  MakerInv'
BY DEF MakerInv, EntryOK, OrdersOK, OrdersAt, Entering

(* What a step of the reconcile has at hand.                               *)
LEMMA AtHand ==
    ASSUME MakerInv, pc \in Judging
    PROVE  /\ MakerTypes /\ ReadingsOK /\ snap \in SnapType /\ pc \notin Entering
           /\ snap.base \in Nat /\ snap.base1 \in Nat /\ snap.base <= base /\ snap.base1 <= base
           /\ base \in Nat /\ pos \in PositionType
           /\ snap.fresh1 => Live \subseteq snap.open1
           /\ pc = "judge" => pos # NoPos
BY DEF MakerInv, MakerTypes, ReadingsOK, SnapType, Judging, Entering

LEMMA ReadAccountStep == ASSUME MakerInv, ReadAccount PROVE MakerInv'
<1>1. /\ pc \in {"idle", "boot"} /\ Faultless /\ pc' = "orders" /\ boot' = (pc = "boot")
      /\ snap' = [try |-> 1, base |-> base, open |-> {}, fresh |-> FALSE,
                  base1 |-> base, open1 |-> {}, fresh1 |-> FALSE, todo |-> {}]
      /\ UNCHANGED <<base, orders, pos, intent, conflict, entry, recover, entries, crashes>>
  BY DEF ReadAccount, Go, Quiet, exchange
<1>2. base \in Nat
  BY DEF MakerInv, MakerTypes
<1>3. snap' \in SnapType
  BY <1>1, <1>2 DEF SnapType
<1>4. MakerTypes'
  BY <1>1, FaultsBounded DEF MakerInv, MakerTypes, Waiting
<1>5. ReadingsOK'
  BY <1>1, <1>2, <1>3 DEF ReadingsOK, Judging
<1>6. NeverOverclaims'
  BY <1>1 DEF MakerInv, NeverOverclaims
<1> QED
  BY <1>1, <1>4, <1>5, <1>6, NoEntryStep DEF Entering

LEMMA AccountUnreadableStep == ASSUME MakerInv, AccountUnreadable PROVE MakerInv'
<1>1. /\ pc \in {"idle", "boot", "orders"} /\ Fault /\ pc' \in {"down", "idle"} /\ boot' = FALSE
      /\ UNCHANGED <<base, orders, pos, intent, conflict, entry, recover, entries, crashes>>
  BY DEF AccountUnreadable, Go, Quiet, exchange
<1>2. MakerTypes'
  BY <1>1, FaultsBounded DEF MakerInv, MakerTypes, Waiting
<1>3. ReadingsOK'
  BY <1>1 DEF ReadingsOK, Judging
<1>4. NeverOverclaims'
  BY <1>1 DEF MakerInv, NeverOverclaims
<1> QED
  BY <1>1, <1>2, <1>3, <1>4, NoEntryStep DEF Entering

LEMMA ReadOrdersStep == ASSUME MakerInv, ReadOrders PROVE MakerInv'
<1>1. /\ pc = "orders" /\ Faultless
      /\ UNCHANGED <<base, orders, pos, intent, conflict, boot, entry, recover, entries, crashes>>
  BY DEF ReadOrders, Quiet, exchange
<1>2. /\ MakerTypes /\ ReadingsOK /\ snap \in SnapType /\ pc \notin Entering
  BY <1>1, AtHand DEF Judging
<1>3. Live' = Live /\ Live \subseteq OrderId /\ Unfilled \subseteq OrderId
  BY <1>1 DEF Live, Unfilled
<1>4. /\ pc' \in {"judge", "sweep"} /\ (pc' = "judge" => pos # NoPos)
      /\ snap' \in SnapType /\ snap'.base = snap.base /\ snap'.base1 = snap.base1
      /\ snap'.fresh1 => Live \subseteq snap'.open1
  <2>1. CASE snap.try > 1
    <3>1. snap' = [snap EXCEPT !.open = Live, !.fresh = TRUE] /\ pc' = "judge"
      BY <2>1 DEF ReadOrders, Go
    <3>2. snap' \in SnapType /\ snap'.base = snap.base /\ snap'.base1 = snap.base1
          /\ snap'.fresh1 = snap.fresh1 /\ snap'.open1 = snap.open1
      BY <1>2, <1>3, <3>1 DEF SnapType
    <3> QED
      BY <1>1, <1>2, <2>1, <3>1, <3>2 DEF ReadingsOK, Judging
  <2>2. CASE ~(snap.try > 1)
    <3>1. PICK t : t = IF Blocking /\ snap.base1 = 0 THEN Unfilled ELSE {}
      OBVIOUS
    <3>2. snap' = [snap EXCEPT !.open = Live, !.fresh = TRUE, !.open1 = Live,
                               !.fresh1 = TRUE, !.todo = t] /\ pc' = "sweep"
      BY <2>2, <3>1 DEF ReadOrders, Go
    <3>3. t \subseteq OrderId
      BY <1>3, <3>1
    <3>4. snap' \in SnapType /\ snap'.base = snap.base /\ snap'.base1 = snap.base1
          /\ snap'.open1 = Live
      BY <1>2, <1>3, <3>2, <3>3 DEF SnapType
    <3> QED
      BY <3>2, <3>4
  <2> QED
    BY <2>1, <2>2
<1>5. MakerTypes'
  BY <1>1, <1>2, <1>4, FaultsBounded DEF MakerTypes, Waiting
<1>6. ReadingsOK'
  BY <1>1, <1>2, <1>3, <1>4 DEF ReadingsOK, Judging
<1>7. NeverOverclaims'
  BY <1>1 DEF MakerInv, NeverOverclaims
<1> QED
  BY <1>1, <1>2, <1>4, <1>5, <1>6, <1>7, NoEntryStep DEF Entering

LEMMA ReadOrdersFailsStep == ASSUME MakerInv, ReadOrdersFails PROVE MakerInv'
<1>1. /\ pc = "orders" /\ Fault
      /\ UNCHANGED <<base, orders, pos, intent, conflict, boot, entry, recover, entries, crashes>>
  BY DEF ReadOrdersFails, Quiet, exchange
<1>2. /\ MakerTypes /\ ReadingsOK /\ snap \in SnapType /\ pc \notin Entering
  BY <1>1, AtHand DEF Judging
<1>3. Live' = Live /\ Live \subseteq OrderId
  BY <1>1 DEF Live
<1>4. PICK told \in {{}, Live} :
        snap' = IF snap.try > 1 THEN [snap EXCEPT !.open = told, !.fresh = FALSE]
                ELSE [snap EXCEPT !.open = told, !.open1 = told]
  BY DEF ReadOrdersFails
<1>5. told \subseteq OrderId
  BY <1>3
<1>6. /\ pc' \in {"judge", "sweep"} /\ (pc' = "judge" => pos # NoPos)
      /\ snap' \in SnapType /\ snap'.base = snap.base /\ snap'.base1 = snap.base1
      /\ snap'.fresh1 => Live \subseteq snap'.open1
  <2>1. CASE snap.try > 1
    <3>1. snap' = [snap EXCEPT !.open = told, !.fresh = FALSE] /\ pc' = "judge"
      BY <1>4, <2>1 DEF ReadOrdersFails, Go
    <3>2. snap' \in SnapType /\ snap'.base = snap.base /\ snap'.base1 = snap.base1
          /\ snap'.fresh1 = snap.fresh1 /\ snap'.open1 = snap.open1
      BY <1>2, <1>5, <3>1 DEF SnapType
    <3> QED
      BY <1>1, <1>2, <2>1, <3>1, <3>2 DEF ReadingsOK, Judging
  <2>2. CASE ~(snap.try > 1)
    <3>1. snap' = [snap EXCEPT !.open = told, !.open1 = told] /\ pc' = "sweep"
      BY <1>4, <2>2 DEF ReadOrdersFails, Go
    <3>2. snap' \in SnapType /\ snap'.base = snap.base /\ snap'.base1 = snap.base1
          /\ snap'.fresh1 = snap.fresh1
      BY <1>2, <1>5, <3>1 DEF SnapType
    <3>3. snap.try \in Nat \ {0}
      BY <1>2 DEF SnapType
    <3>4. ~snap.fresh1
      BY <1>1, <1>2, <2>2, <3>3 DEF ReadingsOK
    <3> QED
      BY <3>1, <3>2, <3>4
  <2> QED
    BY <2>1, <2>2
<1>7. MakerTypes'
  BY <1>1, <1>2, <1>6, FaultsBounded DEF MakerTypes, Waiting
<1>8. ReadingsOK'
  BY <1>1, <1>2, <1>3, <1>6 DEF ReadingsOK, Judging
<1>9. NeverOverclaims'
  BY <1>1 DEF MakerInv, NeverOverclaims
<1> QED
  BY <1>1, <1>2, <1>6, <1>7, <1>8, <1>9, NoEntryStep DEF Entering

(* An order that is canceled, or turns out to be over, is no longer among  *)
(* those that were read; it is not live either.                            *)
LEMMA SweepOrderStep == ASSUME MakerInv, SweepOrder PROVE MakerInv'
<1>1. /\ pc = "sweep" /\ pc' = "sweep" /\ snap.todo # {}
      /\ UNCHANGED <<base, pos, conflict, boot, entry, recover, entries, crashes>>
  BY DEF SweepOrder, Quiet
<1>2. /\ MakerTypes /\ ReadingsOK /\ snap \in SnapType /\ pc \notin Entering
      /\ orders \in [OrderId -> OrderType]
      /\ (snap.fresh1 => Live \subseteq snap.open1)
  BY <1>1, AtHand DEF Judging, MakerTypes
<1>3. PICK o, ended : o = Min(snap.todo) /\ ended = Ended(orders, o)
  OBVIOUS
<1>4. o \in OrderId
  <2>1. snap.todo \subseteq OrderId /\ snap.todo \subseteq Nat
    BY <1>2, OrderIds DEF SnapType
  <2> QED
    BY <1>1, <1>3, <2>1, MinOfNats
<1>5. /\ ended \in [OrderId -> OrderType]
      /\ \A x \in OrderId : ended[x].done <= ended[x].qty
      /\ \A x \in OrderId : ended[x].live = (x # o /\ orders[x].live)
  BY <1>2, <1>3, <1>4, EndedOrders
<1>6. /\ (Fault \/ Faultless) /\ orders' \in {orders, ended} /\ intent' \in {"none", intent}
      /\ snap' \in {Swept(o), [snap EXCEPT !.todo = @ \ {o}]}
      /\ snap' = Swept(o) => orders' = ended \/ snap' = [snap EXCEPT !.todo = @ \ {o}]
  BY <1>3 DEF SweepOrder, Fault, Faultless
<1>7. Live' \subseteq Live /\ (orders' = ended => Live' \subseteq Live \ {o})
  BY <1>5, <1>6 DEF Live
<1>8. /\ snap' \in SnapType /\ snap'.base = snap.base /\ snap'.base1 = snap.base1
      /\ snap'.fresh1 => Live' \subseteq snap'.open1
  <2>1. CASE snap' = [snap EXCEPT !.todo = @ \ {o}]
    <3>1. snap' \in SnapType /\ snap'.base = snap.base /\ snap'.base1 = snap.base1
          /\ snap'.fresh1 = snap.fresh1 /\ snap'.open1 = snap.open1
      BY <1>2, <2>1 DEF SnapType
    <3> QED
      BY <1>2, <1>7, <3>1
  <2>2. CASE snap' = Swept(o) /\ orders' = ended
    <3>1. snap' \in SnapType /\ snap'.base = snap.base /\ snap'.base1 = snap.base1
          /\ snap'.fresh1 = snap.fresh1 /\ snap'.open1 = snap.open1 \ {o}
      BY <1>2, <2>2 DEF SnapType, Swept
    <3> QED
      BY <1>2, <1>7, <2>2, <3>1
  <2> QED
    BY <1>6, <2>1, <2>2
<1>9. MakerTypes'
  BY <1>1, <1>2, <1>5, <1>6, FaultsBounded DEF MakerTypes, Waiting
<1>10. ReadingsOK'
  BY <1>1, <1>2, <1>8 DEF ReadingsOK, Judging
<1>11. NeverOverclaims'
  BY <1>1 DEF MakerInv, NeverOverclaims
<1> QED
  BY <1>1, <1>2, <1>9, <1>10, <1>11, NoEntryStep DEF Entering

LEMMA SweepDoneStep == ASSUME MakerInv, SweepDone PROVE MakerInv'
<1>1. /\ pc = "sweep" /\ pc' \in {"untracked", "judge"} /\ (pc' = "judge" => pos # NoPos)
      /\ Faultless
      /\ UNCHANGED <<base, orders, pos, intent, snap, conflict, boot, entry, recover, entries, crashes>>
  BY DEF SweepDone, Go, Quiet, exchange
<1>2. MakerTypes /\ ReadingsOK
  BY DEF MakerInv
<1>3. MakerTypes'
  BY <1>1, <1>2, FaultsBounded DEF MakerTypes, Waiting
<1>4. ReadingsOK'
  BY <1>1, <1>2 DEF ReadingsOK, Judging, Live
<1>5. NeverOverclaims'
  BY <1>1 DEF MakerInv, NeverOverclaims
<1> QED
  BY <1>1, <1>3, <1>4, <1>5, NoEntryStep DEF Entering

LEMMA RetrySnapshotStep == ASSUME MakerInv, RetrySnapshot PROVE MakerInv'
<1>1. /\ pc = "judge" /\ pc' = "orders" /\ Faultless
      /\ snap' = [snap EXCEPT !.try = @ + 1, !.base = base]
      /\ UNCHANGED <<base, orders, pos, intent, conflict, boot, entry, recover, entries, crashes>>
  BY DEF RetrySnapshot, Go, Quiet, exchange
<1>2. MakerTypes /\ ReadingsOK /\ snap \in SnapType /\ base \in Nat /\ pos # NoPos
      /\ snap.base1 <= base
  BY <1>1, AtHand DEF Judging
<1>3. /\ snap' \in SnapType /\ snap'.base = base /\ snap'.base1 = snap.base1
      /\ snap'.try # 1 /\ snap'.fresh1 = snap.fresh1 /\ snap'.open1 = snap.open1
  <2>1. PICK t : t = snap.try
    OBVIOUS
  <2>2. t \in Nat \ {0} /\ t + 1 \in Nat \ {0} /\ t + 1 # 1
    BY <1>2, <2>1 DEF SnapType
  <2>3. snap' = [snap EXCEPT !.try = t + 1, !.base = base]
    BY <1>1, <2>1
  <2> QED
    BY <1>2, <2>2, <2>3 DEF SnapType
<1>4. MakerTypes'
  BY <1>1, <1>2, FaultsBounded DEF MakerTypes, Waiting
<1>5. ReadingsOK'
  BY <1>1, <1>2, <1>3 DEF ReadingsOK, Judging, Live
<1>6. NeverOverclaims'
  BY <1>1 DEF MakerInv, NeverOverclaims
<1> QED
  BY <1>1, <1>4, <1>5, <1>6, NoEntryStep DEF Entering

(* The position is judged; one that is not flagged claims what was read.   *)
LEMMA JudgedStep ==
    ASSUME MakerInv, pc = "judge", NEW p \in PositionType, Judged(p),
           p # NoPos /\ ~p.flagged => p.qty <= base
    PROVE  MakerInv'
<1>1. /\ pos' = p /\ pc' = "untracked" /\ Faultless
      /\ UNCHANGED <<base, orders, intent, snap, conflict, boot, entry, recover, entries, crashes>>
  BY DEF Judged, Go, Quiet, exchange
<1>2. MakerTypes /\ ReadingsOK
  BY DEF MakerInv
<1>3. MakerTypes'
  BY <1>1, <1>2, FaultsBounded DEF MakerTypes, Waiting
<1>4. ReadingsOK'
  BY <1>1, <1>2 DEF ReadingsOK, Judging, Live
<1>5. NeverOverclaims'
  BY <1>1 DEF NeverOverclaims
<1> QED
  BY <1>1, <1>3, <1>4, <1>5, NoEntryStep DEF Entering

LEMMA FlagPositionStep == ASSUME MakerInv, FlagPosition PROVE MakerInv'
<1>1. PICK p : p = [pos EXCEPT !.flagged = TRUE]
  OBVIOUS
<1>2. pc = "judge" /\ Judged(p)
  BY <1>1 DEF FlagPosition
<1>3. pos \in PositionType /\ pos # NoPos
  BY <1>2, AtHand DEF Judging
<1>4. p \in PositionType /\ p.flagged
  BY <1>1, <1>3 DEF PositionType
<1> QED
  BY <1>2, <1>4, JudgedStep

LEMMA ClearPositionStep == ASSUME MakerInv, ClearPosition PROVE MakerInv'
<1>1. PICK p : p = [pos EXCEPT !.flagged = FALSE]
  OBVIOUS
<1>2. pc = "judge" /\ Judged(p) /\ snap.base = pos.qty
  BY <1>1 DEF ClearPosition, Agrees
<1>3. pos \in PositionType /\ pos # NoPos /\ snap.base <= base
  BY <1>2, AtHand DEF Judging
<1>4. p \in PositionType /\ p.qty = pos.qty
  BY <1>1, <1>3 DEF PositionType
<1> QED
  BY <1>2, <1>3, <1>4, JudgedStep

LEMMA ClosePositionStep == ASSUME MakerInv, ClosePosition PROVE MakerInv'
BY JudgedStep DEF ClosePosition, PositionType

(* The reconcile ends; an entry may follow only where it found no order.   *)
LEMMA ReconciledStep ==
    ASSUME MakerInv, pc = "untracked", NEW p \in PositionType, Reconciled(p),
           p # NoPos /\ ~p.flagged => p.qty <= base,
           intent' \in {"none", intent}, Fault \/ Faultless
    PROVE  MakerInv'
<1>1. /\ pos' = p /\ pc' \in {"idle", "scan"} /\ boot' = FALSE /\ conflict' = Conflict(p)
      /\ UNCHANGED <<base, orders, snap, entry, recover, entries, crashes>>
  BY DEF Reconciled, Go, Quiet, exchange
<1>2. MakerTypes /\ ReadingsOK /\ pc \notin Entering
  BY AtHand DEF Judging
<1>3. conflict' \in BOOLEAN
  BY <1>1 DEF Conflict
<1>4. MakerTypes'
  BY <1>1, <1>2, <1>3, FaultsBounded DEF MakerTypes, Waiting
<1>5. pos' = NoPos /\ ~conflict' => snap.open1 = {}
  BY <1>1 DEF Conflict
<1>6. ReadingsOK'
  BY <1>1, <1>2, <1>5 DEF ReadingsOK, Judging, Live
<1>7. NeverOverclaims'
  BY <1>1 DEF NeverOverclaims
<1> QED
  BY <1>1, <1>2, <1>4, <1>6, <1>7, NoEntryStep DEF Entering

LEMMA NothingUntrackedStep == ASSUME MakerInv, NothingUntracked PROVE MakerInv'
<1>1. pc = "untracked" /\ Reconciled(pos) /\ intent' \in {"none", intent} /\ Faultless
  BY DEF NothingUntracked, StaleResolved
<1>2. pos \in PositionType /\ NeverOverclaims
  BY DEF MakerInv, MakerTypes
<1> QED
  BY <1>1, <1>2, ReconciledStep DEF NeverOverclaims

LEMMA RecoverBalanceStep == ASSUME MakerInv, RecoverBalance PROVE MakerInv'
<1>1. PICK q, p, r : q = snap.base1 /\ p = Held(q) /\ r = [Held(q) EXCEPT !.flagged = TRUE]
  OBVIOUS
<1>2. pc = "untracked" /\ q > 0 /\ intent' = intent
      /\ ((Reconciled(p) /\ Faultless) \/ (Reconciled(r) /\ Fault))
  BY <1>1 DEF RecoverBalance
<1>3. q \in Nat \ {0} /\ q <= base
  BY <1>1, <1>2, AtHand DEF Judging
<1>4. p \in PositionType /\ p.qty = q /\ r \in PositionType /\ r.flagged
  BY <1>1, <1>3, HeldIs
<1> QED
  BY <1>2, <1>3, <1>4, ReconciledStep

LEMMA EndCycleStep == ASSUME MakerInv, EndCycle PROVE MakerInv'
<1>1. /\ pc = "scan" /\ pc' = "idle" /\ Faultless
      /\ UNCHANGED <<base, orders, pos, intent, conflict, boot, entry, recover, entries, crashes>>
  BY DEF EndCycle, Go, Quiet, exchange
<1>2. MakerTypes'
  BY <1>1, FaultsBounded DEF MakerInv, MakerTypes, Waiting
<1>3. ReadingsOK'
  BY <1>1 DEF ReadingsOK, Judging
<1>4. NeverOverclaims'
  BY <1>1 DEF MakerInv, NeverOverclaims
<1> QED
  BY <1>1, <1>2, <1>3, <1>4, NoEntryStep DEF Entering

-----------------------------------------------------------------------------
(* The process, and every step.                                            *)
LEMMA CrashStep == ASSUME MakerInv, Crash PROVE MakerInv'
<1>1. /\ crashes < MaxCrashes /\ crashes' = crashes + 1 /\ intent' \in {"none", "ambiguous"}
      /\ entry' = NoEntry /\ conflict' = FALSE /\ boot' = FALSE /\ pc' = "down"
      /\ UNCHANGED <<base, orders, pos, recover, entries, faults>>
  BY DEF Crash, Go, exchange
<1>2. MakerTypes'
  <2>1. MakerTypes
    BY DEF MakerInv
  <2>2. crashes' \in 0..MaxCrashes
    BY <1>1, <2>1, MakerAssumption DEF MakerTypes
  <2>3. intent' \in {"none", "open", "ambiguous"} /\ pc' \in Waiting
    BY <1>1 DEF Waiting
  <2> QED
    BY <1>1, <2>1, <2>2, <2>3 DEF MakerTypes
<1>3. ReadingsOK'
  BY <1>1 DEF ReadingsOK, Judging
<1>4. EntryOK' /\ OrdersOK'
  BY <1>1 DEF EntryOK, OrdersOK, OrdersAt, Entering
<1>5. NeverOverclaims'
  BY <1>1 DEF MakerInv, NeverOverclaims
<1> QED
  BY <1>2, <1>3, <1>4, <1>5 DEF MakerInv

LEMMA RestartStep == ASSUME MakerInv, Restart PROVE MakerInv'
<1>1. /\ pc = "down" /\ pc' = "boot" /\ Faultless
      /\ UNCHANGED <<base, orders, pos, intent, conflict, boot, entry, recover, entries, crashes>>
  BY DEF Restart, Go, Quiet, exchange
<1>2. MakerTypes'
  BY <1>1, FaultsBounded DEF MakerInv, MakerTypes, Waiting
<1>3. ReadingsOK'
  BY <1>1 DEF ReadingsOK, Judging
<1>4. NeverOverclaims'
  BY <1>1 DEF MakerInv, NeverOverclaims
<1> QED
  BY <1>1, <1>2, <1>3, <1>4, NoEntryStep DEF Entering

LEMMA MakerInitInv == ASSUME MakerInit PROVE MakerInv
<1>1. Gone \in OrderType /\ Gone.done <= Gone.qty
  BY MakerAssumption DEF Gone, OrderType
<1>2. MakerTypes
  <2>1. entries \in 0..MaxEntries /\ faults \in 0..MaxFaults /\ crashes \in 0..MaxCrashes
    BY MakerAssumption DEF MakerInit
  <2>2. orders \in [OrderId -> OrderType] /\ \A o \in OrderId : orders[o].done <= orders[o].qty
    BY <1>1 DEF MakerInit
  <2> QED
    BY <2>1, <2>2 DEF MakerInit, MakerTypes, PositionType, Waiting
<1> QED
  BY <1>2 DEF MakerInit, MakerInv, ReadingsOK, EntryOK, OrdersOK, OrdersAt, NeverOverclaims,
     Judging, Entering

LEMMA EntryStep == ASSUME MakerInv, Entry PROVE MakerInv'
BY enterPositionStep, SubmitStep, SubmitNeverArrivesStep, SubmitRefusedStep,
   SubmitRecoveredStep, SubmitNotRecoveredStep, ReadOrderStep, ReadOrderFailsStep,
   LeaveAsItIsStep, AmendStep, ReadAmendedStep, ReplaceStep, ReplaceNeverArrivesStep,
   ReplaceRefusedStep, ReadReplacementStep, ReplacementRecoveredStep,
   ReplacementNotRecoveredStep, NothingToCancelStep, cancelOrderStep, ReadCanceledStep,
   RecheckStep, RecoverPendingStep, RecoverPendingFailsStep, EnoughStep, MarketBuyStep,
   MarketBuyFailsStep, PositionOpenedStep, ProtectionFailsStep, FlattenedStep,
   FlattenFailsStep DEF Entry

LEMMA ReconcileStep == ASSUME MakerInv, Reconcile PROVE MakerInv'
BY ReadAccountStep, AccountUnreadableStep, ReadOrdersStep, ReadOrdersFailsStep,
   SweepOrderStep, SweepDoneStep, RetrySnapshotStep, FlagPositionStep, ClearPositionStep,
   ClosePositionStep, NothingUntrackedStep, RecoverBalanceStep, EndCycleStep DEF Reconcile

LEMMA MakerStutters == ASSUME MakerInv, UNCHANGED makerVars PROVE MakerInv'
<1>1. UNCHANGED <<base, orders, pos, intent, pc, entry, snap, conflict, recover, boot,
                  entries, faults, crashes>>
  BY DEF makerVars, counters
<1> QED
  BY <1>1 DEF MakerInv, MakerTypes, ReadingsOK, EntryOK, EntryAt, OrdersOK, OrdersAt, KnowsAll,
     Filled, Live, NeverOverclaims

(* The invariant holds in every state.                                     *)
LEMMA MakerInvariant == MakerSpec => []MakerInv
<1>1. MakerInv /\ [MakerNext]_makerVars => MakerInv'
  BY FillStep, EntryStep, ReconcileStep, CrashStep, RestartStep, MakerStutters DEF MakerNext
<1> QED
  BY MakerInitInv, <1>1, PTL DEF MakerSpec

(* Every variable has its type, whatever the orders do and whoever dies.   *)
THEOREM MakerTypeCorrect == MakerSpec => []MakerTypeOK
<1>1. MakerInv => MakerTypeOK
  BY DEF MakerInv, MakerTypes, MakerTypeOK, PositionType, OrderType
<1> QED
  BY <1>1, MakerInvariant, PTL

(* What an entry counts as its position the account has: fills are never   *)
(* counted twice, however the reads, the replacement and the fills of its  *)
(* orders interleave, and what a reconcile clears or recovers is there.    *)
THEOREM EntriesNeverOverclaim == MakerSpec => []NeverOverclaims
<1>1. MakerInv => NeverOverclaims
  BY DEF MakerInv
<1> QED
  BY <1>1, MakerInvariant, PTL

(* An entry whose order was answered protects its position only once none  *)
(* of its orders is left; unless it replaced one, it counts all they did.  *)
THEOREM CompletedEntriesAreOver == MakerSpec => []CompletedEntryIsOver
<1>1. MakerInv => CompletedEntryIsOver
  BY DEF MakerInv, OrdersOK, OrdersAt, KnowsAll, CompletedEntryIsOver
<1> QED
  BY <1>1, MakerInvariant, PTL

(* No entry is submitted beside an order of an earlier one in a cycle that *)
(* read the open orders.                                                   *)
THEOREM EntriesWaitForOrders == MakerSpec => []EntryWaitsForOrders
<1>1. MakerInv => EntryWaitsForOrders
  BY DEF MakerInv, ReadingsOK, EntryWaitsForOrders
<1> QED
  BY <1>1, MakerInvariant, PTL
=============================================================================
