--------------------------- MODULE LocalOrderBook ---------------------------
(***************************************************************************)
(* The local order book of one symbol (src/market/localOrderBook.js): the  *)
(* copy of the exchange's depth that LocalOrderBookEngine keeps from a     *)
(* REST snapshot and the stream's diff events.                             *)
(*                                                                         *)
(* The exchange numbers its updates 1, 2, ...; Depth[n] is its book after  *)
(* update n.  A diff event [U |-> f, u |-> t] carries the final quantity   *)
(* of every price level that updates f..t changed.  Nothing is assumed of  *)
(* the stream: a socket that restarts may lose, repeat, overlap or reorder *)
(* events; nor of the REST snapshot, which may lag or lead the stream, and *)
(* which is cut to streamDepthSnapshotLimit levels per side.               *)
(*                                                                         *)
(* JavaScript runs a handler to completion between two awaits.  The loop   *)
(* that replays the buffer after a snapshot is several steps here, one per *)
(* event; while it runs ("draining", "retry") nothing else does.           *)
(***************************************************************************)
EXTENDS Naturals, Sequences

CONSTANTS
    Level,          \* price levels of the two sides
    Quantity,       \* quantities a level can hold
    MaxId,          \* bound: last update id of the exchange considered
    Depth,          \* the exchange's book after each update
    Window,         \* the sets of levels a snapshot's limit can leave in it
    MaxBuffer,      \* 400 in the code: diff events kept per symbol
    MaxAttempts,    \* 3 in the code: snapshots tried by one priming
    StreamRequired  \* the config flags that forbid a snapshot before the stream

Ids == 0..MaxId

ASSUME BookAssumption ==
    /\ MaxId \in Nat
    /\ MaxBuffer \in Nat \ {0}
    /\ MaxAttempts \in Nat \ {0}
    /\ StreamRequired \in BOOLEAN
    /\ Depth \in [Ids -> [Level -> Quantity]]
    /\ Window \subseteq SUBSET Level
    /\ 0 \in Quantity

Event == {e \in [U : 1..MaxId, u : 1..MaxId] : e.U <= e.u}
Summary == [synced : BOOLEAN, id : Ids, age : {"never", "fresh", "old"}]
NoSummary == [synced |-> FALSE]
Empty == [l \in Level |-> 0]

(* The book after update n as a copy has it that knows only the levels S.   *)
CutTo(n, S) == [l \in Level |-> IF l \in S THEN Depth[n][l] ELSE 0]

VARIABLES
    active,         \* isSymbolActive: the symbol is in the local book universe
    synced,         \* bucket.synced
    lastUpdateId,   \* bucket.lastUpdateId
    book,           \* bucket.bids and bucket.asks
    buffer,         \* bucket.buffer, oldest first
    age,            \* bucket.lastEventAt: null, within maxDepthEventAgeMs, older
    summary,        \* bucket.lastDepthSummary
    cooldown,       \* nextPrimeAllowedAt in the future, with its skip reason
    prime,          \* where bucket.primingPromise is suspended
    attempt,        \* attempts the priming loop has completed
    drain,          \* buffered events the priming loop has yet to apply
    reach           \* history: the levels the snapshot held or an event brought

vars == <<active, synced, lastUpdateId, book, buffer, age, summary, cooldown,
          prime, attempt, drain, reach>>

Init ==
    /\ active = TRUE
    /\ synced = FALSE
    /\ lastUpdateId = 0
    /\ book = Empty
    /\ buffer = <<>>
    /\ age = "never"
    /\ summary = NoSummary
    /\ cooldown = "none"
    /\ prime = "idle"
    /\ attempt = 0
    /\ drain = {}
    /\ reach = {}

-----------------------------------------------------------------------------
(* The levels an event carries: those whose quantity differs, somewhere in  *)
(* the event's range, from the one they end with.                           *)
Carried(e) == {l \in Level : \E n \in (e.U - 1)..e.u : Depth[n][l] # Depth[e.u][l]}

applySide(b, e) ==
    [l \in Level |-> IF l \in Carried(e) THEN Depth[e.u][l] ELSE b[l]]

Stale(e) == e.u <= lastUpdateId

GapUnchecked(e) == FALSE \* seeded bug: no firstUpdateId check
Gap(e) == e.U > lastUpdateId + 1

computeDepthSummary(isSynced, id, eventAge) ==
    [synced |-> isSynced, id |-> id, age |-> eventAge]

(* What getSnapshot hands to the scanner and the execution planner.         *)
getSnapshot ==
    IF summary = NoSummary THEN computeDepthSummary(synced, lastUpdateId, age)
                           ELSE summary

(* applyEvent on a synced bucket, for an event that is neither stale nor    *)
(* after a gap.                                                             *)
Apply(e) ==
    /\ book' = applySide(book, e)
    /\ reach' = reach \cup Carried(e)
    /\ lastUpdateId' = e.u
    /\ age' = "fresh"
    /\ summary' = computeDepthSummary(TRUE, e.u, "fresh")

resetBucket ==
    /\ synced' = FALSE
    /\ lastUpdateId' = 0
    /\ book' = Empty
    /\ reach' = {}
    /\ buffer' = <<>>
    /\ summary' = NoSummary

(* The event loop is free: no synchronous replay is in progress.            *)
Free == prime \notin {"draining", "retry"}
Deferred == prime # "idle" \/ cooldown # "none"
StartPriming == prime' = "waiting" /\ attempt' = 0

-----------------------------------------------------------------------------
(* handleDepthEvent *)

Push(e) ==
    IF Len(buffer) = MaxBuffer THEN Append(Tail(buffer), e) ELSE Append(buffer, e)

EventWhileInactive(e) ==
    /\ Free /\ ~active
    /\ buffer' = <<>>
    /\ UNCHANGED <<active, synced, lastUpdateId, book, age, summary, cooldown,
                   prime, attempt, drain, reach>>

(* The push leaves the buffer non-empty, so a cold-start cooldown is always *)
(* released before shouldDeferPriming looks at it.                          *)
EventWhileUnsynced(e) ==
    /\ Free /\ active /\ ~synced
    /\ buffer' = Push(e)
    /\ cooldown' = IF cooldown = "coldStart" THEN "none" ELSE cooldown
    /\ IF prime = "idle" /\ cooldown # "budget"
         THEN StartPriming
         ELSE UNCHANGED <<prime, attempt>>
    /\ UNCHANGED <<active, synced, lastUpdateId, book, age, summary, drain, reach>>

EventSkipped(e) ==
    /\ Free /\ active /\ synced /\ Stale(e)
    /\ buffer' = Push(e)
    /\ UNCHANGED <<active, synced, lastUpdateId, book, age, summary, cooldown,
                   prime, attempt, drain, reach>>

EventApplied(e) ==
    /\ Free /\ active /\ synced /\ ~Stale(e) /\ ~Gap(e)
    /\ buffer' = Push(e)
    /\ Apply(e)
    /\ UNCHANGED <<active, synced, cooldown, prime, attempt, drain>>

EventAfterGap(e) ==
    /\ Free /\ active /\ synced /\ ~Stale(e) /\ Gap(e)
    /\ resetBucket
    /\ IF Deferred THEN UNCHANGED <<prime, attempt>> ELSE StartPriming
    /\ UNCHANGED <<active, age, cooldown, drain>>

handleDepthEvent(e) ==
    \/ EventWhileInactive(e)
    \/ EventWhileUnsynced(e)
    \/ EventSkipped(e)
    \/ EventApplied(e)
    \/ EventAfterGap(e)

-----------------------------------------------------------------------------
(* setLocalBookUniverse: symbols leave and enter the universe with the      *)
(* market scan; a symbol that enters is primed.                             *)
Leave ==
    /\ Free /\ active
    /\ active' = FALSE
    /\ UNCHANGED <<synced, lastUpdateId, book, buffer, age, summary, cooldown,
                   prime, attempt, drain, reach>>

Enter ==
    /\ Free /\ ~active
    /\ active' = TRUE
    /\ IF synced \/ Deferred THEN UNCHANGED <<prime, attempt>> ELSE StartPriming
    /\ UNCHANGED <<synced, lastUpdateId, book, buffer, age, summary, cooldown,
                   drain, reach>>

(* Time passes: the last event becomes older than maxDepthEventAgeMs, or    *)
(* the cooldown of a suppressed snapshot ends.                              *)
EventAges ==
    /\ Free /\ age = "fresh"
    /\ age' = "old"
    /\ UNCHANGED <<active, synced, lastUpdateId, book, buffer, summary, cooldown,
                   prime, attempt, drain, reach>>

CooldownEnds ==
    /\ Free /\ cooldown # "none"
    /\ cooldown' = "none"
    /\ UNCHANGED <<active, synced, lastUpdateId, book, buffer, age, summary,
                   prime, attempt, drain, reach>>

-----------------------------------------------------------------------------
(* ensurePrimed: the priming loop, split at its awaits *)

streamPrimary == buffer # <<>> \/ age # "never"
AtLoopHead == prime \in {"waiting", "backoff", "retry"}

(* evaluateSnapshotRestAllowance allows the snapshot; the REST call starts. *)
RequestSnapshot ==
    /\ AtLoopHead /\ attempt < MaxAttempts
    /\ StreamRequired => streamPrimary
    /\ prime' = "snapshot"
    /\ UNCHANGED <<active, synced, lastUpdateId, book, buffer, age, summary,
                   cooldown, attempt, drain, reach>>

(* It does not: the stream has not started, or the REST budget is short.    *)
(* The priming rejects and markSnapshotRestSkipped starts a cooldown.       *)
SnapshotSuppressed ==
    /\ AtLoopHead /\ attempt < MaxAttempts
    /\ cooldown' = IF StreamRequired /\ ~streamPrimary THEN "coldStart" ELSE "budget"
    /\ summary' = computeDepthSummary(synced, lastUpdateId, age)
    /\ prime' = "idle"
    /\ attempt' = 0
    /\ UNCHANGED <<active, synced, lastUpdateId, book, buffer, age, drain, reach>>

GiveUp ==
    /\ AtLoopHead /\ attempt = MaxAttempts
    /\ resetBucket
    /\ prime' = "idle"
    /\ attempt' = 0
    /\ UNCHANGED <<active, age, cooldown, drain>>

(* getOrderBook rejects (timeout, ban, network): so does the priming, and   *)
(* the bucket stays as the previous attempt left it.                        *)
SnapshotFails ==
    /\ prime = "snapshot"
    /\ prime' = "idle"
    /\ attempt' = 0
    /\ UNCHANGED <<active, synced, lastUpdateId, book, buffer, age, summary,
                   cooldown, drain, reach>>

Buffered(n) == {e \in Event : e.u > n /\ \E i \in DOMAIN buffer : buffer[i] = e}
FirstOf(S) == {e \in S : \A o \in S : e.U <= o.U}
GapAfterSnapshot(n) == \E e \in FirstOf(Buffered(n)) : e.U > n + 1

AdoptSnapshot(n) ==
    /\ prime = "snapshot"
    /\ \E S \in Window : book' = CutTo(n, S) /\ reach' = S
    /\ lastUpdateId' = n
    /\ age' = IF age = "never" THEN "fresh" ELSE age
    /\ cooldown' = "none"
    /\ UNCHANGED <<active, summary>>

RetryForever(n) == \* seeded bug: an attempt is not counted
    /\ AdoptSnapshot(n) /\ GapAfterSnapshot(n)
    /\ prime' = "backoff"
    /\ UNCHANGED <<synced, buffer, drain, attempt>>

SnapshotBehindBuffer(n) ==
    /\ AdoptSnapshot(n) /\ GapAfterSnapshot(n)
    /\ prime' = "backoff"
    /\ attempt' = attempt + 1
    /\ UNCHANGED <<synced, buffer, drain>>

SnapshotJoinsBuffer(n) ==
    /\ AdoptSnapshot(n) /\ ~GapAfterSnapshot(n)
    /\ synced' = TRUE
    /\ drain' = Buffered(n)
    /\ buffer' = <<>>
    /\ prime' = "draining"
    /\ UNCHANGED attempt

(* The replay of the buffered events, in the order of their first ids.      *)
DrainSkip(e) ==
    /\ prime = "draining" /\ e \in FirstOf(drain) /\ Stale(e)
    /\ drain' = drain \ {e}
    /\ UNCHANGED <<active, synced, lastUpdateId, book, buffer, age, summary,
                   cooldown, prime, attempt, reach>>

DrainApply(e) ==
    /\ prime = "draining" /\ e \in FirstOf(drain) /\ ~Stale(e) /\ ~Gap(e)
    /\ Apply(e)
    /\ drain' = drain \ {e}
    /\ UNCHANGED <<active, synced, buffer, cooldown, prime, attempt>>

DrainGap(e) ==
    /\ prime = "draining" /\ e \in FirstOf(drain) /\ ~Stale(e) /\ Gap(e)
    /\ synced' = FALSE
    /\ drain' = {}
    /\ prime' = "retry"
    /\ attempt' = attempt + 1
    /\ UNCHANGED <<active, lastUpdateId, book, buffer, age, summary, cooldown, reach>>

Drained ==
    /\ prime = "draining" /\ drain = {}
    /\ summary' = computeDepthSummary(synced, lastUpdateId, age)
    /\ prime' = "idle"
    /\ attempt' = 0
    /\ UNCHANGED <<active, synced, lastUpdateId, book, buffer, age, cooldown, drain, reach>>

PrimingStep ==
    \/ RequestSnapshot
    \/ SnapshotSuppressed
    \/ GiveUp
    \/ SnapshotFails
    \/ \E n \in Ids : SnapshotBehindBuffer(n) \/ SnapshotJoinsBuffer(n)
    \/ \E e \in Event : DrainSkip(e) \/ DrainApply(e) \/ DrainGap(e)
    \/ Drained

Next ==
    \/ \E e \in Event : handleDepthEvent(e)
    \/ Leave
    \/ Enter
    \/ EventAges
    \/ CooldownEnds
    \/ PrimingStep

(* Every await of a priming ends: sleeps are bounded and the REST client    *)
(* settles each request with an answer or a timeout.                        *)
Spec == Init /\ [][Next]_vars
FairSpec == Spec /\ WF_vars(PrimingStep)

-----------------------------------------------------------------------------
TypeOK ==
    /\ active \in BOOLEAN
    /\ synced \in BOOLEAN
    /\ lastUpdateId \in Ids
    /\ book \in [Level -> Quantity]
    /\ buffer \in Seq(Event) /\ Len(buffer) <= MaxBuffer
    /\ age \in {"never", "fresh", "old"}
    /\ summary \in Summary \cup {NoSummary}
    /\ cooldown \in {"none", "coldStart", "budget"}
    /\ prime \in {"idle", "waiting", "snapshot", "backoff", "draining", "retry"}
    /\ attempt \in 0..MaxAttempts
    /\ drain \in SUBSET Event
    /\ reach \in SUBSET Level

(* A synced book is exactly the exchange's book at the update it claims, on *)
(* the levels it has seen, whatever the stream lost, repeated or reordered  *)
(* on the way: what this rests on are the gap checks of applyEvent and      *)
(* ensurePrimed.                                                            *)
BookFaithful == synced => book = CutTo(lastUpdateId, reach)

(* Whatever the stream and the snapshots do, what the bucket holds while it *)
(* says synced is a view of the exchange's book: never a mixture of two     *)
(* updates, and no older one unless it was unsynced in between.             *)
Shown == IF synced THEN [synced |-> TRUE, id |-> lastUpdateId,
                         book |-> [l \in reach |-> book[l]]]
                   ELSE [synced |-> FALSE]
View == INSTANCE BookView WITH Update <- Ids, view <- Shown
BookIsView == View!Spec

(* A priming that is still waiting for a snapshot never runs on a book that *)
(* already serves: nothing can sync the bucket but the priming itself.      *)
PrimingUnsynced == prime \in {"waiting", "snapshot", "backoff", "retry"} => ~synced

(* While the book stays synced it never goes back to an older update, even  *)
(* when a repeated event arrives late.                                      *)
NeverRewinds == [][synced /\ synced' => lastUpdateId' >= lastUpdateId]_vars

(* A priming ends: by success, suppression, a failed snapshot or after      *)
(* MaxAttempts, so a bucket is never stuck behind its own primingPromise.   *)
PrimingEnds == (prime # "idle") ~> (prime = "idle")

(* Stale data is never shown as fresh: a synced snapshot with a recent      *)
(* depthAgeMs comes from a book whose last event is recent.                 *)
SnapshotAgeHonest == getSnapshot.synced /\ getSnapshot.age = "fresh" => age # "old"

(* A snapshot that says synced is served only by a book that is.            *)
SnapshotSyncHonest == Free /\ getSnapshot.synced => synced
=============================================================================
