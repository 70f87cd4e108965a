----------------------------- MODULE TradingCycle ---------------------------
(***************************************************************************)
(* One trading cycle (runCycleCore and its runner, runtime/cycleRunner.js) *)
(* with the operator's requests that reach the same state: reconcile the   *)
(* open positions with the exchange, journal what it closed, manage every  *)
(* position, decide whether entries are frozen, scan, enter, and save.     *)
(*                                                                         *)
(* The bot manager serialises the operator's requests with each other, not *)
(* with the cycles of the loop, so the actors "cycle" and "operator" are   *)
(* two processes over the same runtime; each runs alone between awaits.    *)
(* The broker's calls are reduced to the ways they can end; LiveBroker and *)
(* PaperBroker have their detail.                                          *)
(***************************************************************************)
EXTENDS ReconcilePolicy, FiniteSets

CONSTANTS
    Symbols,
    Trouble,        \* Evidence of a reconcile that is not a plain match or flat
    positionFailureProtectOnlyCount, positionFailureManualReviewCount,
    healthMaxConsecutiveFailures,
    exchangeTruthFreezeMismatchCount,
    MaxFaults,      \* bound: calls that fail, troubled evidence, bans
    MaxVisits       \* bound: requests of the operator or the dashboard

ASSUME CycleAssumption ==
    /\ IsFiniteSet(Symbols)
    /\ Trouble \subseteq Evidence
    /\ positionFailureProtectOnlyCount \in Nat \ {0}
    /\ positionFailureManualReviewCount \in Nat \ {0}
    /\ positionFailureProtectOnlyCount <= positionFailureManualReviewCount
    /\ healthMaxConsecutiveFailures \in Nat \ {0}
    /\ exchangeTruthFreezeMismatchCount \in Nat \ {0}
    /\ MaxFaults \in Nat /\ MaxVisits \in Nat

VARIABLES
    mode,           \* config.botMode, fixed for the life of the bot
    pos,            \* runtime.openPositions: symbol -> Flags
    booked,         \* trades in the journal for a symbol's latest position
    dropped,        \* history: symbols whose closed trade an error discarded
    truth,          \* runtime.exchangeTruth: freezeEntries, mismatchCount
    frozen,         \* runtime.exchangeSafety.globalFreezeEntries
    pending,        \* states of orderLifecycle.pendingActions
    failures,       \* health.consecutiveFailures, up to the circuit's limit
    at, todo,       \* where each actor is, and its positions still to visit
    flagged, closed,        \* its reconcile's mismatches and closed trades
    opened,         \* the cycle has opened a position
    unsaved,        \* memory holds something that no save has written
    reported,       \* how the last cycle or request ended
    streak,         \* history: counted failures in a row, per symbol
    overlapped,     \* history: a forced reconcile ran beside the cycle's
    undisturbed,    \* history: no request since entries were cleared
    faults, visits  \* bounds

exchange == <<truth, frozen, pending>>
work     == <<at, todo, flagged, closed>>
journal  == <<booked, dropped>>
history  == <<streak, overlapped, undisturbed>>
store    == <<unsaved, reported>>
vars == <<mode, pos, journal, exchange, failures, work, opened, store,
          history, faults, visits>>

Actor == {"cycle", "operator"}
Open == DOMAIN pos
live == mode = "live"

Put(f, x, v) == [y \in DOMAIN f \cup {x} |-> IF y = x THEN v ELSE f[y]]
Drop(f, x)   == [y \in DOMAIN f \ {x} |-> f[y]]

Fresh == [fail |-> 0, op |-> "normal", review |-> FALSE, recon |-> FALSE,
          prot |-> live, life |-> IF live THEN "protected" ELSE "simulated_open"]

Init ==
    /\ mode \in {"live", "paper"}
    /\ \E S \in SUBSET Symbols :
          /\ pos = [s \in S |-> Fresh]
          /\ booked = [s \in Symbols |-> IF s \in S THEN 0 ELSE 1]
    /\ dropped = {}
    /\ truth = [freeze |-> FALSE, mismatch |-> 0]
    /\ frozen = FALSE /\ pending = {} /\ failures = 0
    /\ at = [a \in Actor |-> "idle"]
    /\ todo = [a \in Actor |-> {}]
    /\ flagged = [a \in Actor |-> {}]
    /\ closed = [a \in Actor |-> {}]
    /\ opened = FALSE /\ unsaved = FALSE /\ reported = "ok"
    /\ streak = [s \in Symbols |-> 0]
    /\ overlapped = FALSE /\ undisturbed = FALSE
    /\ faults = 0 /\ visits = 0

-----------------------------------------------------------------------------
(* What steps have in common.                                              *)

Fault == faults < MaxFaults /\ faults' = faults + 1

Goto(a, label) == at' = [at EXCEPT ![a] = label]
Other(a) == IF a = "cycle" THEN "operator" ELSE "cycle"
Disturbs(a) == undisturbed' = (undisturbed /\ a = "cycle")

(* syncOrderLifecycleState: the pending actions of these positions.        *)
syncOrderLifecycleState(f) ==
    {LifecycleState(f[s]) : s \in DOMAIN f} \cap (MaterialStates \cup {"protect_only"})

(* buildExchangeSafetyAudit: whether entries are frozen.  aged: an action  *)
(* has been pending for longer than exchangeSafetyCriticalPendingAgeMinutes.*)
buildExchangeSafetyAudit(t, states, aged) ==
    LET material == materialPaperLifecyclePendingForEntryFreeze(states) # {}
    IN \/ t.mismatch > 0 \/ material
       \/ live /\ (t.freeze \/ (aged /\ states # {}))

(* refreshExchangeSafetyState, from this truth and these pending states.   *)
refreshExchangeSafetyState(t, states, aged) ==
    /\ pending' = states
    /\ frozen' = buildExchangeSafetyAudit(t, states, aged)
    /\ truth' = IF live THEN [t EXCEPT !.freeze = frozen']
                ELSE IF /\ t.mismatch = 0
                        /\ materialPaperLifecyclePendingForEntryFreeze(states) = {}
                     THEN [t EXCEPT !.freeze = FALSE]
                     ELSE t

(* A save succeeds, or fails and leaves memory ahead of the disk.          *)
Saves      == unsaved' = FALSE /\ UNCHANGED faults
SaveFails  == unsaved' = TRUE /\ Fault

(* Health: recordSuccess and recordFailure; the circuit opens at the limit *)
(* and the next success closes it.                                         *)
recordFailure == failures' = IF failures < healthMaxConsecutiveFailures
                             THEN failures + 1 ELSE failures
circuitOpen == failures >= healthMaxConsecutiveFailures

-----------------------------------------------------------------------------
(* reconcileRuntime and applyReconciliation, for either actor.             *)

StartReconcile(a) ==
    /\ Goto(a, "reconcile")
    /\ todo' = [todo EXCEPT ![a] = Open]
    /\ flagged' = [flagged EXCEPT ![a] = {}]
    /\ closed' = [closed EXCEPT ![a] = {}]
    /\ overlapped' = (overlapped \/ at[Other(a)] \in {"reconcile", "apply", "manage"})

(* What the exchange can show of a position: it matches, it is gone, or    *)
(* there is trouble with the position or with the answers.                 *)
Match(p) == [sync |-> "ok", partial |-> FALSE, strayOrder |-> FALSE,
             priceOff |-> FALSE, flat |-> FALSE, recent |-> FALSE,
             aboveCap |-> FALSE, quantity |-> "same",
             lists |-> IF p.prot THEN 1 ELSE 0]

Gone(p) == [Match(p) EXCEPT !.flat = TRUE, !.lists = 0]

(* The position a reconcile is at has been settled by the other actor: it  *)
(* works on its own copy of the list, and may close the position again.    *)
ReconcileSettled(a, x) ==
    /\ x \notin Open
    /\ closed' \in {closed, [closed EXCEPT ![a] = @ \cup {x}]}
    /\ UNCHANGED <<pos, unsaved, flagged, streak, faults>>

Close(a, x) ==
    /\ pos' = Drop(pos, x)
    /\ closed' = [closed EXCEPT ![a] = @ \cup {x}]
    /\ unsaved' = TRUE
    /\ UNCHANGED flagged

Mark(a, x, p, mismatch) ==
    /\ pos' = Put(pos, x, p)
    /\ flagged' = [flagged EXCEPT ![a] = IF mismatch THEN @ \cup {x} ELSE @]
    /\ unsaved' = TRUE
    /\ UNCHANGED closed

(* resolvePositionReconcileDecision: a retry that ran out of attempts      *)
(* stays in retry but counts as a mismatch.                                *)
resolvePositionReconcileDecision(a, x, decision) ==
    \/ decision = "close" /\ Close(a, x)
    \/ /\ decision = "retry"
       /\ \E exhausted \in BOOLEAN :
             Mark(a, x, markPositionForRetry(pos[x]), exhausted)
    \/ /\ decision = "manual_review"
       /\ Mark(a, x, markPositionForManualReview(pos[x]), TRUE)
    \/ /\ decision \in {"verified", "adopt", "rebuild"}
       /\ Mark(a, x, applySafeReconcileAutofix(decision, pos[x]), FALSE)

Reconcile(a, x) ==
    /\ at[a] = "reconcile" /\ x \in todo[a]
    /\ todo' = [todo EXCEPT ![a] = @ \ {x}]
    /\ \/ ReconcileSettled(a, x)
       \/ /\ x \in Open
          /\ \/ /\ UNCHANGED faults
                /\ \E e \in {Match(pos[x]), Gone(pos[x])} :
                      resolvePositionReconcileDecision(a, x,
                          classifyReconcileDecision(e, pos[x].prot))
             \/ /\ Fault
                /\ \E e \in Trouble :
                      resolvePositionReconcileDecision(a, x,
                          classifyReconcileDecision(e, pos[x].prot))
             \/ /\ Fault                       \* a rebuild is refused
                /\ Mark(a, x, RebuildRefused(pos[x]), TRUE)
          /\ streak' = [streak EXCEPT ![x] = 0]
    /\ Disturbs(a)
    /\ UNCHANGED <<mode, journal, exchange, failures, at, opened, reported,
                   overlapped, visits>>

(* An error of a reconcile or of what follows it: a cycle fails, a forced  *)
(* reconcile leaves the freeze.  The trades not yet journaled are gone.    *)
Abort(a, lost) ==
    /\ dropped' = dropped \cup lost
    /\ closed' = [closed EXCEPT ![a] = {}]
    /\ todo' = [todo EXCEPT ![a] = {}]
    /\ Goto(a, IF a = "cycle" THEN "failed" ELSE "save")
    /\ IF a = "operator"
       THEN refreshExchangeSafetyState([truth EXCEPT !.freeze = TRUE],
                syncOrderLifecycleState(pos), FALSE)
       ELSE UNCHANGED exchange
    /\ UNCHANGED flagged

ReconcileThrows(a) ==
    /\ at[a] = "reconcile" /\ Fault
    /\ Abort(a, closed[a])
    /\ Disturbs(a)
    /\ UNCHANGED <<mode, pos, booked, failures, opened, store, streak,
                   overlapped, visits>>

EndReconcile(a) ==
    /\ at[a] = "reconcile" /\ todo[a] = {}
    /\ Goto(a, "apply")
    /\ Disturbs(a)
    /\ UNCHANGED <<mode, pos, journal, exchange, failures, todo, flagged, closed,
                   opened, store, streak, overlapped, faults, visits>>

Book(x) == booked' = [booked EXCEPT ![x] = IF @ < 2 THEN @ + 1 ELSE @]

(* applyReconciliation: a closed trade is journaled, then learned from;    *)
(* learning that throws takes the rest of the list with it.                *)
ApplyTrade(a, x) ==
    /\ at[a] = "apply" /\ x \in closed[a]
    /\ Book(x)
    /\ unsaved' = TRUE
    /\ \/ /\ closed' = [closed EXCEPT ![a] = @ \ {x}]
          /\ UNCHANGED <<dropped, exchange, at, todo, flagged, faults>>
       \/ Fault /\ Abort(a, closed[a] \ {x})
    /\ Disturbs(a)
    /\ UNCHANGED <<mode, pos, failures, opened, reported, streak, overlapped, visits>>

(* The exchange truth of a reconcile: the symbols it flagged, and foreign  *)
(* balances or orders on the venue.                                        *)
Truth(mismatch) == [freeze |-> mismatch >= exchangeTruthFreezeMismatchCount,
                    mismatch |-> mismatch]

Foreign(found) == \/ found = 0 /\ UNCHANGED faults
                  \/ found = 1 /\ Fault

(* Seeded bug: the freeze that was there is kept.                          *)
MergeTruth_KeepsFreeze ==
    /\ at["cycle"] = "apply" /\ closed["cycle"] = {}
    /\ \E found \in 0..1 :
          /\ Foreign(found)
          /\ truth' = [Truth(Cardinality(flagged["cycle"]) + found)
                         EXCEPT !.freeze = @ \/ truth.freeze]
    /\ pending' = syncOrderLifecycleState(pos)
    /\ Goto("cycle", "manage")
    /\ todo' = [todo EXCEPT !["cycle"] = Open]
    /\ UNCHANGED <<mode, pos, journal, frozen, failures, flagged, closed, opened,
                   store, history, visits>>

(* The result of the cycle's reconcile replaces the truth, whatever froze  *)
(* entries before.                                                         *)
MergeTruth ==
    /\ at["cycle"] = "apply" /\ closed["cycle"] = {}
    /\ \E found \in 0..1 :
          /\ Foreign(found)
          /\ truth' = Truth(Cardinality(flagged["cycle"]) + found)
    /\ pending' = syncOrderLifecycleState(pos)
    /\ Goto("cycle", "manage")
    /\ todo' = [todo EXCEPT !["cycle"] = Open]
    /\ UNCHANGED <<mode, pos, journal, frozen, failures, flagged, closed, opened,
                   store, history, visits>>

-----------------------------------------------------------------------------
(* The start of a cycle.  A REST ban skips everything, and counts as a     *)
(* success of the cycle.                                                   *)
StartCycle ==
    /\ at["cycle"] = "idle"
    /\ opened' = FALSE
    /\ \/ /\ live /\ StartReconcile("cycle")
          /\ UNCHANGED faults
       \/ /\ ~live /\ Goto("cycle", "manage")
          /\ todo' = [todo EXCEPT !["cycle"] = Open]
          /\ UNCHANGED <<flagged, closed, overlapped, faults>>
       \/ /\ Fault /\ Goto("cycle", "persist")
          /\ UNCHANGED <<todo, flagged, closed, overlapped>>
    /\ UNCHANGED <<mode, pos, journal, exchange, failures, store, streak,
                   undisturbed, visits>>

-----------------------------------------------------------------------------
(* manageOpenPositions, one position at a time.                            *)

Managing(x) == at["cycle"] = "manage" /\ x \in todo["cycle"]

Managed(x) ==
    /\ todo' = [todo EXCEPT !["cycle"] = @ \ {x}]
    /\ unsaved' = TRUE
    /\ UNCHANGED <<mode, dropped, exchange, failures, at, flagged, closed, opened,
                   reported, overlapped, undisturbed, visits>>

(* The catch of manageOpenPositions: the failure budget of a position.     *)
CountFailure(p) ==
    LET n == IF p.fail < positionFailureManualReviewCount THEN p.fail + 1 ELSE p.fail
    IN IF n >= positionFailureManualReviewCount
       THEN [p EXCEPT !.fail = n, !.op = "manual_review", !.review = TRUE,
                      !.life = "manual_review"]
       ELSE IF n >= positionFailureProtectOnlyCount
       THEN [p EXCEPT !.fail = n, !.op = "protect_only", !.life = "protect_only"]
       ELSE [p EXCEPT !.fail = n]

(* Seeded bug: a review lifts protect_only.                                *)
Reviewed_LiftsProtectOnly(p) ==
    IF p.review \/ p.recon THEN p
    ELSE [p EXCEPT !.fail = 0, !.op = "normal",
                   !.life = IF live /\ ~p.prot THEN "protection_pending"
                            ELSE Fresh.life]

(* What a review of the market that went through does to the flags, before *)
(* anything is sold: the failures start again from zero.                   *)
Reviewed(p) ==
    IF p.review \/ p.recon THEN p
    ELSE IF p.op = "protect_only" THEN [p EXCEPT !.fail = 0, !.life = "protect_only"]
    ELSE [p EXCEPT !.fail = 0, !.op = "normal",
                   !.life = IF live /\ ~p.prot THEN "protection_pending"
                            ELSE IF @ \in Degraded
                            THEN IF p.prot THEN "protected" ELSE "simulated_open"
                            ELSE @]

Raise(x) == streak' = [streak EXCEPT ![x] =
                IF @ < positionFailureManualReviewCount THEN @ + 1 ELSE @]
Reset(x) == streak' = [streak EXCEPT ![x] = 0]

(* The operator's reconcile closed it meanwhile; what is done to the old   *)
(* record is lost.                                                         *)
ManageSettled(x) ==
    /\ Managing(x) /\ x \notin Open
    /\ Managed(x)
    /\ UNCHANGED <<pos, booked, streak, faults>>

(* Market data or one of the summaries failed, before the review.          *)
ManageBlind(x) ==
    /\ Managing(x) /\ x \in Open /\ Fault
    /\ pos' = Put(pos, x, CountFailure(pos[x]))
    /\ Raise(x)
    /\ Managed(x) /\ UNCHANGED booked

(* Nothing sold, or a part of the position.                                *)
ManageHeld(x) ==
    /\ Managing(x) /\ x \in Open
    /\ pos' = Put(pos, x, Reviewed(pos[x]))
    /\ Reset(x)
    /\ Managed(x) /\ UNCHANGED <<booked, faults>>

(* The stop was moved or a part was sold, and the protective order could   *)
(* not be placed again: a warning, not a failure.                          *)
ManageUnprotected(x) ==
    /\ Managing(x) /\ x \in Open /\ live /\ Fault
    /\ pos' = Put(pos, x, Unprotected(Reviewed(pos[x])))
    /\ Reset(x)
    /\ Managed(x) /\ UNCHANGED booked

(* Seeded bug: the trade is journaled after learning from it.              *)
ManageClosed_LearnsFirst(x) ==
    /\ Managing(x) /\ x \in Open
    /\ pos' = Drop(pos, x)
    /\ \/ Book(x) /\ UNCHANGED faults
       \/ Fault /\ UNCHANGED booked
    /\ Reset(x)
    /\ Managed(x)

(* Sold, by an exit or by a protective order that filled: the trade is in  *)
(* the journal before learning from it can fail.                           *)
ManageClosed(x) ==
    /\ Managing(x) /\ x \in Open
    /\ pos' = Drop(pos, x)
    /\ Book(x)
    /\ Reset(x)
    /\ Managed(x) /\ UNCHANGED faults

(* An exit or a scale-out that failed with the protection untouched.       *)
ManageFailed(x) ==
    /\ Managing(x) /\ x \in Open /\ Fault
    /\ pos' = Put(pos, x, CountFailure(Reviewed(pos[x])))
    /\ Raise(x)
    /\ Managed(x) /\ UNCHANGED booked

(* One that failed after the protection was canceled: it is placed again,  *)
(* or not, and either way the failure is not counted (positionSafeguarded).*)
ManageSafeguarded(x) ==
    /\ Managing(x) /\ x \in Open /\ live /\ pos[x].prot /\ Fault
    /\ pos' \in {Put(pos, x, Reviewed(pos[x])),
                 Put(pos, x, Unprotected(Reviewed(pos[x])))}
    /\ Managed(x) /\ UNCHANGED <<booked, streak>>

-----------------------------------------------------------------------------
(* Entries.                                                                *)

(* Seeded bug: entries are cleared from the pending actions of before.     *)
ClearEntries_BeforeSync ==
    /\ at["cycle"] = "manage" /\ todo["cycle"] = {}
    /\ refreshExchangeSafetyState(truth, pending, FALSE)
    /\ Goto("cycle", IF frozen' THEN "settle" ELSE "scan")
    /\ undisturbed' = (at["operator"] = "idle")
    /\ UNCHANGED <<mode, pos, journal, failures, todo, flagged, closed, opened,
                   store, streak, overlapped, faults, visits>>

(* The end of the management pass decides whether this cycle may enter.    *)
ClearEntries ==
    /\ at["cycle"] = "manage" /\ todo["cycle"] = {}
    /\ \/ /\ refreshExchangeSafetyState(truth, syncOrderLifecycleState(pos), FALSE)
          /\ UNCHANGED faults
       \/ /\ refreshExchangeSafetyState(truth, syncOrderLifecycleState(pos), TRUE)
          /\ Fault
    /\ Goto("cycle", IF frozen' THEN "settle" ELSE "scan")
    /\ undisturbed' = (at["operator"] = "idle")
    /\ UNCHANGED <<mode, pos, journal, failures, todo, flagged, closed, opened,
                   store, streak, overlapped, visits>>

(* The gates of openBestCandidate, read after the scan's awaits.           *)
EntriesBlocked == circuitOpen \/ (live /\ truth.freeze) \/ frozen

Scan ==
    /\ at["cycle"] = "scan"
    /\ \/ \E allowed \in SUBSET (Symbols \ Open) :
             /\ todo' = [todo EXCEPT !["cycle"] = allowed]
             /\ Goto("cycle", IF EntriesBlocked \/ allowed = {} THEN "settle" ELSE "enter")
             /\ UNCHANGED faults
       \/ Fault /\ Goto("cycle", "failed") /\ UNCHANGED todo
    /\ UNCHANGED <<mode, pos, journal, exchange, failures, flagged, closed, opened,
                   store, history, visits>>

Entering(x) == at["cycle"] = "enter" /\ x \in todo["cycle"]

(* The position of x is a new one: the operator's reconcile, if one is     *)
(* under way, does not have it in its list.                                *)
EnterOk(x) ==
    /\ Entering(x) /\ x \notin Open
    /\ pos' = Put(pos, x, Fresh)
    /\ booked' = [booked EXCEPT ![x] = 0]
    /\ dropped' = dropped \ {x}
    /\ closed' = [closed EXCEPT !["operator"] = @ \ {x}]
    /\ todo' = [a \in Actor |-> IF a = "cycle" THEN {} ELSE todo[a] \ {x}]
    /\ opened' = TRUE /\ unsaved' = TRUE
    /\ Reset(x)
    /\ Goto("cycle", "settle")
    /\ UNCHANGED <<mode, exchange, failures, flagged, reported, overlapped,
                   undisturbed, faults, visits>>

(* A clean failure: the next candidate is tried.                           *)
EnterFails(x) ==
    /\ Entering(x) /\ Fault
    /\ todo' = [todo EXCEPT !["cycle"] = @ \ {x}]
    /\ UNCHANGED <<mode, pos, journal, exchange, failures, at, flagged, closed,
                   opened, store, history, visits>>

(* preventFurtherEntries: bought but unprotected, and nothing else is      *)
(* tried in this cycle.                                                    *)
EnterExposed(x) ==
    /\ Entering(x) /\ x \notin Open /\ live /\ Fault
    /\ pos' = Put(pos, x, Unprotected(Fresh))
    /\ booked' = [booked EXCEPT ![x] = 0]
    /\ dropped' = dropped \ {x}
    /\ closed' = [closed EXCEPT !["operator"] = @ \ {x}]
    /\ todo' = [a \in Actor |-> IF a = "cycle" THEN {} ELSE todo[a] \ {x}]
    /\ unsaved' = TRUE
    /\ Reset(x)
    /\ Goto("cycle", "settle")
    /\ UNCHANGED <<mode, exchange, failures, flagged, opened, reported, overlapped,
                   undisturbed, visits>>

(* Ambiguous, or bought and sold again at once: the loop stops.            *)
EnterStops(x) ==
    /\ Entering(x) /\ live /\ Fault
    /\ todo' = [todo EXCEPT !["cycle"] = {}]
    /\ Goto("cycle", "settle")
    /\ UNCHANGED <<mode, pos, journal, exchange, failures, flagged, closed, opened,
                   store, history, visits>>

NoneLeft ==
    /\ at["cycle"] = "enter" /\ todo["cycle"] = {}
    /\ Goto("cycle", "settle")
    /\ UNCHANGED <<mode, pos, journal, exchange, failures, todo, flagged, closed,
                   opened, store, history, faults, visits>>

-----------------------------------------------------------------------------
(* The end of a cycle: runTradingCycle.                                    *)

Settle ==
    /\ at["cycle"] = "settle"
    /\ \/ /\ refreshExchangeSafetyState(truth, syncOrderLifecycleState(pos), FALSE)
          /\ Goto("cycle", "persist") /\ UNCHANGED faults
       \/ /\ Fault                             \* the portfolio, or a record
          /\ pending' = syncOrderLifecycleState(pos)
          /\ Goto("cycle", "failed") /\ UNCHANGED <<truth, frozen>>
    /\ UNCHANGED <<mode, pos, journal, failures, todo, flagged, closed, opened,
                   store, history, visits>>

(* Seeded bug: the note that the entry was saved is left for the next save.*)
Persist_Once ==
    /\ at["cycle"] = "persist"
    /\ failures' = 0
    /\ refreshExchangeSafetyState(truth, pending, FALSE)
    /\ \/ /\ unsaved' = opened /\ UNCHANGED faults
          /\ Goto("cycle", "idle") /\ reported' = "ok"
       \/ SaveFails /\ Goto("cycle", "failed") /\ UNCHANGED reported
    /\ UNCHANGED <<mode, pos, journal, todo, flagged, closed, opened, history, visits>>

(* The success is recorded before the save that may still fail.  A saved   *)
(* entry is noted, and the note is saved again.                            *)
Persist ==
    /\ at["cycle"] = "persist"
    /\ failures' = 0
    /\ refreshExchangeSafetyState(truth, pending, FALSE)
    /\ \/ /\ ~opened /\ Saves
          /\ Goto("cycle", "idle") /\ reported' = "ok"
       \/ /\ opened
          /\ Goto("cycle", "persistEntry") /\ unsaved' = TRUE
          /\ UNCHANGED <<reported, faults>>
       \/ SaveFails /\ Goto("cycle", "failed") /\ UNCHANGED reported
    /\ UNCHANGED <<mode, pos, journal, todo, flagged, closed, opened, history, visits>>

PersistEntry ==
    /\ at["cycle"] = "persistEntry"
    /\ \/ Saves /\ Goto("cycle", "idle") /\ reported' = "ok"
       \/ SaveFails /\ Goto("cycle", "failed") /\ UNCHANGED reported
    /\ UNCHANGED <<mode, pos, journal, exchange, failures, todo, flagged, closed,
                   opened, history, visits>>

(* A failure of the cycle: it is counted, and what there is gets saved if  *)
(* it can be.                                                              *)
FailCycle ==
    /\ at["cycle"] = "failed"
    /\ recordFailure
    /\ refreshExchangeSafetyState(truth, pending, FALSE)
    /\ Saves \/ SaveFails
    /\ Goto("cycle", "idle") /\ reported' = "failed"
    /\ UNCHANGED <<mode, pos, journal, todo, flagged, closed, opened, history, visits>>

-----------------------------------------------------------------------------
(* The operator's requests and the dashboard's audits, at any await of the *)
(* cycle.                                                                  *)

Request ==
    /\ at["operator"] = "idle"
    /\ visits < MaxVisits /\ visits' = visits + 1
    /\ undisturbed' = FALSE

(* The freeze comes first; outside live, or under a ban, nothing else does.*)
forceReconcile ==
    /\ Request
    /\ \/ /\ live /\ StartReconcile("operator")
          /\ truth' = [truth EXCEPT !.freeze = TRUE]
          /\ UNCHANGED <<frozen, pending, faults>>
       \/ /\ \/ ~live /\ UNCHANGED faults
             \/ live /\ Fault
          /\ refreshExchangeSafetyState([truth EXCEPT !.freeze = TRUE],
                syncOrderLifecycleState(pos), FALSE)
          /\ Goto("operator", "save")
          /\ UNCHANGED <<todo, flagged, closed, overlapped>>
    /\ UNCHANGED <<mode, pos, journal, failures, opened, store, streak>>

EndForceReconcile ==
    /\ at["operator"] = "apply" /\ closed["operator"] = {}
    /\ \E found \in 0..1 :
          /\ Foreign(found)
          /\ refreshExchangeSafetyState(Truth(Cardinality(flagged["operator"]) + found),
                syncOrderLifecycleState(pos), FALSE)
    /\ Goto("operator", "save")
    /\ undisturbed' = FALSE
    /\ UNCHANGED <<mode, pos, journal, failures, todo, flagged, closed, opened,
                   store, streak, overlapped, visits>>

(* Refused in live when the exchange holds no protection for the position. *)
markPositionReviewed(x) ==
    /\ Request
    /\ x \in Open /\ pos[x].review /\ (live => pos[x].prot)
    /\ pos' = Put(pos, x, [pos[x] EXCEPT !.review = FALSE, !.op = "protect_only",
                                         !.life = "protect_only"])
    /\ refreshExchangeSafetyState(truth, syncOrderLifecycleState(pos'), FALSE)
    /\ Reset(x)
    /\ unsaved' = TRUE
    /\ Goto("operator", "save")
    /\ UNCHANGED <<mode, journal, failures, todo, flagged, closed, opened, reported,
                   overlapped, faults>>

SaveRequest ==
    /\ at["operator"] = "save"
    /\ \/ Saves /\ reported' = "ok"
       \/ SaveFails /\ reported' = "failed"
    /\ Goto("operator", "idle")
    /\ UNCHANGED <<mode, pos, journal, exchange, failures, todo, flagged, closed,
                   opened, history, visits>>

(* The truth loop of the doctor and the report, auditOnly: it changes no   *)
(* position, but replaces the exchange truth by what it found.             *)
maybeRunExchangeTruthLoop ==
    /\ live /\ Request
    /\ \E mismatch \in 0..Cardinality(Symbols) : truth' = Truth(mismatch)
    /\ pending' = syncOrderLifecycleState(pos)
    /\ UNCHANGED <<mode, pos, journal, frozen, failures, work, opened, store, streak,
                   overlapped, faults>>

-----------------------------------------------------------------------------
Manage(x) ==
    \/ ManageSettled(x) \/ ManageBlind(x) \/ ManageHeld(x) \/ ManageUnprotected(x)
    \/ ManageClosed(x) \/ ManageFailed(x) \/ ManageSafeguarded(x)

Enter(x) == EnterOk(x) \/ EnterFails(x) \/ EnterExposed(x) \/ EnterStops(x)

ReconcileStep(a) ==
    \/ \E x \in Symbols : Reconcile(a, x) \/ ApplyTrade(a, x)
    \/ ReconcileThrows(a) \/ EndReconcile(a)

CycleStep ==
    \/ StartCycle \/ ReconcileStep("cycle") \/ MergeTruth
    \/ \E x \in Symbols : Manage(x) \/ Enter(x)
    \/ ClearEntries \/ Scan \/ NoneLeft
    \/ Settle \/ Persist \/ PersistEntry \/ FailCycle

OperatorStep == ReconcileStep("operator") \/ EndForceReconcile \/ SaveRequest

Requests ==
    \/ forceReconcile \/ maybeRunExchangeTruthLoop
    \/ \E x \in Symbols : markPositionReviewed(x)

Next == CycleStep \/ OperatorStep \/ Requests

Spec == Init /\ [][Next]_vars /\ WF_vars(CycleStep) /\ WF_vars(OperatorStep)

-----------------------------------------------------------------------------
TypeOK ==
    /\ mode \in {"live", "paper"}
    /\ Open \subseteq Symbols /\ pos \in [Open -> Flags]
    /\ \A s \in Open : pos[s].fail <= positionFailureManualReviewCount
    /\ booked \in [Symbols -> 0..2] /\ dropped \subseteq Symbols
    /\ truth \in [freeze : BOOLEAN, mismatch : Nat] /\ frozen \in BOOLEAN
    /\ pending \subseteq MaterialStates \cup {"protect_only"}
    /\ failures \in 0..healthMaxConsecutiveFailures
    /\ at \in [Actor -> {"idle", "reconcile", "apply", "manage", "scan", "enter",
                         "settle", "persist", "persistEntry", "failed", "save"}]
    /\ at["cycle"] # "save"
    /\ at["operator"] \in {"idle", "reconcile", "apply", "save"}
    /\ todo \in [Actor -> SUBSET Symbols] /\ flagged \in [Actor -> SUBSET Symbols]
    /\ closed \in [Actor -> SUBSET Symbols]
    /\ {opened, unsaved, overlapped, undisturbed} \subseteq BOOLEAN
    /\ reported \in {"ok", "failed"}
    /\ streak \in [Symbols -> 0..positionFailureManualReviewCount]
    /\ faults \in 0..MaxFaults /\ visits \in 0..MaxVisits

(* While the cycle tries its entries and no request has come in since they *)
(* were cleared, no position waits for a review or a reconcile, and in     *)
(* live each one is protected or held in protect_only: what the freeze of  *)
(* refreshExchangeSafetyState and the break of the entry loop are for.     *)
EntriesNeedACleanBook ==
    (at["cycle"] = "enter" /\ undisturbed) =>
        \A s \in Open :
            /\ ~pos[s].review
            /\ pos[s].op = "normal" => ~pos[s].recon /\ (live => pos[s].prot)

(* A trade of a closed position reaches the journal or is on its way, but  *)
(* for those an error of a reconcile took with it; and it reaches it once, *)
(* unless a forced reconcile ran beside a cycle.                            *)
TradesBookedOnce ==
    \A s \in Symbols :
        /\ s \notin Open => \/ booked[s] > 0 \/ s \in dropped
                            \/ \E a \in Actor : s \in closed[a]
        /\ booked[s] = 2 => overlapped

(* When the last cycle or request reported success and nothing runs, the   *)
(* disk has everything that is in memory, the note of an entry included.   *)
SuccessIsSaved ==
    (reported = "ok" /\ \A a \in Actor : at[a] = "idle") => ~unsaved

(* Management never lifts a degradation: a review stays until a reconcile  *)
(* or the operator lifts it, and a position in protect_only goes back to   *)
(* normal only through a reconcile.                                        *)
DegradationsHold ==
    [][\A s \in Open :
        (at["cycle"] = "manage" /\ todo["cycle"] # todo'["cycle"] /\ s \in DOMAIN pos') =>
            /\ pos[s].review => pos'[s].review
            /\ pos[s].op # "normal" => pos'[s].op # "normal"]_vars

(* Once the faults are over a freeze ends: in live the next reconcile      *)
(* verifies every position, in paper the operator reviews what waits.      *)
FreezeLifts ==
    frozen ~> (~frozen \/ (~live /\ \E s \in Open : pos[s].review))

(* What the change log promises: a position whose management fails and     *)
(* fails again is put under manual review.                                 *)
RepeatedFailuresEscalate ==
    \A s \in Open : streak[s] >= positionFailureManualReviewCount => pos[s].review

=============================================================================
