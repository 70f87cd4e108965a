--------------------------- MODULE ReconcilePolicy --------------------------
(***************************************************************************)
(* What a reconcile decides about one live position and what the decision  *)
(* does to it: classifyReconcileDecision, applySafeReconcileAutofix and    *)
(* the mark* functions of src/execution/liveBrokerReconcile.js, with       *)
(* the lifecycle state that syncOrderLifecycleState derives.               *)
(*                                                                         *)
(* The evidence is a record of what the classifier tells apart, in the     *)
(* order in which it looks: the rules overlap, the first one that applies  *)
(* decides.  Quantities and prices are reduced to their verdicts.          *)
(***************************************************************************)
EXTENDS Naturals

Evidence ==
    [sync      : {"ok", "retryable", "failed"},
     partial   : BOOLEAN,           \* a partial snapshot or protective fill
     strayOrder : BOOLEAN,          \* an order that is not the position's
     priceOff  : BOOLEAN,           \* the fills disagree with the entry price
     flat      : BOOLEAN,           \* nothing left on the venue
     recent    : BOOLEAN,           \* a trade within the window
     aboveCap  : BOOLEAN,           \* worth more than maxAutoFixNotional
     quantity  : {"same", "minor", "large"},
     lists     : 0..2]              \* protective order lists on the venue

(* The flags of a position: what management and reconciliation write and   *)
(* the gates read.  prot is the link to a protective order list.           *)
Flags ==
    [fail : Nat, op : {"normal", "protect_only", "manual_review"},
     review : BOOLEAN, recon : BOOLEAN, prot : BOOLEAN,
     life : {"protected", "protection_pending", "reconcile_required",
             "manual_review", "protect_only", "simulated_open"}]

(* The rules of classifyReconcileDecision, first match decides.            *)
classifyReconcileDecision(e, linked) ==
    IF e.sync = "retryable" THEN "retry"
    ELSE IF e.sync = "failed" THEN "manual_review"
    ELSE IF e.partial THEN "retry"
    ELSE IF e.strayOrder \/ e.priceOff THEN "manual_review"
    ELSE IF e.flat THEN IF e.recent THEN "retry"
                        ELSE IF e.lists > 0 THEN "manual_review"
                        ELSE "close"
    ELSE IF e.aboveCap \/ e.quantity = "large" \/ e.lists = 2 THEN "manual_review"
    ELSE IF e.lists = 0 THEN "rebuild"
    ELSE IF linked THEN "verified" ELSE "adopt"

Degraded == {"reconcile_required", "manual_review", "protect_only", "protection_pending"}

clearPositionReconcileFlags(p) ==
    [p EXCEPT !.review = FALSE, !.recon = FALSE, !.op = "normal",
              !.life = IF @ \in Degraded
                       THEN IF p.prot THEN "protected" ELSE "protection_pending"
                       ELSE @]

markPositionForManualReview(p) ==
    [p EXCEPT !.review = TRUE, !.recon = TRUE, !.op = "protect_only",
              !.life = "manual_review"]

markPositionForRetry(p) ==
    [p EXCEPT !.recon = TRUE, !.op = "protect_only",
              !.life = IF p.review THEN "manual_review" ELSE "reconcile_required"]

(* A protective list was found on the venue or has been placed.            *)
attachProtectiveOrderState(p) ==
    [p EXCEPT !.prot = TRUE, !.recon = FALSE,
              !.life = IF p.review THEN "manual_review"
                       ELSE IF p.op = "protect_only" THEN "protect_only"
                       ELSE "protected"]

(* The rebuild of the protection was refused by the geometry check.        *)
RebuildRefused(p) ==
    [p EXCEPT !.prot = FALSE, !.recon = TRUE, !.op = "protect_only",
              !.life = "reconcile_required"]

(* A protective list was canceled or lost and could not be placed again.   *)
Unprotected(p) ==
    [p EXCEPT !.prot = FALSE, !.recon = TRUE, !.life = "reconcile_required"]

(* applySafeReconcileAutofix for a position that stays open: the flags are *)
(* cleared whatever raised them, a failing management included.            *)
applySafeReconcileAutofix(decision, p) ==
    clearPositionReconcileFlags(
        IF decision \in {"adopt", "rebuild"} THEN attachProtectiveOrderState(p) ELSE p)

(* The state syncOrderLifecycleState derives: protect_only hides a         *)
(* reconcile that is required.                                             *)
LifecycleState(p) ==
    IF p.review THEN "manual_review"
    ELSE IF p.op = "protect_only" THEN "protect_only"
    ELSE IF p.recon THEN "reconcile_required"
    ELSE p.life

(* The pending actions that freeze entries (exchangeSafetyReconciler.js).  *)
MaterialStates == {"manual_review", "reconcile_required", "protection_pending"}

materialPaperLifecyclePendingForEntryFreeze(states) == states \cap MaterialStates

=============================================================================
