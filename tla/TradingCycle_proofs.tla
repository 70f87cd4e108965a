-------------------------- MODULE TradingCycle_proofs -------------------------
(***************************************************************************)
(* Proofs about TradingCycle, for any set of symbols, any troubled         *)
(* evidence, any limits and any number of faults and requests: its types,  *)
(* and the four safety properties its run checks.                          *)
(***************************************************************************)
EXTENDS TradingCycle, FiniteSetTheorems, TLAPS

(* The flags of a position agree with each other: a position is in the     *)
(* manual_review mode only with the review it waits for, and in live one   *)
(* that is unprotected without any other mark says so in its lifecycle     *)
(* state, where the freeze looks.                                          *)
Sound(p) ==
    /\ p \in Flags /\ p.fail <= positionFailureManualReviewCount
    /\ p.op = "manual_review" => p.review
    /\ (live /\ ~p.review /\ p.op = "normal" /\ ~p.recon /\ ~p.prot)
          => p.life \in MaterialStates

SoundPositions ==
    /\ mode \in {"live", "paper"}
    /\ Open \subseteq Symbols /\ pos \in [Open -> Flags]
    /\ \A s \in Open : Sound(pos[s])

-----------------------------------------------------------------------------
(* What is done to the flags of a position keeps them sound.               *)
LEMMA FreshSound == ASSUME mode \in {"live", "paper"} PROVE Sound(Fresh)
<1>1. 0 \in Nat /\ 0 <= positionFailureManualReviewCount
  BY CycleAssumption
<1>2. CASE live
  BY <1>1, <1>2 DEF Sound, Fresh, Flags
<1>3. CASE ~live
  <2>1. live = FALSE
    BY <1>3 DEF live
  <2>2. Fresh = [fail |-> 0, op |-> "normal", review |-> FALSE, recon |-> FALSE,
                 prot |-> FALSE, life |-> "simulated_open"]
    BY <2>1 DEF Fresh
  <2> QED
    BY <1>1, <2>1, <2>2 DEF Sound, Flags
<1> QED
  BY <1>2, <1>3

LEMMA CountFailureSound == ASSUME NEW p, Sound(p) PROVE Sound(CountFailure(p))
<1> DEFINE n == IF p.fail < positionFailureManualReviewCount THEN p.fail + 1 ELSE p.fail
<1>1. p \in Flags /\ p.fail \in Nat /\ p.fail <= positionFailureManualReviewCount
  BY DEF Sound, Flags
<1>2. n \in Nat /\ n <= positionFailureManualReviewCount
  BY <1>1, CycleAssumption
<1> HIDE DEF n
<1>3. CountFailure(p) =
        IF n >= positionFailureManualReviewCount
        THEN [p EXCEPT !.fail = n, !.op = "manual_review", !.review = TRUE,
                       !.life = "manual_review"]
        ELSE IF n >= positionFailureProtectOnlyCount
        THEN [p EXCEPT !.fail = n, !.op = "protect_only", !.life = "protect_only"]
        ELSE [p EXCEPT !.fail = n]
  BY DEF CountFailure, n
<1>4. CASE n >= positionFailureManualReviewCount
  BY <1>1, <1>2, <1>3, <1>4 DEF Sound, Flags
<1>5. CASE ~(n >= positionFailureManualReviewCount) /\ n >= positionFailureProtectOnlyCount
  BY <1>1, <1>2, <1>3, <1>5 DEF Sound, Flags
<1>6. CASE ~(n >= positionFailureManualReviewCount) /\ ~(n >= positionFailureProtectOnlyCount)
  BY <1>1, <1>2, <1>3, <1>6 DEF Sound, Flags
<1> QED
  BY <1>4, <1>5, <1>6

LEMMA ReviewedSound == ASSUME NEW p, Sound(p) PROVE Sound(Reviewed(p))
<1>1. p \in Flags
  BY DEF Sound
<1>2. 0 \in Nat /\ 0 <= positionFailureManualReviewCount
  BY CycleAssumption
<1>3. CASE p.review \/ p.recon
  BY <1>3 DEF Reviewed
<1>4. CASE ~(p.review \/ p.recon) /\ p.op = "protect_only"
  BY <1>1, <1>2, <1>4 DEF Reviewed, Sound, Flags
<1>5. CASE ~(p.review \/ p.recon) /\ p.op # "protect_only"
  <2> DEFINE life == IF live /\ ~p.prot THEN "protection_pending"
                     ELSE IF p.life \in Degraded
                     THEN IF p.prot THEN "protected" ELSE "simulated_open"
                     ELSE p.life
  <2>1. Reviewed(p) = [p EXCEPT !.fail = 0, !.op = "normal", !.life = life]
    BY <1>5 DEF Reviewed
  <2>2. /\ life \in {"protected", "protection_pending", "reconcile_required",
                     "manual_review", "protect_only", "simulated_open"}
        /\ live /\ ~p.prot => life \in MaterialStates
    BY <1>1 DEF Flags, MaterialStates
  <2> HIDE DEF life
  <2> QED
    BY <1>1, <1>2, <2>1, <2>2 DEF Sound, Flags
<1> QED
  BY <1>3, <1>4, <1>5

LEMMA UnprotectedSound == ASSUME NEW p, Sound(p) PROVE Sound(Unprotected(p))
BY DEF Sound, Flags, Unprotected

LEMMA MarkedSound ==
    ASSUME NEW p, Sound(p)
    PROVE  /\ Sound(markPositionForRetry(p))
           /\ Sound(markPositionForManualReview(p))
           /\ Sound(RebuildRefused(p))
BY DEF Sound, Flags, markPositionForRetry, markPositionForManualReview, RebuildRefused

LEMMA OperatorReviewSound ==
    ASSUME NEW p, Sound(p)
    PROVE  Sound([p EXCEPT !.review = FALSE, !.op = "protect_only", !.life = "protect_only"])
BY DEF Sound, Flags

LEMMA ClearedSound ==
    ASSUME NEW p, Sound(p), p.prot
    PROVE  Sound(clearPositionReconcileFlags(p))
BY DEF Sound, Flags, clearPositionReconcileFlags

LEMMA AttachedSound ==
    ASSUME NEW p, Sound(p)
    PROVE  /\ Sound(attachProtectiveOrderState(p))
           /\ attachProtectiveOrderState(p).prot
BY DEF Sound, Flags, attachProtectiveOrderState

(* A position is verified only when it is linked to a protective list;     *)
(* clearing the flags of one that is not would hide it from the freeze.    *)
LEMMA VerifiedIsLinked ==
    ASSUME NEW e \in Evidence, NEW linked \in BOOLEAN,
           classifyReconcileDecision(e, linked) = "verified"
    PROVE  linked
BY DEF Evidence, classifyReconcileDecision

LEMMA AutofixSound ==
    ASSUME NEW p, Sound(p), NEW decision, decision = "verified" => p.prot
    PROVE  Sound(applySafeReconcileAutofix(decision, p))
           \/ decision \notin {"verified", "adopt", "rebuild"}
<1>1. CASE decision \in {"adopt", "rebuild"}
  BY <1>1, AttachedSound, ClearedSound DEF applySafeReconcileAutofix
<1>2. CASE decision = "verified"
  BY <1>2, ClearedSound DEF applySafeReconcileAutofix
<1> QED
  BY <1>1, <1>2

-----------------------------------------------------------------------------
(* A position that is stored or dropped leaves the others alone.           *)
LEMMA PutEffect ==
    ASSUME SoundPositions, mode' = mode, NEW x \in Symbols, NEW p, Sound(p),
           pos' = Put(pos, x, p)
    PROVE  /\ SoundPositions' /\ Open' = Open \cup {x} /\ pos'[x] = p
           /\ \A s \in Open \ {x} : pos'[s] = pos[s]
<1>1. /\ Open' = Open \cup {x} /\ pos'[x] = p
      /\ \A s \in Open \ {x} : pos'[s] = pos[s]
      /\ pos' = [s \in Open' |-> pos'[s]]
  BY DEF Put, Open
<1>2. \A s \in Open' : pos'[s] \in Flags /\ Sound(pos'[s])
  BY <1>1 DEF SoundPositions, Sound
<1>3. Open' \subseteq Symbols
  BY <1>1 DEF SoundPositions
<1> QED
  BY <1>1, <1>2, <1>3 DEF SoundPositions, Sound, live

LEMMA DropEffect ==
    ASSUME SoundPositions, mode' = mode, NEW x \in Symbols, pos' = Drop(pos, x)
    PROVE  /\ SoundPositions' /\ Open' = Open \ {x}
           /\ \A s \in Open \ {x} : pos'[s] = pos[s]
<1>1. /\ Open' = Open \ {x}
      /\ \A s \in Open \ {x} : pos'[s] = pos[s]
      /\ pos' = [s \in Open' |-> pos'[s]]
  BY DEF Drop, Open
<1>2. \A s \in Open' : pos'[s] \in Flags /\ Sound(pos'[s])
  BY <1>1 DEF SoundPositions, Sound
<1>3. Open' \subseteq Symbols
  BY <1>1 DEF SoundPositions
<1> QED
  BY <1>1, <1>2, <1>3 DEF SoundPositions, Sound, live

LEMMA SameEffect ==
    ASSUME SoundPositions, mode' = mode, pos' = pos
    PROVE  SoundPositions' /\ Open' = Open
BY DEF SoundPositions, Sound, live, Open

-----------------------------------------------------------------------------
(* What the steps do to the positions.                                     *)

(* A management step leaves the position with sound flags and with its     *)
(* degradation, or sells it.                                               *)
LEMMA ReviewedHolds ==
    ASSUME NEW p, Sound(p)
    PROVE  /\ p.review => Reviewed(p).review
           /\ p.op # "normal" => Reviewed(p).op # "normal"
<1>1. p \in Flags
  BY DEF Sound
<1>2. CASE p.review \/ p.recon
  BY <1>2 DEF Reviewed
<1>3. CASE ~(p.review \/ p.recon) /\ p.op = "protect_only"
  BY <1>1, <1>3 DEF Reviewed, Flags
<1>4. CASE ~(p.review \/ p.recon) /\ p.op # "protect_only"
  BY <1>1, <1>4 DEF Sound, Flags
<1> QED
  BY <1>2, <1>3, <1>4

LEMMA CountFailureHolds ==
    ASSUME NEW p, Sound(p)
    PROVE  /\ p.review => CountFailure(p).review
           /\ p.op # "normal" => CountFailure(p).op # "normal"
<1>1. p \in Flags
  BY DEF Sound
<1> DEFINE n == IF p.fail < positionFailureManualReviewCount THEN p.fail + 1 ELSE p.fail
<1>2. CountFailure(p) =
        IF n >= positionFailureManualReviewCount
        THEN [p EXCEPT !.fail = n, !.op = "manual_review", !.review = TRUE,
                       !.life = "manual_review"]
        ELSE IF n >= positionFailureProtectOnlyCount
        THEN [p EXCEPT !.fail = n, !.op = "protect_only", !.life = "protect_only"]
        ELSE [p EXCEPT !.fail = n]
  BY DEF CountFailure, n
<1> HIDE DEF n
<1> QED
  BY <1>1, <1>2 DEF Flags

LEMMA UnprotectedHolds ==
    ASSUME NEW p, Sound(p)
    PROVE  Unprotected(p).review = p.review /\ Unprotected(p).op = p.op
BY DEF Sound, Flags, Unprotected

(* Whichever way the management of a position ends.                        *)
LEMMA ManageFrame ==
    ASSUME NEW x \in Symbols, Manage(x)
    PROVE  /\ Managing(x) /\ Managed(x)
           /\ x \notin Open => pos' = pos /\ booked' = booked
BY DEF Manage, ManageSettled, ManageBlind, ManageHeld, ManageUnprotected,
       ManageClosed, ManageFailed, ManageSafeguarded

LEMMA ManageEffect ==
    ASSUME SoundPositions, NEW x \in Symbols, Manage(x)
    PROVE  /\ SoundPositions'
           /\ \/ Open' = Open /\ booked' = booked
              \/ x \in Open /\ Open' = Open \ {x} /\ Book(x)
           /\ \A s \in Open \cap Open' :
                /\ pos[s].review => pos'[s].review
                /\ pos[s].op # "normal" => pos'[s].op # "normal"
<1>1. mode' = mode
  BY ManageFrame DEF Managed
<1>2. CASE x \notin Open
  <2>1. pos' = pos /\ booked' = booked
    BY <1>2, ManageFrame
  <2> QED
    BY <1>1, <2>1, SameEffect
<1>3. CASE x \in Open
  <2> DEFINE p == pos[x]
             Kept(q) == /\ Sound(q)
                        /\ p.review => q.review
                        /\ p.op # "normal" => q.op # "normal"
  <2>1. Sound(p)
    BY <1>3 DEF SoundPositions
  <2>2. Kept(Reviewed(p))
    BY <2>1, ReviewedSound, ReviewedHolds
  <2>3. Kept(CountFailure(p)) /\ Kept(CountFailure(Reviewed(p)))
    BY <2>1, <2>2, CountFailureSound, CountFailureHolds
  <2>4. Kept(Unprotected(Reviewed(p)))
    BY <2>2, UnprotectedSound, UnprotectedHolds
  <2>5. ASSUME NEW q, Kept(q), pos' = Put(pos, x, q), booked' = booked
        PROVE  /\ SoundPositions' /\ Open' = Open /\ booked' = booked
               /\ \A s \in Open \cap Open' :
                    /\ pos[s].review => pos'[s].review
                    /\ pos[s].op # "normal" => pos'[s].op # "normal"
    <3>1. /\ SoundPositions' /\ Open' = Open \cup {x} /\ pos'[x] = q
          /\ \A s \in Open \ {x} : pos'[s] = pos[s]
      BY <1>1, <2>5, PutEffect
    <3> QED
      BY <1>3, <2>5, <3>1
  <2>6. CASE ManageClosed(x)
    <3>1. pos' = Drop(pos, x) /\ Book(x)
      BY <2>6 DEF ManageClosed
    <3>2. /\ SoundPositions' /\ Open' = Open \ {x}
          /\ \A s \in Open \ {x} : pos'[s] = pos[s]
      BY <1>1, <3>1, DropEffect
    <3> QED
      BY <1>3, <3>1, <3>2
  <2>7. CASE ~ManageClosed(x)
    <3>1. \E q \in {Reviewed(p), CountFailure(p), CountFailure(Reviewed(p)),
                    Unprotected(Reviewed(p))} :
             pos' = Put(pos, x, q) /\ booked' = booked
      <4>1. ~ManageSettled(x)
        BY <1>3 DEF ManageSettled
      <4>2. ManageBlind(x) => pos' = Put(pos, x, CountFailure(p)) /\ booked' = booked
        BY DEF ManageBlind
      <4>3. ManageHeld(x) => pos' = Put(pos, x, Reviewed(p)) /\ booked' = booked
        BY DEF ManageHeld
      <4>4. ManageUnprotected(x) =>
              pos' = Put(pos, x, Unprotected(Reviewed(p))) /\ booked' = booked
        BY DEF ManageUnprotected
      <4>5. ManageFailed(x) =>
              pos' = Put(pos, x, CountFailure(Reviewed(p))) /\ booked' = booked
        BY DEF ManageFailed
      <4>6. ManageSafeguarded(x) =>
              /\ pos' \in {Put(pos, x, Reviewed(p)), Put(pos, x, Unprotected(Reviewed(p)))}
              /\ booked' = booked
        BY DEF ManageSafeguarded
      <4> HIDE DEF p
      <4> QED
        BY <2>7, <4>1, <4>2, <4>3, <4>4, <4>5, <4>6 DEF Manage
    <3>2. PICK q \in {Reviewed(p), CountFailure(p), CountFailure(Reviewed(p)),
                     Unprotected(Reviewed(p))} :
             pos' = Put(pos, x, q) /\ booked' = booked
      BY <3>1
    <3>3. Kept(q)
      BY <2>2, <2>3, <2>4, <3>2
    <3> QED
      BY <2>5, <3>2, <3>3
  <2> QED
    BY <2>6, <2>7
<1> QED
  BY <1>2, <1>3

(* A reconcile step closes the position, marks it, or finds it settled.    *)
LEMMA DecisionEffect ==
    ASSUME SoundPositions, mode' = mode, NEW a \in Actor, NEW x \in Open,
           NEW e \in Evidence,
           resolvePositionReconcileDecision(a, x,
               classifyReconcileDecision(e, pos[x].prot))
    PROVE  \/ Close(a, x)
           \/ \E q \in Flags, m \in BOOLEAN : Sound(q) /\ Mark(a, x, q, m)
<1> DEFINE decision == classifyReconcileDecision(e, pos[x].prot)
<1>1. Sound(pos[x]) /\ pos[x].prot \in BOOLEAN
  BY DEF SoundPositions, Flags
<1>2. decision = "verified" => pos[x].prot
  BY <1>1, VerifiedIsLinked
<1>3. resolvePositionReconcileDecision(a, x, decision)
  OBVIOUS
<1> HIDE DEF decision
<1>4. CASE decision = "retry" /\ \E exhausted \in BOOLEAN :
             Mark(a, x, markPositionForRetry(pos[x]), exhausted)
  BY <1>1, <1>4, MarkedSound DEF Sound
<1>5. CASE decision = "manual_review" /\ Mark(a, x, markPositionForManualReview(pos[x]), TRUE)
  BY <1>1, <1>5, MarkedSound DEF Sound
<1>6. CASE /\ decision \in {"verified", "adopt", "rebuild"}
           /\ Mark(a, x, applySafeReconcileAutofix(decision, pos[x]), FALSE)
  BY <1>1, <1>2, <1>6, AutofixSound DEF Sound
<1> QED
  BY <1>3, <1>4, <1>5, <1>6 DEF resolvePositionReconcileDecision

LEMMA NormalEvidence ==
    ASSUME NEW p, Sound(p) PROVE Match(p) \in Evidence /\ Gone(p) \in Evidence
<1>1. Match(p) \in Evidence
  BY DEF Match, Evidence
<1>2. Gone(p) \in Evidence
  <2> DEFINE m == Match(p)
  <2>1. m \in Evidence
    BY <1>1
  <2> HIDE DEF m
  <2>2. [m EXCEPT !.flat = TRUE] \in Evidence
    BY <2>1 DEF Evidence
  <2>3. \A n \in Evidence : [n EXCEPT !.lists = 0] \in Evidence
    <3>1. 0 \in 0..2
      OBVIOUS
    <3> QED
      BY <3>1, Zenon DEF Evidence
  <2> QED
    BY <2>2, <2>3 DEF Gone, m
<1> QED
  BY <1>1, <1>2

LEMMA ReconcileEffect ==
    ASSUME SoundPositions, NEW a \in Actor, NEW x \in Symbols, Reconcile(a, x)
    PROVE  \/ ReconcileSettled(a, x)
           \/ x \in Open /\ Close(a, x)
           \/ x \in Open /\ \E q \in Flags, m \in BOOLEAN : Sound(q) /\ Mark(a, x, q, m)
<1>1. mode' = mode
  BY DEF Reconcile
<1>2. CASE ReconcileSettled(a, x)
  BY <1>2
<1>3. CASE ~ReconcileSettled(a, x)
  <2>1. x \in Open /\ Sound(pos[x])
    BY <1>3 DEF Reconcile, SoundPositions
  <2>2. ASSUME NEW e \in Evidence,
               resolvePositionReconcileDecision(a, x,
                   classifyReconcileDecision(e, pos[x].prot))
        PROVE  \/ Close(a, x)
               \/ \E q \in Flags, m \in BOOLEAN : Sound(q) /\ Mark(a, x, q, m)
    BY <1>1, <2>1, <2>2, DecisionEffect
  <2>3. CASE \E e \in {Match(pos[x]), Gone(pos[x])} \cup Trouble :
                resolvePositionReconcileDecision(a, x,
                    classifyReconcileDecision(e, pos[x].prot))
    <3>1. {Match(pos[x]), Gone(pos[x])} \cup Trouble \subseteq Evidence
      BY <2>1, NormalEvidence, CycleAssumption
    <3> QED
      BY <2>1, <2>2, <2>3, <3>1
  <2>4. CASE Mark(a, x, RebuildRefused(pos[x]), TRUE)
    BY <2>1, <2>4, MarkedSound DEF Sound
  <2> QED
    BY <1>3, <2>3, <2>4 DEF Reconcile
<1> QED
  BY <1>2, <1>3

LEMMA ReconcileFrame ==
    ASSUME NEW a \in Actor, NEW x \in Symbols, Reconcile(a, x)
    PROVE  /\ at[a] = "reconcile" /\ x \in todo[a]
           /\ todo' = [todo EXCEPT ![a] = @ \ {x}]
           /\ at' = at /\ mode' = mode /\ overlapped' = overlapped
           /\ UNCHANGED <<journal, exchange, failures, opened, reported, visits>>
           /\ streak' = streak \/ streak' = [streak EXCEPT ![x] = 0]
           /\ faults' = faults \/ Fault
           /\ Disturbs(a)
<1>1. /\ at[a] = "reconcile" /\ x \in todo[a]
      /\ todo' = [todo EXCEPT ![a] = @ \ {x}]
      /\ at' = at /\ mode' = mode /\ overlapped' = overlapped
      /\ UNCHANGED <<journal, exchange, failures, opened, reported, visits>>
      /\ Disturbs(a)
  BY DEF Reconcile
<1>2. streak' = streak \/ streak' = [streak EXCEPT ![x] = 0]
  BY DEF Reconcile, ReconcileSettled
<1>3. faults' = faults \/ Fault
  BY DEF Reconcile, ReconcileSettled
<1> QED
  BY <1>1, <1>2, <1>3

(* In terms of what is open and of the trades it has closed.               *)
LEMMA ReconcileTrades ==
    ASSUME SoundPositions, flagged \in [Actor -> SUBSET Symbols],
           NEW a \in Actor, NEW x \in Symbols, Reconcile(a, x)
    PROVE  /\ SoundPositions'
           /\ \/ Open' = Open /\ closed' = closed
              \/ /\ Open' = Open \ {x}
                 /\ closed' = [closed EXCEPT ![a] = @ \cup {x}]
           /\ flagged' \in [Actor -> SUBSET Symbols]
           /\ unsaved' = unsaved \/ unsaved' = TRUE
<1>1. mode' = mode
  BY ReconcileFrame
<1>2. CASE ReconcileSettled(a, x)
  <2>1. /\ x \notin Open /\ UNCHANGED <<pos, flagged, unsaved>>
        /\ closed' \in {closed, [closed EXCEPT ![a] = @ \cup {x}]}
    BY <1>2 DEF ReconcileSettled
  <2>2. SoundPositions' /\ Open' = Open /\ Open = Open \ {x}
    BY <1>1, <2>1, SameEffect
  <2> QED
    BY <2>1, <2>2
<1>3. CASE Close(a, x)
  <2>1. /\ pos' = Drop(pos, x) /\ closed' = [closed EXCEPT ![a] = @ \cup {x}]
        /\ unsaved' = TRUE /\ flagged' = flagged
    BY <1>3 DEF Close
  <2> QED
    BY <1>1, <2>1, DropEffect
<1>4. CASE x \in Open /\ \E q \in Flags, m \in BOOLEAN : Sound(q) /\ Mark(a, x, q, m)
  <2>1. PICK q \in Flags, m \in BOOLEAN : Sound(q) /\ Mark(a, x, q, m)
    BY <1>4
  <2>2. /\ pos' = Put(pos, x, q) /\ closed' = closed /\ unsaved' = TRUE
        /\ flagged' = [flagged EXCEPT ![a] = IF m THEN @ \cup {x} ELSE @]
    BY <2>1 DEF Mark
  <2>3. SoundPositions' /\ Open' = Open
    BY <1>1, <1>4, <2>1, <2>2, PutEffect
  <2>4. flagged' \in [Actor -> SUBSET Symbols]
    BY <2>2
  <2> QED
    BY <2>2, <2>3, <2>4
<1> QED
  BY <1>2, <1>3, <1>4, ReconcileEffect

(* An entry that bought, whether its protection could be placed or not.    *)
LEMMA EnterEffect ==
    ASSUME SoundPositions, NEW x \in Symbols, EnterOk(x) \/ EnterExposed(x)
    PROVE  SoundPositions' /\ x \notin Open /\ Open' = Open \cup {x}
<1>1. Sound(Fresh) /\ Sound(Unprotected(Fresh))
  BY FreshSound, UnprotectedSound DEF SoundPositions
<1>2. /\ mode' = mode /\ x \notin Open
      /\ pos' = Put(pos, x, Fresh) \/ pos' = Put(pos, x, Unprotected(Fresh))
  BY DEF EnterOk, EnterExposed
<1> QED
  BY <1>1, <1>2, PutEffect

LEMMA OperatorReviewEffect ==
    ASSUME SoundPositions, NEW x \in Symbols, markPositionReviewed(x)
    PROVE  SoundPositions' /\ Open' = Open
<1>1. /\ mode' = mode /\ x \in Open
      /\ pos' = Put(pos, x, [pos[x] EXCEPT !.review = FALSE, !.op = "protect_only",
                                           !.life = "protect_only"])
  BY DEF markPositionReviewed
<1>2. Sound([pos[x] EXCEPT !.review = FALSE, !.op = "protect_only",
                           !.life = "protect_only"])
  BY <1>1, OperatorReviewSound DEF SoundPositions
<1> QED
  BY <1>1, <1>2, PutEffect

-----------------------------------------------------------------------------
(* Types, part by part.                                                    *)
CycleLabel == {"idle", "reconcile", "apply", "manage", "scan", "enter", "settle",
               "persist", "persistEntry", "failed"}
OperatorLabel == {"idle", "reconcile", "apply", "save"}

Places ==
    /\ at \in [Actor -> CycleLabel \cup OperatorLabel]
    /\ at["cycle"] \in CycleLabel /\ at["operator"] \in OperatorLabel
    /\ todo \in [Actor -> SUBSET Symbols] /\ flagged \in [Actor -> SUBSET Symbols]
    /\ closed \in [Actor -> SUBSET Symbols]

Journal ==
    /\ booked \in [Symbols -> 0..2] /\ dropped \subseteq Symbols
    /\ streak \in [Symbols -> 0..positionFailureManualReviewCount]

Gates ==
    /\ truth \in [freeze : BOOLEAN, mismatch : Nat] /\ frozen \in BOOLEAN
    /\ pending \subseteq MaterialStates \cup {"protect_only"}

Notes ==
    /\ failures \in 0..healthMaxConsecutiveFailures
    /\ {opened, unsaved, overlapped, undisturbed} \subseteq BOOLEAN
    /\ reported \in {"ok", "failed"}
    /\ faults \in 0..MaxFaults /\ visits \in 0..MaxVisits

Types == SoundPositions /\ Places /\ Journal /\ Gates /\ Notes

LEMMA TypesSuffice == Types => TypeOK
BY DEF Types, SoundPositions, Sound, Places, Journal, Gates, Notes, TypeOK,
       CycleLabel, OperatorLabel

(* The refreshed gates have their types.                                   *)
LEMMA StatesTyped ==
    ASSUME NEW f
    PROVE  syncOrderLifecycleState(f) \subseteq MaterialStates \cup {"protect_only"}
BY DEF syncOrderLifecycleState

LEMMA AuditTyped ==
    ASSUME NEW t, NEW states, NEW aged
    PROVE  buildExchangeSafetyAudit(t, states, aged) \in BOOLEAN
BY DEF buildExchangeSafetyAudit

LEMMA RefreshTyped ==
    ASSUME NEW t \in [freeze : BOOLEAN, mismatch : Nat],
           NEW states \in SUBSET (MaterialStates \cup {"protect_only"}), NEW aged,
           refreshExchangeSafetyState(t, states, aged)
    PROVE  Gates' /\ pending' = states
           /\ frozen' = buildExchangeSafetyAudit(t, states, aged)
<1>1. /\ pending' = states /\ frozen' = buildExchangeSafetyAudit(t, states, aged)
      /\ truth' \in {[t EXCEPT !.freeze = frozen'], [t EXCEPT !.freeze = FALSE], t}
  BY DEF refreshExchangeSafetyState
<1>2. frozen' \in BOOLEAN
  BY <1>1, AuditTyped
<1>3. truth' \in [freeze : BOOLEAN, mismatch : Nat]
  BY <1>1, <1>2
<1> QED
  BY <1>1, <1>2, <1>3 DEF Gates

LEMMA TruthTyped ==
    ASSUME NEW m \in Nat PROVE Truth(m) \in [freeze : BOOLEAN, mismatch : Nat]
BY DEF Truth

LEMMA FlaggedCount ==
    ASSUME NEW a \in Actor, flagged \in [Actor -> SUBSET Symbols], NEW found \in 0..1
    PROVE  Cardinality(flagged[a]) + found \in Nat
<1>1. flagged[a] \subseteq Symbols
  OBVIOUS
<1>2. Cardinality(flagged[a]) \in Nat
  BY <1>1, FS_Subset, FS_CardinalityType, CycleAssumption
<1> QED
  BY <1>2

LEMMA FaultTyped == ASSUME Notes, faults' = faults \/ Fault PROVE faults' \in 0..MaxFaults
BY CycleAssumption DEF Notes, Fault

-----------------------------------------------------------------------------
(* The actions a step may be.                                              *)
LEMMA StepCases ==
    ASSUME Next
    PROVE  \/ \E a \in Actor, x \in Symbols : Reconcile(a, x) \/ ApplyTrade(a, x)
           \/ \E a \in Actor : ReconcileThrows(a) \/ EndReconcile(a)
           \/ \E x \in Symbols : Manage(x) \/ Enter(x) \/ markPositionReviewed(x)
           \/ StartCycle \/ MergeTruth \/ ClearEntries \/ Scan \/ NoneLeft
           \/ Settle \/ Persist \/ PersistEntry \/ FailCycle
           \/ forceReconcile \/ EndForceReconcile \/ SaveRequest
           \/ maybeRunExchangeTruthLoop
<1>1. "cycle" \in Actor /\ "operator" \in Actor
  BY DEF Actor
<1>2. CASE ReconcileStep("cycle") \/ ReconcileStep("operator")
  BY <1>1, <1>2 DEF ReconcileStep
<1>3. CASE CycleStep /\ ~ReconcileStep("cycle")
  BY <1>3 DEF CycleStep
<1>4. CASE OperatorStep /\ ~ReconcileStep("operator")
  BY <1>4 DEF OperatorStep
<1>5. CASE Requests
  BY <1>5 DEF Requests
<1> QED
  BY <1>2, <1>3, <1>4, <1>5 DEF Next

-----------------------------------------------------------------------------
(* The types are kept, part by part.                                       *)
LEMMA PositionsStep == Types /\ [Next]_vars => SoundPositions'
<1> SUFFICES ASSUME Types, [Next]_vars PROVE SoundPositions'
  OBVIOUS
<1>1. SoundPositions /\ flagged \in [Actor -> SUBSET Symbols]
  BY DEF Types, Places
<1>2. ASSUME NEW a \in Actor, NEW x \in Symbols, Reconcile(a, x)
      PROVE  SoundPositions'
  BY <1>1, <1>2, ReconcileTrades
<1>3. ASSUME NEW x \in Symbols,
             Manage(x) \/ EnterOk(x) \/ EnterExposed(x) \/ markPositionReviewed(x)
      PROVE  SoundPositions'
  BY <1>1, <1>3, ManageEffect, EnterEffect, OperatorReviewEffect
<1>4. ASSUME pos' = pos, mode' = mode PROVE SoundPositions'
  BY <1>1, <1>4, SameEffect
<1>5. ASSUME NEW a \in Actor,
             \/ ReconcileThrows(a) \/ EndReconcile(a)
             \/ \E x \in Symbols : ApplyTrade(a, x) \/ EnterFails(x) \/ EnterStops(x)
      PROVE  SoundPositions'
  BY <1>4, <1>5 DEF ApplyTrade, ReconcileThrows, EndReconcile, EnterFails, EnterStops
<1>6. CASE StartCycle \/ MergeTruth \/ ClearEntries \/ Scan \/ NoneLeft
  BY <1>4, <1>6 DEF StartCycle, MergeTruth, ClearEntries, Scan, NoneLeft
<1>7. CASE Settle \/ Persist \/ PersistEntry \/ FailCycle
  BY <1>4, <1>7 DEF Settle, Persist, PersistEntry, FailCycle
<1>8. CASE forceReconcile \/ EndForceReconcile \/ SaveRequest \/ maybeRunExchangeTruthLoop
  BY <1>4, <1>8
     DEF forceReconcile, EndForceReconcile, SaveRequest, maybeRunExchangeTruthLoop
<1>9. CASE UNCHANGED vars
  BY <1>4, <1>9 DEF vars
<1> QED
  BY <1>2, <1>3, <1>5, <1>6, <1>7, <1>8, <1>9, StepCases DEF Enter, Actor

LEMMA PlacesStep == Types /\ [Next]_vars => Places'
<1> SUFFICES ASSUME Types, [Next]_vars PROVE Places'
  OBVIOUS
<1>1. Places /\ SoundPositions
  BY DEF Types
<1>2. Open \subseteq Symbols
  BY <1>1 DEF SoundPositions
<1> USE DEF Places, Goto, Actor, CycleLabel, OperatorLabel
<1>3. ASSUME NEW a \in Actor, NEW x \in Symbols, Reconcile(a, x) PROVE Places'
  <2>1. closed' = closed \/ closed' = [closed EXCEPT ![a] = @ \cup {x}]
    BY <1>1, <1>3, ReconcileTrades
  <2>2. closed' \in [Actor -> SUBSET Symbols]
    BY <1>1, <2>1
  <2>3. flagged' \in [Actor -> SUBSET Symbols]
    BY <1>1, <1>3, ReconcileTrades
  <2>4. at' = at /\ todo' \in [Actor -> SUBSET Symbols]
    BY <1>1, <1>3, ReconcileFrame
  <2> QED
    BY <1>1, <2>2, <2>3, <2>4
<1>4. ASSUME NEW a \in Actor, ReconcileThrows(a) \/ EndReconcile(a) PROVE Places'
  <2>1. CASE Abort(a, closed[a])
    BY <1>1, <1>4, <2>1 DEF ReconcileThrows, EndReconcile, Abort
  <2>2. CASE EndReconcile(a)
    BY <1>1, <2>2 DEF EndReconcile
  <2> QED
    BY <1>4, <2>1, <2>2 DEF ReconcileThrows
<1>14. ASSUME NEW a \in Actor, NEW x \in Symbols, ApplyTrade(a, x) PROVE Places'
  <2>1. CASE Abort(a, closed[a] \ {x})
    BY <1>1, <1>14, <2>1 DEF ApplyTrade, Abort
  <2>2. CASE ~Abort(a, closed[a] \ {x})
    BY <1>1, <1>14, <2>2 DEF ApplyTrade
  <2> QED
    BY <2>1, <2>2
<1>5. ASSUME NEW x \in Symbols, Manage(x) PROVE Places'
  BY <1>1, <1>5, ManageFrame DEF Managed
<1>6. ASSUME NEW x \in Symbols, Enter(x) PROVE Places'
  BY <1>1, <1>6 DEF Enter, EnterOk, EnterFails, EnterExposed, EnterStops
<1>7. ASSUME NEW x \in Symbols, markPositionReviewed(x) PROVE Places'
  BY <1>1, <1>7 DEF markPositionReviewed
<1>8. CASE StartCycle
  BY <1>1, <1>2, <1>8 DEF StartCycle, StartReconcile
<1>9. CASE MergeTruth \/ ClearEntries \/ NoneLeft
  BY <1>1, <1>2, <1>9 DEF MergeTruth, ClearEntries, NoneLeft
<1>15. CASE Scan
  <2>1. PICK w \in SUBSET Symbols, label \in CycleLabel :
           /\ todo' = todo \/ todo' = [todo EXCEPT !["cycle"] = w]
           /\ at' = [at EXCEPT !["cycle"] = label]
           /\ flagged' = flagged /\ closed' = closed
    BY <1>15 DEF Scan
  <2> QED
    BY <1>1, <2>1
<1>10. CASE Settle \/ Persist \/ PersistEntry \/ FailCycle
  BY <1>1, <1>10 DEF Settle, Persist, PersistEntry, FailCycle
<1>11. CASE forceReconcile
  <2>1. CASE StartReconcile("operator")
    BY <1>1, <1>2, <2>1 DEF StartReconcile
  <2>2. CASE ~StartReconcile("operator")
    BY <1>1, <1>11, <2>2 DEF forceReconcile
  <2> QED
    BY <2>1, <2>2
<1>12. CASE EndForceReconcile \/ SaveRequest \/ maybeRunExchangeTruthLoop
  BY <1>1, <1>12 DEF EndForceReconcile, SaveRequest, maybeRunExchangeTruthLoop, work
<1>13. CASE UNCHANGED vars
  BY <1>1, <1>13 DEF vars, work
<1> QED
  BY <1>3, <1>4, <1>5, <1>6, <1>7, <1>8, <1>9, <1>10, <1>11, <1>12, <1>13, <1>14, <1>15, StepCases

LEMMA BookTyped ==
    ASSUME Journal, NEW x \in Symbols, Book(x)
    PROVE  booked' \in [Symbols -> 0..2] /\ booked'[x] \in 1..2
           /\ (booked[x] = 0 => booked'[x] = 1)
           /\ \A s \in Symbols \ {x} : booked'[s] = booked[s]
<1> DEFINE n == IF booked[x] < 2 THEN booked[x] + 1 ELSE booked[x]
<1>1. n \in 1..2 /\ n \in 0..2 /\ (booked[x] = 0 => n = 1)
  BY DEF Journal
<1>2. booked' = [booked EXCEPT ![x] = n]
  BY DEF Book
<1> HIDE DEF n
<1> QED
  BY <1>1, <1>2 DEF Journal

LEMMA StreakTyped ==
    ASSUME Journal, NEW x \in Symbols, Raise(x) \/ Reset(x)
    PROVE  streak' \in [Symbols -> 0..positionFailureManualReviewCount]
<1> DEFINE n == IF streak[x] < positionFailureManualReviewCount
                THEN streak[x] + 1 ELSE streak[x]
<1>1. {n, 0} \subseteq 0..positionFailureManualReviewCount
  BY CycleAssumption DEF Journal
<1>2. streak' = [streak EXCEPT ![x] = n] \/ streak' = [streak EXCEPT ![x] = 0]
  BY DEF Raise, Reset
<1> HIDE DEF n
<1> QED
  BY <1>1, <1>2 DEF Journal

LEMMA ManageStreak ==
    ASSUME NEW x \in Symbols, Manage(x)
    PROVE  streak' = streak \/ Raise(x) \/ Reset(x)
BY DEF Manage, ManageSettled, ManageBlind, ManageHeld, ManageUnprotected,
       ManageClosed, ManageFailed, ManageSafeguarded

LEMMA JournalStep == Types /\ [Next]_vars => Journal'
<1> SUFFICES ASSUME Types, [Next]_vars PROVE Journal'
  OBVIOUS
<1>1. SoundPositions /\ Places /\ Journal
  BY DEF Types
<1>2. ASSUME booked' = booked, dropped' = dropped, streak' = streak PROVE Journal'
  BY <1>1, <1>2 DEF Journal
<1>3. ASSUME NEW a \in Actor, NEW x \in Symbols, Reconcile(a, x) PROVE Journal'
  <2>1. /\ booked' = booked /\ dropped' = dropped
        /\ streak' = streak \/ streak' = [streak EXCEPT ![x] = 0]
    BY <1>3, ReconcileFrame DEF journal
  <2>2. 0 \in 0..positionFailureManualReviewCount
    BY CycleAssumption
  <2>3. streak' \in [Symbols -> 0..positionFailureManualReviewCount]
    BY <1>1, <2>1, <2>2, Zenon DEF Journal
  <2> QED
    BY <1>1, <2>1, <2>3 DEF Journal
<1>4. ASSUME NEW a \in Actor, NEW x \in Symbols, ApplyTrade(a, x) PROVE Journal'
  <2>1. /\ booked' \in [Symbols -> 0..2] /\ streak' = streak
        /\ dropped' = dropped \/ dropped' = dropped \cup (closed[a] \ {x})
    BY <1>1, <1>4, BookTyped DEF ApplyTrade, Abort
  <2>2. closed[a] \subseteq Symbols
    BY <1>1 DEF Places
  <2> QED
    BY <1>1, <2>1, <2>2 DEF Journal
<1>5. ASSUME NEW a \in Actor, ReconcileThrows(a) PROVE Journal'
  <2>1. booked' = booked /\ streak' = streak /\ dropped' = dropped \cup closed[a]
    BY <1>5 DEF ReconcileThrows, Abort
  <2>2. closed[a] \subseteq Symbols
    BY <1>1 DEF Places
  <2> QED
    BY <1>1, <2>1, <2>2 DEF Journal
<1>6. ASSUME NEW x \in Symbols, Manage(x) PROVE Journal'
  <2>1. booked' \in [Symbols -> 0..2]
    BY <1>1, <1>6, ManageEffect, BookTyped DEF Journal
  <2>2. dropped' = dropped
    BY <1>6, ManageFrame DEF Managed
  <2>3. streak' \in [Symbols -> 0..positionFailureManualReviewCount]
    BY <1>1, <1>6, ManageStreak, StreakTyped DEF Journal
  <2> QED
    BY <1>1, <2>1, <2>2, <2>3 DEF Journal
<1>7. ASSUME NEW x \in Symbols, EnterOk(x) \/ EnterExposed(x) PROVE Journal'
  <2>1. /\ booked' = [booked EXCEPT ![x] = 0] /\ dropped' = dropped \ {x}
        /\ Reset(x)
    BY <1>7 DEF EnterOk, EnterExposed
  <2>2. streak' \in [Symbols -> 0..positionFailureManualReviewCount]
    BY <1>1, <2>1, StreakTyped
  <2>3. booked' \in [Symbols -> 0..2]
    <3>1. 0 \in 0..2
      OBVIOUS
    <3> QED
      BY <1>1, <2>1, <3>1, Zenon DEF Journal
  <2>4. dropped' \subseteq Symbols
    BY <1>1, <2>1 DEF Journal
  <2> QED
    BY <2>2, <2>3, <2>4 DEF Journal
<1>8. ASSUME NEW x \in Symbols, markPositionReviewed(x) PROVE Journal'
  <2>1. booked' = booked /\ dropped' = dropped /\ Reset(x)
    BY <1>8 DEF markPositionReviewed, journal
  <2> QED
    BY <1>1, <2>1, StreakTyped DEF Journal
<1>9. ASSUME NEW x \in Symbols, EnterFails(x) \/ EnterStops(x) PROVE Journal'
  BY <1>2, <1>9 DEF EnterFails, EnterStops, journal, history
<1>10. ASSUME NEW a \in Actor, EndReconcile(a) PROVE Journal'
  BY <1>2, <1>10 DEF EndReconcile, journal
<1>11. CASE StartCycle \/ MergeTruth \/ ClearEntries \/ Scan \/ NoneLeft
  BY <1>2, <1>11
     DEF StartCycle, MergeTruth, ClearEntries, Scan, NoneLeft, journal, history
<1>12. CASE Settle \/ Persist \/ PersistEntry \/ FailCycle
  BY <1>2, <1>12 DEF Settle, Persist, PersistEntry, FailCycle, journal, history
<1>13. CASE forceReconcile \/ EndForceReconcile \/ SaveRequest \/ maybeRunExchangeTruthLoop
  BY <1>2, <1>13
     DEF forceReconcile, EndForceReconcile, SaveRequest, maybeRunExchangeTruthLoop,
         journal, history
<1>14. CASE UNCHANGED vars
  BY <1>2, <1>14 DEF vars, journal, history
<1> QED
  BY <1>3, <1>4, <1>5, <1>6, <1>7, <1>8, <1>9, <1>10, <1>11, <1>12, <1>13, <1>14,
     StepCases DEF Enter

LEMMA GatesStep == Types /\ [Next]_vars => Gates'
<1> SUFFICES ASSUME Types, [Next]_vars PROVE Gates'
  OBVIOUS
<1>1. Places /\ Gates
  BY DEF Types
<1>2. ASSUME UNCHANGED exchange PROVE Gates'
  BY <1>1, <1>2 DEF Gates, exchange
<1>3. ASSUME NEW t \in {truth, [truth EXCEPT !.freeze = TRUE]}, NEW f, NEW aged,
             refreshExchangeSafetyState(t, syncOrderLifecycleState(f), aged)
      PROVE  Gates'
  <2>1. t \in [freeze : BOOLEAN, mismatch : Nat]
    BY <1>1 DEF Gates
  <2>2. syncOrderLifecycleState(f) \in SUBSET (MaterialStates \cup {"protect_only"})
    BY StatesTyped
  <2> QED
    BY <1>3, <2>1, <2>2, RefreshTyped
<1>4. ASSUME NEW m \in Nat,
             \/ /\ truth' = Truth(m) /\ frozen' = frozen
                /\ pending' = syncOrderLifecycleState(pos)
             \/ refreshExchangeSafetyState(Truth(m), syncOrderLifecycleState(pos), FALSE)
      PROVE  Gates'
  <2>1. Truth(m) \in [freeze : BOOLEAN, mismatch : Nat]
    BY TruthTyped
  <2>2. syncOrderLifecycleState(pos) \in SUBSET (MaterialStates \cup {"protect_only"})
    BY StatesTyped
  <2>3. CASE refreshExchangeSafetyState(Truth(m), syncOrderLifecycleState(pos), FALSE)
    BY <2>1, <2>2, <2>3, RefreshTyped
  <2> QED
    BY <1>1, <1>4, <2>1, <2>2, <2>3 DEF Gates
<1>5. ASSUME NEW a \in Actor, NEW lost, Abort(a, lost) PROVE Gates'
  BY <1>2, <1>3, <1>5 DEF Abort
<1>6. ASSUME NEW a \in Actor,
             \/ ReconcileThrows(a) \/ EndReconcile(a)
             \/ \E x \in Symbols : Reconcile(a, x) \/ ApplyTrade(a, x)
      PROVE  Gates'
  <2>1. CASE EndReconcile(a) \/ \E x \in Symbols : Reconcile(a, x)
    BY <1>2, <2>1, ReconcileFrame DEF EndReconcile
  <2>2. CASE ReconcileThrows(a)
    BY <1>5, <2>2 DEF ReconcileThrows
  <2>3. ASSUME NEW x \in Symbols, ApplyTrade(a, x) PROVE Gates'
    BY <1>2, <1>5, <2>3 DEF ApplyTrade, exchange
  <2> QED
    BY <1>6, <2>1, <2>2, <2>3
<1>7. ASSUME NEW x \in Symbols, Manage(x) \/ Enter(x) PROVE Gates'
  BY <1>2, <1>7, ManageFrame
     DEF Managed, Enter, EnterOk, EnterFails, EnterExposed, EnterStops
<1>8. ASSUME NEW x \in Symbols, markPositionReviewed(x) PROVE Gates'
  <2>1. PICK f : f = pos'
    OBVIOUS
  <2>2. refreshExchangeSafetyState(truth, syncOrderLifecycleState(f), FALSE)
    BY <1>8, <2>1 DEF markPositionReviewed
  <2> QED
    BY <1>3, <2>2
<1>9. CASE StartCycle \/ Scan \/ NoneLeft \/ PersistEntry \/ SaveRequest
  BY <1>2, <1>9 DEF StartCycle, Scan, NoneLeft, PersistEntry, SaveRequest
<1>10. CASE MergeTruth
  <2>1. PICK found \in 0..1 : truth' = Truth(Cardinality(flagged["cycle"]) + found)
    BY <1>10 DEF MergeTruth
  <2>2. Cardinality(flagged["cycle"]) + found \in Nat
    BY <1>1, FlaggedCount DEF Places, Actor
  <2> QED
    BY <1>4, <1>10, <2>1, <2>2 DEF MergeTruth
<1>11. CASE ClearEntries
  BY <1>3, <1>11 DEF ClearEntries
<1>12. CASE Settle
  <2>1. ASSUME UNCHANGED <<truth, frozen>>, pending' = syncOrderLifecycleState(pos)
        PROVE  Gates'
    BY <1>1, <2>1, StatesTyped DEF Gates
  <2> QED
    BY <1>3, <1>12, <2>1 DEF Settle
<1>13. CASE Persist \/ FailCycle
  BY <1>1, <1>13, RefreshTyped DEF Persist, FailCycle, Gates
<1>14. CASE forceReconcile
  <2>1. ASSUME truth' = [truth EXCEPT !.freeze = TRUE], UNCHANGED <<frozen, pending>>
        PROVE  Gates'
    BY <1>1, <2>1 DEF Gates
  <2> QED
    BY <1>3, <1>14, <2>1 DEF forceReconcile
<1>15. CASE EndForceReconcile
  <2>1. PICK found \in 0..1 :
           refreshExchangeSafetyState(Truth(Cardinality(flagged["operator"]) + found),
               syncOrderLifecycleState(pos), FALSE)
    BY <1>15 DEF EndForceReconcile
  <2>2. Cardinality(flagged["operator"]) + found \in Nat
    BY <1>1, FlaggedCount DEF Places, Actor
  <2> QED
    BY <1>4, <2>1, <2>2
<1>16. CASE maybeRunExchangeTruthLoop
  <2>1. PICK m \in 0..Cardinality(Symbols) : truth' = Truth(m)
    BY <1>16 DEF maybeRunExchangeTruthLoop
  <2>2. m \in Nat
    BY CycleAssumption, FS_CardinalityType
  <2> QED
    BY <1>4, <1>16, <2>1, <2>2 DEF maybeRunExchangeTruthLoop
<1>17. CASE UNCHANGED vars
  BY <1>2, <1>17 DEF vars
<1> QED
  BY <1>6, <1>7, <1>8, <1>9, <1>10, <1>11, <1>12, <1>13, <1>14, <1>15, <1>16, <1>17,
     StepCases

(* What the management and the entries leave to count.                     *)
LEMMA ManageFaults ==
    ASSUME NEW x \in Symbols, Manage(x)
    PROVE  faults' = faults \/ Fault
BY DEF Manage, ManageSettled, ManageBlind, ManageHeld, ManageUnprotected,
       ManageClosed, ManageFailed, ManageSafeguarded

LEMMA EnterFrame ==
    ASSUME NEW x \in Symbols, Enter(x)
    PROVE  /\ Entering(x) /\ mode' = mode
           /\ UNCHANGED <<exchange, failures, flagged, reported, overlapped,
                          undisturbed, visits>>
           /\ faults' = faults \/ Fault
           /\ opened' = opened \/ opened' = TRUE
           /\ unsaved' = unsaved \/ unsaved' = TRUE
           /\ at' = [at EXCEPT !["cycle"] = "settle"] \/ at' = at
           /\ unsaved' = unsaved \/ at' = [at EXCEPT !["cycle"] = "settle"]
BY DEF Enter, EnterOk, EnterFails, EnterExposed, EnterStops, Goto, store, history

LEMMA FaultsStep == Types /\ [Next]_vars => faults' = faults \/ Fault
<1> SUFFICES ASSUME Types, [Next]_vars PROVE faults' = faults \/ Fault
  OBVIOUS
<1>1. ASSUME NEW a \in Actor,
             \/ ReconcileThrows(a) \/ EndReconcile(a)
             \/ \E x \in Symbols : Reconcile(a, x) \/ ApplyTrade(a, x)
      PROVE  faults' = faults \/ Fault
  BY <1>1, ReconcileFrame DEF ApplyTrade, ReconcileThrows, EndReconcile
<1>2. ASSUME NEW x \in Symbols, Manage(x) \/ Enter(x) \/ markPositionReviewed(x)
      PROVE  faults' = faults \/ Fault
  BY <1>2, ManageFaults, EnterFrame DEF markPositionReviewed
<1>3. CASE StartCycle \/ MergeTruth \/ ClearEntries \/ Scan \/ NoneLeft
  BY <1>3
     DEF StartCycle, MergeTruth, ClearEntries, Scan, NoneLeft, Foreign
<1>4. CASE Settle \/ Persist \/ PersistEntry \/ FailCycle
  BY <1>4 DEF Settle, Persist, PersistEntry, FailCycle, Saves, SaveFails
<1>5. CASE forceReconcile \/ EndForceReconcile \/ SaveRequest \/ maybeRunExchangeTruthLoop
  BY <1>5 DEF forceReconcile, EndForceReconcile, SaveRequest, maybeRunExchangeTruthLoop,
              Saves, SaveFails, Foreign
<1>6. CASE UNCHANGED vars
  BY <1>6 DEF vars
<1> QED
  BY <1>1, <1>2, <1>3, <1>4, <1>5, <1>6, StepCases

(* The counters and the outcome of the last cycle.                         *)
Counters ==
    /\ failures \in 0..healthMaxConsecutiveFailures
    /\ reported \in {"ok", "failed"} /\ visits \in 0..MaxVisits

LEMMA CountersStep == Types /\ [Next]_vars => Counters'
<1> SUFFICES ASSUME Types, [Next]_vars PROVE Counters'
  OBVIOUS
<1>1. Counters
  BY DEF Types, Notes, Counters
<1>2. ASSUME UNCHANGED <<failures, reported, visits>> PROVE Counters'
  BY <1>1, <1>2 DEF Counters
<1>3. ASSUME Request, failures' = failures, reported' = reported PROVE Counters'
  BY <1>1, <1>3, CycleAssumption DEF Counters, Request
<1>4. ASSUME NEW a \in Actor,
             \/ ReconcileThrows(a) \/ EndReconcile(a)
             \/ \E x \in Symbols : Reconcile(a, x) \/ ApplyTrade(a, x)
      PROVE  Counters'
  BY <1>2, <1>4, ReconcileFrame DEF ApplyTrade, ReconcileThrows, EndReconcile, store
<1>5. ASSUME NEW x \in Symbols, Manage(x) \/ Enter(x) PROVE Counters'
  BY <1>2, <1>5, ManageFrame, EnterFrame DEF Managed, exchange
<1>6. ASSUME NEW x \in Symbols, markPositionReviewed(x) PROVE Counters'
  BY <1>3, <1>6 DEF markPositionReviewed
<1>7. CASE StartCycle \/ MergeTruth \/ ClearEntries \/ Scan \/ NoneLeft \/ Settle
  BY <1>2, <1>7
     DEF StartCycle, MergeTruth, ClearEntries, Scan, NoneLeft, Settle, store
<1>8. CASE Persist \/ PersistEntry
  <2>1. failures' = 0 \/ failures' = failures
    BY <1>8 DEF Persist, PersistEntry
  <2>2. reported' = reported \/ reported' = "ok"
    BY <1>8 DEF Persist, PersistEntry
  <2>3. visits' = visits
    BY <1>8 DEF Persist, PersistEntry
  <2>4. 0 \in 0..healthMaxConsecutiveFailures
    BY CycleAssumption
  <2> QED
    BY <1>1, <2>1, <2>2, <2>3, <2>4 DEF Counters
<1>9. CASE FailCycle
  BY <1>1, <1>9, CycleAssumption DEF FailCycle, recordFailure, Counters
<1>10. CASE forceReconcile \/ maybeRunExchangeTruthLoop
  BY <1>3, <1>10 DEF forceReconcile, maybeRunExchangeTruthLoop, store
<1>11. CASE EndForceReconcile
  BY <1>2, <1>11 DEF EndForceReconcile, store
<1>12. CASE SaveRequest
  BY <1>1, <1>12 DEF SaveRequest, Counters
<1>13. CASE UNCHANGED vars
  BY <1>2, <1>13 DEF vars, store
<1> QED
  BY <1>4, <1>5, <1>6, <1>7, <1>8, <1>9, <1>10, <1>11, <1>12, <1>13, StepCases

(* The Boolean notes.                                                      *)
Marks == {opened, unsaved, overlapped, undisturbed} \subseteq BOOLEAN

LEMMA OverlapTyped ==
    ASSUME NEW a \in Actor, StartReconcile(a)
    PROVE  overlapped' \in BOOLEAN /\ (overlapped => overlapped')
BY DEF StartReconcile

LEMMA DisturbTyped == ASSUME NEW a \in Actor, Disturbs(a) PROVE undisturbed' \in BOOLEAN
BY DEF Disturbs

LEMMA MarksStep == Types /\ [Next]_vars => Marks'
<1> SUFFICES ASSUME Types, [Next]_vars PROVE Marks'
  OBVIOUS
<1>1. Marks /\ SoundPositions /\ flagged \in [Actor -> SUBSET Symbols]
  BY DEF Types, Notes, Marks, Places
<1>2. ASSUME opened' \in {opened, TRUE, FALSE}, unsaved' \in {unsaved, opened, TRUE, FALSE},
             overlapped' = overlapped \/ overlapped' \in BOOLEAN,
             undisturbed' = undisturbed \/ undisturbed' \in BOOLEAN
      PROVE  Marks'
  BY <1>1, <1>2 DEF Marks
<1>3. ASSUME NEW a \in Actor, NEW x \in Symbols, Reconcile(a, x) PROVE Marks'
  <2>1. /\ opened' = opened /\ overlapped' = overlapped /\ Disturbs(a)
        /\ unsaved' = unsaved \/ unsaved' = TRUE
    BY <1>1, <1>3, ReconcileFrame, ReconcileTrades
  <2> QED
    BY <1>2, <2>1, DisturbTyped
<1>4. ASSUME NEW a \in Actor,
             \/ ReconcileThrows(a) \/ EndReconcile(a)
             \/ \E x \in Symbols : ApplyTrade(a, x)
      PROVE  Marks'
  BY <1>2, <1>4, DisturbTyped DEF ApplyTrade, ReconcileThrows, EndReconcile, store
<1>5. ASSUME NEW x \in Symbols, Manage(x) PROVE Marks'
  BY <1>2, <1>5, ManageFrame DEF Managed
<1>6. ASSUME NEW x \in Symbols, Enter(x) PROVE Marks'
  BY <1>2, <1>6, EnterFrame
<1>7. ASSUME NEW x \in Symbols, markPositionReviewed(x) PROVE Marks'
  BY <1>2, <1>7 DEF markPositionReviewed, Request
<1>8. CASE StartCycle
  BY <1>2, <1>8, OverlapTyped DEF StartCycle, store, Actor
<1>9. CASE MergeTruth \/ Scan \/ NoneLeft \/ Settle
  BY <1>2, <1>9 DEF MergeTruth, Scan, NoneLeft, Settle, store, history
<1>10. CASE ClearEntries
  BY <1>2, <1>10 DEF ClearEntries, store
<1>11. CASE Persist \/ PersistEntry \/ FailCycle
  BY <1>2, <1>11 DEF Persist, PersistEntry, FailCycle, Saves, SaveFails, history
<1>12. CASE forceReconcile
  BY <1>2, <1>12, OverlapTyped DEF forceReconcile, Request, store, Actor
<1>13. CASE EndForceReconcile \/ SaveRequest \/ maybeRunExchangeTruthLoop
  BY <1>2, <1>13
     DEF EndForceReconcile, SaveRequest, maybeRunExchangeTruthLoop, Request,
         Saves, SaveFails, store, history
<1>14. CASE UNCHANGED vars
  BY <1>2, <1>14 DEF vars, store, history
<1> QED
  BY <1>3, <1>4, <1>5, <1>6, <1>7, <1>8, <1>9, <1>10, <1>11, <1>12, <1>13, <1>14,
     StepCases

LEMMA TypesStep == Types /\ [Next]_vars => Types'
<1> SUFFICES ASSUME Types, [Next]_vars PROVE Types'
  OBVIOUS
<1>1. Notes'
  <2>1. faults' \in 0..MaxFaults
    BY FaultsStep, FaultTyped DEF Types
  <2> QED
    BY <2>1, CountersStep, MarksStep DEF Counters, Marks, Notes
<1> QED
  BY <1>1, PositionsStep, PlacesStep, JournalStep, GatesStep DEF Types

-----------------------------------------------------------------------------
(* The trades of closed positions.                                         *)
Busy(a) == at[a] \in {"reconcile", "apply"}

(* A closed trade waits in the list of the reconcile that closed it, for a *)
(* position that is gone; a position that is open has no trade yet.        *)
ClosedAreGone ==
    /\ \A a \in Actor : Busy(a) \/ closed[a] = {}
    /\ \A a \in Actor : closed[a] \cap Open = {}
    /\ \A s \in Open : booked[s] = 0

Accounted ==
    \A s \in Symbols : s \notin Open =>
        booked[s] > 0 \/ s \in dropped \/ \E a \in Actor : s \in closed[a]

(* As long as no reconcile ran beside the cycle's, what one has still to   *)
(* visit is open, and what it closed is not booked.                        *)
Apart == ~overlapped =>
    /\ ~(Busy("operator") /\ at["cycle"] \in {"reconcile", "apply", "manage"})
    /\ \A a \in Actor : at[a] = "reconcile" => todo[a] \subseteq Open
    /\ \A a \in Actor : \A s \in closed[a] : booked[s] = 0
    /\ \A s \in Symbols : booked[s] # 2

OnlyLive == ~live => \A a \in Actor : ~Busy(a)

TradeInv == ClosedAreGone /\ Accounted /\ Apart /\ OnlyLive

(* Steps that close nothing, book nothing and start no reconcile.          *)
LEMMA QuietStep ==
    ASSUME TradeInv, mode' = mode, Open' = Open, booked' = booked, dropped' = dropped,
           closed' = closed, overlapped' = overlapped,
           \A a \in Actor :
              /\ at'[a] \in {"reconcile", "apply"} => at[a] \in {"reconcile", "apply"}
              /\ at'[a] = "reconcile" => at[a] = "reconcile" /\ todo'[a] \subseteq todo[a]
              /\ at'[a] \notin {"reconcile", "apply"} => closed[a] = {},
           at'["cycle"] = "manage" => at["cycle"] \in {"reconcile", "apply", "manage"} \/ ~live
    PROVE  TradeInv'
<1>1. "cycle" \in Actor /\ "operator" \in Actor
  BY DEF Actor
<1>2. ClosedAreGone'
  BY DEF TradeInv, ClosedAreGone, Busy
<1>3. Accounted'
  BY DEF TradeInv, Accounted
<1>4. OnlyLive'
  BY DEF TradeInv, OnlyLive, Busy, live
<1>5. Apart'
  <2> SUFFICES ASSUME ~overlapped' PROVE Apart'
    BY DEF Apart
  <2>1. ~(Busy("operator") /\ at["cycle"] \in {"reconcile", "apply", "manage"})'
    BY <1>1 DEF TradeInv, Apart, OnlyLive, Busy
  <2>2. \A a \in Actor : at'[a] = "reconcile" => todo'[a] \subseteq Open'
    BY DEF TradeInv, Apart
  <2> QED
    BY <2>1, <2>2 DEF TradeInv, Apart
<1> QED
  BY <1>2, <1>3, <1>4, <1>5 DEF TradeInv

(* A reconcile starts: beside another one, or apart from everything.       *)
LEMMA StartTrades ==
    ASSUME Places, TradeInv, live, NEW a \in Actor, at[a] = "idle", StartReconcile(a),
           mode' = mode, pos' = pos, booked' = booked, dropped' = dropped
    PROVE  TradeInv'
<1>1. "cycle" \in Actor /\ "operator" \in Actor /\ Actor = {a, Other(a)} /\ a # Other(a)
  BY DEF Actor, Other
<1>2. /\ at' = [at EXCEPT ![a] = "reconcile"] /\ todo' = [todo EXCEPT ![a] = Open]
      /\ closed' = [closed EXCEPT ![a] = {}]
      /\ overlapped' = (overlapped \/ at[Other(a)] \in {"reconcile", "apply", "manage"})
  BY DEF StartReconcile, Goto
<1>3. closed[a] = {}
  BY DEF TradeInv, ClosedAreGone, Busy
<1>4. closed' = closed /\ Open' = Open
  BY <1>2, <1>3 DEF Places, Open
<1>5. /\ at'[a] = "reconcile" /\ todo'[a] = Open
      /\ at'[Other(a)] = at[Other(a)] /\ todo'[Other(a)] = todo[Other(a)]
  BY <1>1, <1>2 DEF Places
<1>6. ClosedAreGone' /\ Accounted' /\ OnlyLive'
  <2>1. ClosedAreGone'
    BY <1>1, <1>3, <1>4, <1>5 DEF TradeInv, ClosedAreGone, Busy
  <2>2. Accounted'
    BY <1>4 DEF TradeInv, Accounted
  <2>3. OnlyLive'
    BY DEF OnlyLive, live
  <2> QED
    BY <2>1, <2>2, <2>3
<1>7. Apart'
  <2> SUFFICES ASSUME ~overlapped' PROVE Apart'
    BY DEF Apart
  <2>1. ~overlapped /\ at[Other(a)] \notin {"reconcile", "apply", "manage"}
    BY <1>2
  <2>2. ~(Busy("operator") /\ at["cycle"] \in {"reconcile", "apply", "manage"})'
    BY <1>1, <1>5, <2>1 DEF Busy, Actor
  <2>3. \A b \in Actor : at'[b] = "reconcile" => todo'[b] \subseteq Open'
    BY <1>1, <1>4, <1>5, <2>1
  <2> QED
    BY <1>4, <2>1, <2>2, <2>3 DEF TradeInv, Apart
<1> QED
  BY <1>6, <1>7 DEF TradeInv

(* A reconcile step, alone or beside another one.                          *)
LEMMA ReconcileTradesStep ==
    ASSUME Types, TradeInv, NEW a \in Actor, NEW x \in Symbols, Reconcile(a, x)
    PROVE  TradeInv'
<1>1. /\ at[a] = "reconcile" /\ x \in todo[a]
      /\ todo' = [todo EXCEPT ![a] = @ \ {x}]
      /\ at' = at /\ mode' = mode /\ overlapped' = overlapped
      /\ booked' = booked /\ dropped' = dropped
  BY ReconcileFrame DEF journal
<1>2. SoundPositions /\ Places
  BY DEF Types
<1>3. \A b \in Actor : todo'[b] \subseteq todo[b] /\ x \notin todo'[a]
  BY <1>1, <1>2 DEF Places
<1>4. CASE Open' = Open /\ closed' = closed
  BY <1>1, <1>3, <1>4, QuietStep DEF TradeInv, ClosedAreGone, Busy
<1>5. CASE Open' = Open \ {x} /\ closed' = [closed EXCEPT ![a] = @ \cup {x}]
  <2>1. /\ closed'[a] = closed[a] \cup {x}
        /\ \A b \in Actor \ {a} : closed'[b] = closed[b]
    BY <1>2, <1>5 DEF Places
  <2>2. ClosedAreGone'
    BY <1>1, <1>5, <2>1 DEF TradeInv, ClosedAreGone, Busy
  <2>3. Accounted'
    BY <1>1, <1>5, <2>1 DEF TradeInv, Accounted
  <2>4. OnlyLive'
    BY <1>1 DEF TradeInv, OnlyLive, Busy, live
  <2>5. Apart'
    <3> SUFFICES ASSUME ~overlapped PROVE Apart'
      BY <1>1 DEF Apart
    <3>1. x \in Open /\ booked[x] = 0
      BY <1>1 DEF TradeInv, Apart, ClosedAreGone
    <3>2. \A b \in Actor : Busy(b) => b = a
      BY <1>1 DEF TradeInv, Apart, Busy, Actor
    <3>3. \A b \in Actor : at'[b] = "reconcile" => todo'[b] \subseteq Open'
      BY <1>1, <1>3, <1>5, <3>2 DEF TradeInv, Apart, Busy
    <3>4. \A b \in Actor : \A s \in closed'[b] : booked'[s] = 0
      BY <1>1, <2>1, <3>1 DEF TradeInv, Apart
    <3>5. ~(Busy("operator") /\ at["cycle"] \in {"reconcile", "apply", "manage"})'
      BY <1>1 DEF TradeInv, Apart, Busy
    <3> QED
      BY <1>1, <3>3, <3>4, <3>5 DEF TradeInv, Apart
  <2> QED
    BY <2>2, <2>3, <2>4, <2>5 DEF TradeInv
<1> QED
  BY <1>2, <1>4, <1>5, ReconcileTrades DEF Places

(* An error takes the closed trades with it, and they are accounted for.   *)
LEMMA AbortTrades ==
    ASSUME Places, TradeInv, NEW a \in Actor, Busy(a), Abort(a, closed[a]),
           mode' = mode, pos' = pos, booked' = booked, overlapped' = overlapped
    PROVE  TradeInv'
<1>1. /\ dropped' = dropped \cup closed[a]
      /\ closed' = [closed EXCEPT ![a] = {}] /\ todo' = [todo EXCEPT ![a] = {}]
      /\ at' = [at EXCEPT ![a] = IF a = "cycle" THEN "failed" ELSE "save"]
  BY DEF Abort, Goto
<1>2. /\ closed'[a] = {} /\ at'[a] \in {"failed", "save"}
      /\ \A b \in Actor \ {a} :
            closed'[b] = closed[b] /\ at'[b] = at[b] /\ todo'[b] = todo[b]
  BY <1>1 DEF Places
<1>3. Open' = Open
  BY DEF Open
<1>4. ClosedAreGone'
  BY <1>2, <1>3 DEF TradeInv, ClosedAreGone, Busy
<1>5. Accounted'
  BY <1>1, <1>2, <1>3 DEF TradeInv, Accounted
<1>6. OnlyLive'
  BY <1>2 DEF TradeInv, OnlyLive, Busy, live
<1>7. Apart'
  <2> SUFFICES ASSUME ~overlapped PROVE Apart'
    BY DEF Apart
  <2>1. ~(Busy("operator") /\ at["cycle"] \in {"reconcile", "apply", "manage"})'
    BY <1>2 DEF TradeInv, Apart, Busy, Actor
  <2>2. \A b \in Actor : at'[b] = "reconcile" => todo'[b] \subseteq Open'
    BY <1>2, <1>3 DEF TradeInv, Apart
  <2>3. \A b \in Actor : \A s \in closed'[b] : booked'[s] = 0
    BY <1>2 DEF TradeInv, Apart
  <2> QED
    BY <2>1, <2>2, <2>3 DEF TradeInv, Apart
<1> QED
  BY <1>4, <1>5, <1>6, <1>7 DEF TradeInv

(* A closed trade is booked, and the others go on waiting or are dropped.  *)
LEMMA ApplyTrades ==
    ASSUME Types, TradeInv, NEW a \in Actor, NEW x \in Symbols, ApplyTrade(a, x)
    PROVE  TradeInv'
<1>1. Places /\ Journal
  BY DEF Types
<1>2. /\ at[a] = "apply" /\ x \in closed[a] /\ Book(x)
      /\ mode' = mode /\ Open' = Open /\ overlapped' = overlapped
  BY DEF ApplyTrade, Open
<1>3. /\ booked'[x] \in 1..2 /\ (booked[x] = 0 => booked'[x] = 1)
      /\ \A s \in Symbols \ {x} : booked'[s] = booked[s]
  BY <1>1, <1>2, BookTyped
<1>4. /\ closed'[a] \subseteq closed[a] \ {x}
      /\ dropped \subseteq dropped' /\ closed[a] \subseteq closed'[a] \cup dropped' \cup {x}
      /\ \A b \in Actor \ {a} :
            closed'[b] = closed[b] /\ at'[b] = at[b] /\ todo'[b] = todo[b]
      /\ \/ at'[a] = "apply"
         \/ at'[a] \in {"failed", "save"} /\ closed'[a] = {}
  <2>1. CASE Abort(a, closed[a] \ {x})
    <3>1. /\ dropped' = dropped \cup (closed[a] \ {x})
          /\ closed' = [closed EXCEPT ![a] = {}] /\ todo' = [todo EXCEPT ![a] = {}]
          /\ at' = [at EXCEPT ![a] = IF a = "cycle" THEN "failed" ELSE "save"]
      BY <2>1 DEF Abort, Goto
    <3> QED
      BY <1>1, <3>1 DEF Places
  <2>2. CASE ~Abort(a, closed[a] \ {x})
    <3>1. /\ closed' = [closed EXCEPT ![a] = @ \ {x}]
          /\ dropped' = dropped /\ at' = at /\ todo' = todo
      BY <2>2 DEF ApplyTrade
    <3> QED
      BY <1>1, <1>2, <3>1 DEF Places
  <2> QED
    BY <2>1, <2>2
<1>5. ClosedAreGone'
  <2>1. x \notin Open /\ \A s \in Open : s \in Symbols
    BY <1>2 DEF TradeInv, ClosedAreGone, Types, SoundPositions
  <2> QED
    BY <1>2, <1>3, <1>4, <2>1 DEF TradeInv, ClosedAreGone, Busy
<1>6. Accounted'
  <2> SUFFICES ASSUME NEW s \in Symbols, s \notin Open
               PROVE  booked'[s] > 0 \/ s \in dropped' \/ \E b \in Actor : s \in closed'[b]
    BY <1>2 DEF Accounted
  <2>1. CASE s = x
    BY <1>3, <2>1
  <2>2. CASE s # x
    <3>1. booked[s] > 0 \/ s \in dropped \/ \E b \in Actor : s \in closed[b]
      BY DEF TradeInv, Accounted
    <3> QED
      BY <1>3, <1>4, <2>2, <3>1
  <2> QED
    BY <2>1, <2>2
<1>7. OnlyLive'
  BY <1>2, <1>4 DEF TradeInv, OnlyLive, Busy, live
<1>8. Apart'
  <2> SUFFICES ASSUME ~overlapped PROVE Apart'
    BY <1>2 DEF Apart
  <2>1. booked[x] = 0 /\ booked'[x] = 1
    BY <1>2, <1>3 DEF TradeInv, Apart
  <2>2. \A b \in Actor \ {a} : ~Busy(b) /\ closed[b] = {}
    BY <1>2 DEF TradeInv, Apart, ClosedAreGone, Busy, Actor
  <2>3. ~(Busy("operator") /\ at["cycle"] \in {"reconcile", "apply", "manage"})'
    BY <1>2, <1>4 DEF TradeInv, Apart, Busy, Actor
  <2>4. \A b \in Actor : at'[b] # "reconcile"
    BY <1>4, <2>2 DEF Busy
  <2>5. \A b \in Actor : \A s \in closed'[b] : booked'[s] = 0
    <3> SUFFICES ASSUME NEW s \in closed'[a] PROVE booked'[s] = 0
      BY <1>4, <2>2
    <3>1. s \in closed[a] /\ s # x /\ s \in Symbols
      BY <1>1, <1>4 DEF Places
    <3> QED
      BY <1>3, <3>1 DEF TradeInv, Apart
  <2>6. \A s \in Symbols : booked'[s] # 2
    BY <1>3, <2>1 DEF TradeInv, Apart
  <2> QED
    BY <2>3, <2>4, <2>5, <2>6 DEF Apart
<1> QED
  BY <1>5, <1>6, <1>7, <1>8 DEF TradeInv

(* Management sells a position once, and books the trade at once.          *)
LEMMA ManageTrades ==
    ASSUME Types, TradeInv, NEW x \in Symbols, Manage(x)
    PROVE  TradeInv'
<1>1. SoundPositions /\ Places /\ Journal /\ "cycle" \in Actor /\ "operator" \in Actor
  BY DEF Types, Actor
<1>2. /\ at["cycle"] = "manage" /\ at' = at /\ closed' = closed /\ dropped' = dropped
      /\ todo' = [todo EXCEPT !["cycle"] = @ \ {x}]
      /\ mode' = mode /\ overlapped' = overlapped
  BY ManageFrame DEF Managing, Managed
<1>3. \A a \in Actor : todo'[a] \subseteq todo[a]
  BY <1>1, <1>2 DEF Places
<1>4. CASE Open' = Open /\ booked' = booked
  BY <1>2, <1>3, <1>4, QuietStep DEF TradeInv, ClosedAreGone, Busy
<1>5. CASE x \in Open /\ Open' = Open \ {x} /\ Book(x)
  <2>1. /\ booked'[x] = 1
        /\ \A s \in Symbols \ {x} : booked'[s] = booked[s]
    BY <1>1, <1>5, BookTyped DEF TradeInv, ClosedAreGone
  <2>2. \A a \in Actor : closed[a] \subseteq Symbols /\ x \notin closed[a]
    BY <1>1, <1>5 DEF Places, TradeInv, ClosedAreGone
  <2>3. ClosedAreGone'
    <3>1. \A s \in Open' : s \in Symbols \ {x}
      BY <1>1, <1>5 DEF SoundPositions
    <3> QED
      BY <1>2, <1>5, <2>1, <3>1 DEF TradeInv, ClosedAreGone, Busy
  <2>4. Accounted'
    BY <1>2, <1>5, <2>1 DEF TradeInv, Accounted
  <2>5. OnlyLive'
    BY <1>2 DEF TradeInv, OnlyLive, Busy, live
  <2>6. Apart'
    <3> SUFFICES ASSUME ~overlapped PROVE Apart'
      BY <1>2 DEF Apart
    <3>1. \A a \in Actor : ~Busy(a)
      BY <1>2 DEF TradeInv, Apart, Busy, Actor
    <3>2. \A a \in Actor : \A s \in closed'[a] : booked'[s] = 0
      BY <1>2, <3>1 DEF TradeInv, ClosedAreGone
    <3>3. \A s \in Symbols : booked'[s] # 2
      BY <2>1 DEF TradeInv, Apart
    <3> QED
      BY <1>1, <1>2, <3>1, <3>2, <3>3 DEF Apart, Busy
  <2> QED
    BY <2>3, <2>4, <2>5, <2>6 DEF TradeInv
<1> QED
  BY <1>1, <1>4, <1>5, ManageEffect

(* A new position: its symbol starts again without a trade.                *)
LEMMA EnterTrades ==
    ASSUME Types, TradeInv, NEW x \in Symbols, Enter(x)
    PROVE  TradeInv'
<1>1. SoundPositions /\ Places /\ Journal /\ "cycle" \in Actor /\ "operator" \in Actor
  BY DEF Types, Actor
<1>2. at["cycle"] = "enter" /\ mode' = mode /\ overlapped' = overlapped
  BY EnterFrame DEF Entering
<1>3. closed["cycle"] = {}
  BY <1>1, <1>2 DEF TradeInv, ClosedAreGone, Busy
<1>4. CASE EnterFails(x) \/ EnterStops(x)
  <2>1. /\ UNCHANGED <<booked, dropped, closed>> /\ Open' = Open
        /\ at' = at \/ at' = [at EXCEPT !["cycle"] = "settle"]
        /\ todo' = [todo EXCEPT !["cycle"] = @ \ {x}] \/ todo' = [todo EXCEPT !["cycle"] = {}]
    BY <1>4 DEF EnterFails, EnterStops, journal, Goto, Open
  <2>2. /\ at'["cycle"] \in {"enter", "settle"} /\ at'["operator"] = at["operator"]
        /\ todo'["operator"] = todo["operator"]
    BY <1>1, <1>2, <2>1 DEF Places
  <2> QED
    BY <1>2, <1>3, <2>1, <2>2, QuietStep DEF TradeInv, ClosedAreGone, Busy, Actor
<1>5. CASE EnterOk(x) \/ EnterExposed(x)
  <2>1. /\ x \notin Open /\ Open' = Open \cup {x}
        /\ booked' = [booked EXCEPT ![x] = 0] /\ dropped' = dropped \ {x}
        /\ closed' = [closed EXCEPT !["operator"] = @ \ {x}]
        /\ todo' = [a \in Actor |-> IF a = "cycle" THEN {} ELSE todo[a] \ {x}]
        /\ at' = [at EXCEPT !["cycle"] = "settle"]
    BY <1>1, <1>5, EnterEffect DEF EnterOk, EnterExposed, Goto
  <2>2. /\ booked'[x] = 0 /\ \A s \in Symbols \ {x} : booked'[s] = booked[s]
    BY <1>1, <2>1 DEF Journal
  <2>3. /\ closed'["cycle"] = {} /\ closed'["operator"] = closed["operator"] \ {x}
        /\ at'["cycle"] = "settle" /\ at'["operator"] = at["operator"]
        /\ todo'["operator"] = todo["operator"] \ {x}
    BY <1>1, <1>3, <2>1 DEF Places
  <2>4. Open \subseteq Symbols /\ closed["operator"] \subseteq Symbols
    BY <1>1 DEF SoundPositions, Places
  <2>5. ClosedAreGone'
    BY <1>1, <2>1, <2>2, <2>3, <2>4 DEF TradeInv, ClosedAreGone, Busy, Actor
  <2>6. Accounted'
    <3> SUFFICES ASSUME NEW s \in Symbols, s \notin Open'
                 PROVE  booked'[s] > 0 \/ s \in dropped' \/ \E a \in Actor : s \in closed'[a]
      BY DEF Accounted
    <3>1. s \notin Open /\ s # x
      BY <2>1
    <3>2. booked[s] > 0 \/ s \in dropped \/ s \in closed["operator"]
      BY <1>3, <3>1 DEF TradeInv, Accounted, Actor
    <3> QED
      BY <1>1, <2>1, <2>2, <2>3, <3>1, <3>2
  <2>7. OnlyLive'
    BY <1>2, <2>3 DEF TradeInv, OnlyLive, Busy, live, Actor
  <2>8. Apart'
    <3> SUFFICES ASSUME ~overlapped PROVE Apart'
      BY <1>2 DEF Apart
    <3>1. \A a \in Actor : at'[a] = "reconcile" => todo'[a] \subseteq Open'
      BY <2>1, <2>3 DEF TradeInv, Apart, Actor
    <3>2. \A a \in Actor : \A s \in closed'[a] : booked'[s] = 0
      BY <1>1, <2>2, <2>3, <2>4 DEF TradeInv, Apart, Actor
    <3>3. \A s \in Symbols : booked'[s] # 2
      BY <2>2 DEF TradeInv, Apart
    <3> QED
      BY <2>3, <3>1, <3>2, <3>3 DEF Apart, Busy
  <2> QED
    BY <2>5, <2>6, <2>7, <2>8 DEF TradeInv
<1> QED
  BY <1>4, <1>5 DEF Enter

(* Moves of the cycle, and of the operator, between its other places.      *)
LEMMA CycleMoves ==
    ASSUME Places, TradeInv, closed["cycle"] = {},
           NEW label \in CycleLabel \ {"reconcile", "apply"},
           at' = [at EXCEPT !["cycle"] = label],
           label = "manage" => at["cycle"] \in {"reconcile", "apply", "manage"} \/ ~live,
           todo' = todo \/ \E w \in SUBSET Symbols : todo' = [todo EXCEPT !["cycle"] = w],
           UNCHANGED <<mode, pos, booked, dropped, closed, overlapped>>
    PROVE  TradeInv'
<1>1. /\ "cycle" \in Actor /\ "operator" \in Actor
      /\ \A a \in Actor : a = "cycle" \/ a = "operator"
  BY DEF Actor
<1>2. /\ at'["cycle"] = label /\ at'["operator"] = at["operator"]
      /\ todo'["operator"] = todo["operator"]
  BY <1>1 DEF Places
<1>3. Open' = Open
  BY DEF Open
<1>4. \A a \in Actor :
         /\ at'[a] \in {"reconcile", "apply"} => at[a] \in {"reconcile", "apply"}
         /\ at'[a] = "reconcile" => at[a] = "reconcile" /\ todo'[a] \subseteq todo[a]
         /\ at'[a] \notin {"reconcile", "apply"} => closed[a] = {}
  BY <1>1, <1>2 DEF TradeInv, ClosedAreGone, Busy
<1> QED
  BY <1>2, <1>3, <1>4, QuietStep

LEMMA OperatorMoves ==
    ASSUME Places, TradeInv, closed["operator"] = {}, NEW label \in {"idle", "save"},
           at' = [at EXCEPT !["operator"] = label], todo' = todo, Open' = Open,
           UNCHANGED <<mode, booked, dropped, closed, overlapped>>
    PROVE  TradeInv'
<1>1. /\ "cycle" \in Actor /\ "operator" \in Actor
      /\ \A a \in Actor : a = "cycle" \/ a = "operator"
  BY DEF Actor
<1>2. at'["operator"] = label /\ at'["cycle"] = at["cycle"]
  BY <1>1 DEF Places
<1>3. \A a \in Actor :
         /\ at'[a] \in {"reconcile", "apply"} => at[a] \in {"reconcile", "apply"}
         /\ at'[a] = "reconcile" => at[a] = "reconcile" /\ todo'[a] \subseteq todo[a]
         /\ at'[a] \notin {"reconcile", "apply"} => closed[a] = {}
  BY <1>1, <1>2 DEF TradeInv, ClosedAreGone, Busy
<1> QED
  BY <1>2, <1>3, QuietStep

LEMMA TradesStep == Types /\ TradeInv /\ [Next]_vars => TradeInv'
<1> SUFFICES ASSUME Types, TradeInv, [Next]_vars PROVE TradeInv'
  OBVIOUS
<1>1. Places /\ SoundPositions /\ "cycle" \in Actor /\ "operator" \in Actor
  BY DEF Types, Actor
<1>2. \A a \in Actor : at[a] \notin {"reconcile", "apply"} => closed[a] = {}
  BY DEF TradeInv, ClosedAreGone, Busy
<1>3. ASSUME NEW a \in Actor, NEW x \in Symbols, Reconcile(a, x) \/ ApplyTrade(a, x)
      PROVE  TradeInv'
  BY <1>3, ReconcileTradesStep, ApplyTrades
<1>4. ASSUME NEW x \in Symbols, Manage(x) \/ Enter(x) PROVE TradeInv'
  BY <1>4, ManageTrades, EnterTrades
<1>5. ASSUME NEW x \in Symbols, markPositionReviewed(x) PROVE TradeInv'
  <2>1. /\ at["operator"] = "idle" /\ at' = [at EXCEPT !["operator"] = "save"]
        /\ UNCHANGED <<mode, booked, dropped, todo, closed, overlapped>>
    BY <1>5 DEF markPositionReviewed, Request, Goto, journal
  <2>2. Open' = Open
    BY <1>1, <1>5, OperatorReviewEffect
  <2> QED
    BY <1>1, <1>2, <2>1, <2>2, OperatorMoves
<1>6. ASSUME NEW a \in Actor, ReconcileThrows(a) PROVE TradeInv'
  BY <1>1, <1>6, AbortTrades DEF ReconcileThrows, Busy
<1>7. ASSUME NEW a \in Actor, EndReconcile(a) PROVE TradeInv'
  <2>1. /\ at[a] = "reconcile" /\ at' = [at EXCEPT ![a] = "apply"]
        /\ UNCHANGED <<mode, pos, booked, dropped, todo, closed, overlapped>>
    BY <1>7 DEF EndReconcile, Goto, journal
  <2>2. at'[a] = "apply" /\ \A b \in Actor \ {a} : at'[b] = at[b]
    BY <1>1, <2>1 DEF Places
  <2>3. Open' = Open
    BY <2>1 DEF Open
  <2>4. at'["cycle"] = "manage" => at["cycle"] = "manage"
    BY <1>1, <2>2
  <2> QED
    BY <1>2, <2>1, <2>2, <2>3, <2>4, QuietStep
<1>8. CASE StartCycle
  <2>1. CASE live /\ StartReconcile("cycle")
    BY <1>1, <1>8, <2>1, StartTrades DEF StartCycle, journal
  <2>2. CASE ~(live /\ StartReconcile("cycle"))
    <3>1. PICK label \in {"manage", "persist"} :
             /\ at' = [at EXCEPT !["cycle"] = label]
             /\ label = "manage" => ~live
             /\ todo' = todo \/ todo' = [todo EXCEPT !["cycle"] = Open]
             /\ UNCHANGED <<mode, pos, booked, dropped, closed, overlapped>>
      BY <1>8, <2>2 DEF StartCycle, Goto, journal
    <3>2. Open \in SUBSET Symbols /\ label \in CycleLabel \ {"reconcile", "apply"}
      BY <1>1 DEF SoundPositions, CycleLabel
    <3>3. closed["cycle"] = {}
      BY <1>1, <1>2, <1>8 DEF StartCycle
    <3> QED
      BY <1>1, <3>1, <3>2, <3>3, CycleMoves
  <2> QED
    BY <2>1, <2>2
<1>9. CASE MergeTruth
  <2>1. /\ at["cycle"] = "apply" /\ closed["cycle"] = {}
        /\ at' = [at EXCEPT !["cycle"] = "manage"]
        /\ todo' = [todo EXCEPT !["cycle"] = Open]
        /\ UNCHANGED <<mode, pos, booked, dropped, closed, overlapped>>
    BY <1>9 DEF MergeTruth, Goto, journal, history
  <2>2. Open \in SUBSET Symbols /\ "manage" \in CycleLabel \ {"reconcile", "apply"}
    BY <1>1 DEF SoundPositions, CycleLabel
  <2> QED
    BY <1>1, <2>1, <2>2, CycleMoves
<1>10. CASE ClearEntries \/ NoneLeft \/ Settle \/ Persist \/ PersistEntry \/ FailCycle
  <2>1. PICK label \in CycleLabel \ {"reconcile", "apply", "manage"} :
           /\ at' = [at EXCEPT !["cycle"] = label] /\ todo' = todo
           /\ UNCHANGED <<mode, pos, booked, dropped, closed, overlapped>>
           /\ at["cycle"] \in {"manage", "enter", "settle", "persist", "persistEntry", "failed"}
    BY <1>10 DEF ClearEntries, NoneLeft, Settle, Persist, PersistEntry, FailCycle, Goto,
                 journal, history, CycleLabel
  <2> QED
    BY <1>1, <1>2, <2>1, CycleMoves
<1>11. CASE Scan
  <2>1. PICK label \in CycleLabel \ {"reconcile", "apply", "manage"} :
           /\ at' = [at EXCEPT !["cycle"] = label]
           /\ todo' = todo \/ \E w \in SUBSET Symbols : todo' = [todo EXCEPT !["cycle"] = w]
           /\ UNCHANGED <<mode, pos, booked, dropped, closed, overlapped>>
           /\ at["cycle"] = "scan"
    BY <1>11 DEF Scan, Goto, journal, history, CycleLabel
  <2> QED
    BY <1>1, <1>2, <2>1, CycleMoves
<1>12. CASE forceReconcile
  <2>1. CASE live /\ StartReconcile("operator")
    BY <1>1, <1>12, <2>1, StartTrades DEF forceReconcile, Request, journal
  <2>2. CASE ~(live /\ StartReconcile("operator"))
    <3>1. /\ at["operator"] = "idle" /\ at' = [at EXCEPT !["operator"] = "save"]
          /\ UNCHANGED <<mode, pos, booked, dropped, todo, closed, overlapped>>
      BY <1>12, <2>2 DEF forceReconcile, Request, Goto, journal
    <3> QED
      BY <1>1, <1>2, <3>1, OperatorMoves DEF Open
  <2> QED
    BY <2>1, <2>2
<1>13. CASE EndForceReconcile \/ SaveRequest
  <2>1. PICK label \in {"idle", "save"} :
           /\ closed["operator"] = {} \/ at["operator"] = "save"
           /\ at' = [at EXCEPT !["operator"] = label]
           /\ UNCHANGED <<mode, pos, booked, dropped, todo, closed, overlapped>>
    BY <1>13 DEF EndForceReconcile, SaveRequest, Goto, journal, history
  <2> QED
    BY <1>1, <1>2, <2>1, OperatorMoves DEF Open
<1>14. CASE maybeRunExchangeTruthLoop \/ UNCHANGED vars
  <2>1. UNCHANGED <<mode, pos, booked, dropped, at, todo, closed, overlapped>>
    BY <1>14 DEF maybeRunExchangeTruthLoop, work, journal, vars, history
  <2>2. Open' = Open
    BY <2>1 DEF Open
  <2> QED
    BY <1>1, <1>2, <2>1, <2>2, QuietStep
<1> QED
  BY <1>3, <1>4, <1>5, <1>6, <1>7, <1>8, <1>9, <1>10, <1>11, <1>12, <1>13, <1>14,
     StepCases

-----------------------------------------------------------------------------
(* The book that entries are tried over.                                   *)
CleanBook ==
    (at["cycle"] \in {"scan", "enter"} /\ undisturbed) =>
        \A s \in Open :
            /\ ~pos[s].review
            /\ pos[s].op = "normal" => ~pos[s].recon /\ (live => pos[s].prot)

(* When the audit does not freeze entries, no position is in a state that  *)
(* would have.                                                             *)
LEMMA AuditSeesAll ==
    ASSUME SoundPositions, NEW t, NEW aged,
           ~buildExchangeSafetyAudit(t, syncOrderLifecycleState(pos), aged),
           NEW s \in Open
    PROVE  /\ ~pos[s].review
           /\ pos[s].op = "normal" => ~pos[s].recon /\ (live => pos[s].prot)
<1>1. Sound(pos[s]) /\ pos[s] \in Flags
  BY DEF SoundPositions
<1>2. syncOrderLifecycleState(pos) \cap MaterialStates = {}
  BY DEF buildExchangeSafetyAudit, materialPaperLifecyclePendingForEntryFreeze
<1>3. LifecycleState(pos[s]) \notin MaterialStates
  BY <1>2 DEF syncOrderLifecycleState, Open
<1>4. ~pos[s].review
  BY <1>3 DEF LifecycleState, MaterialStates
<1>5. ASSUME pos[s].op = "normal"
      PROVE  ~pos[s].recon /\ pos[s].life \notin MaterialStates
  BY <1>3, <1>4, <1>5 DEF LifecycleState, MaterialStates
<1> QED
  BY <1>1, <1>4, <1>5 DEF Sound, Flags

LEMMA CleanStep == Types /\ CleanBook /\ [Next]_vars => CleanBook'
<1> SUFFICES ASSUME Types, CleanBook, [Next]_vars PROVE CleanBook'
  OBVIOUS
<1>1. Places /\ SoundPositions /\ Gates /\ "cycle" \in Actor /\ "operator" \in Actor
  BY DEF Types, Actor
<1>2. ASSUME pos' = pos, mode' = mode, undisturbed' = undisturbed,
             at'["cycle"] \in {"scan", "enter"} => at["cycle"] \in {"scan", "enter"}
      PROVE  CleanBook'
  BY <1>2 DEF CleanBook, Open, live
<1>3. ASSUME undisturbed' = FALSE \/ at'["cycle"] \notin {"scan", "enter"}
      PROVE  CleanBook'
  BY <1>3 DEF CleanBook
<1>4. ASSUME NEW label \in CycleLabel \ {"scan", "enter"},
             at' = [at EXCEPT !["cycle"] = label]
      PROVE  CleanBook'
  <2>1. at'["cycle"] = label
    BY <1>1, <1>4 DEF Places
  <2> QED
    BY <1>3, <2>1
<1>5. ASSUME NEW a \in Actor,
             \/ ReconcileThrows(a) \/ EndReconcile(a)
             \/ \E x \in Symbols : Reconcile(a, x) \/ ApplyTrade(a, x)
      PROVE  CleanBook'
  <2>1. Disturbs(a)
    BY <1>5, ReconcileFrame DEF ReconcileThrows, EndReconcile, ApplyTrade
  <2>2. CASE a # "cycle"
    <3>1. undisturbed' = FALSE
      BY <2>1, <2>2 DEF Disturbs
    <3> QED
      BY <1>3, <3>1
  <2>3. CASE a = "cycle"
    <3>1. /\ at["cycle"] \in {"reconcile", "apply"}
          /\ at' = at \/ \E label \in {"failed", "apply"} : at' = [at EXCEPT !["cycle"] = label]
      BY <1>5, <2>3, ReconcileFrame
         DEF ReconcileThrows, EndReconcile, ApplyTrade, Abort, Goto
    <3>2. at'["cycle"] \notin {"scan", "enter"}
      BY <1>1, <3>1 DEF Places
    <3> QED
      BY <1>3, <3>2
  <2> QED
    BY <2>2, <2>3
<1>6. ASSUME NEW x \in Symbols, Manage(x) PROVE CleanBook'
  BY <1>3, <1>6, ManageFrame DEF Managing, Managed
<1>7. ASSUME NEW x \in Symbols, Enter(x) PROVE CleanBook'
  <2>1. CASE at' = [at EXCEPT !["cycle"] = "settle"]
    BY <1>4, <2>1 DEF CycleLabel
  <2>2. CASE EnterFails(x)
    BY <1>2, <2>2 DEF EnterFails, history
  <2> QED
    BY <1>7, <2>1, <2>2 DEF Enter, EnterOk, EnterExposed, EnterStops, Goto
<1>8. ASSUME Request \/ undisturbed' = FALSE PROVE CleanBook'
  BY <1>3, <1>8 DEF Request
<1>9. CASE \/ forceReconcile \/ maybeRunExchangeTruthLoop \/ EndForceReconcile
           \/ \E x \in Symbols : markPositionReviewed(x)
  BY <1>8, <1>9
     DEF forceReconcile, maybeRunExchangeTruthLoop, EndForceReconcile, markPositionReviewed
<1>10. CASE \/ StartCycle \/ MergeTruth \/ NoneLeft
            \/ Settle \/ Persist \/ PersistEntry \/ FailCycle
  <2>1. \E label \in CycleLabel \ {"scan", "enter"} : at' = [at EXCEPT !["cycle"] = label]
    BY <1>10 DEF StartCycle, StartReconcile, MergeTruth, NoneLeft, Settle, Persist,
                 PersistEntry, FailCycle, Goto, CycleLabel
  <2> QED
    BY <1>4, <2>1
<1>11. CASE ClearEntries
  <2>1. PICK aged \in BOOLEAN :
           refreshExchangeSafetyState(truth, syncOrderLifecycleState(pos), aged)
    BY <1>11 DEF ClearEntries
  <2>2. frozen' = buildExchangeSafetyAudit(truth, syncOrderLifecycleState(pos), aged)
    BY <1>1, <2>1, StatesTyped, RefreshTyped DEF Gates
  <2>3. /\ pos' = pos /\ mode' = mode
        /\ at' = [at EXCEPT !["cycle"] = IF frozen' THEN "settle" ELSE "scan"]
    BY <1>11 DEF ClearEntries, Goto
  <2>4. CASE frozen'
    BY <1>4, <2>3, <2>4 DEF CycleLabel
  <2>5. CASE ~frozen'
    <3>1. \A s \in Open :
            /\ ~pos[s].review
            /\ pos[s].op = "normal" => ~pos[s].recon /\ (live => pos[s].prot)
      BY <1>1, <2>2, <2>5, AuditSeesAll
    <3> QED
      BY <2>3, <3>1 DEF CleanBook, Open, live
  <2> QED
    BY <2>4, <2>5
<1>12. CASE Scan
  BY <1>2, <1>12 DEF Scan, history
<1>13. CASE SaveRequest
  <2>1. at' = [at EXCEPT !["operator"] = "idle"]
    BY <1>13 DEF SaveRequest, Goto
  <2>2. at'["cycle"] = at["cycle"]
    BY <1>1, <2>1 DEF Places
  <2> QED
    BY <1>2, <1>13, <2>2 DEF SaveRequest, history
<1>14. CASE UNCHANGED vars
  BY <1>2, <1>14 DEF vars, work, history
<1> QED
  BY <1>5, <1>6, <1>7, <1>9, <1>10, <1>11, <1>12, <1>13, <1>14, StepCases

-----------------------------------------------------------------------------
(* Success is only reported by the save itself: whatever leaves memory     *)
(* ahead of the disk has its actor still on the way to one.                *)
LEMMA SavedStep == Types /\ SuccessIsSaved /\ [Next]_vars => SuccessIsSaved'
<1> SUFFICES ASSUME Types, SuccessIsSaved, [Next]_vars PROVE SuccessIsSaved'
  OBVIOUS
<1>1. Places /\ SoundPositions /\ flagged \in [Actor -> SUBSET Symbols]
      /\ "cycle" \in Actor /\ "operator" \in Actor
  BY DEF Types, Places, Actor
<1>2. ASSUME \/ reported' = "failed" \/ unsaved' = FALSE
             \/ \E a \in Actor : at'[a] # "idle"
      PROVE  SuccessIsSaved'
  BY <1>2 DEF SuccessIsSaved
<1>3. ASSUME NEW a \in Actor, NEW label, label # "idle", at' = [at EXCEPT ![a] = label]
      PROVE  SuccessIsSaved'
  <2>1. at'[a] = label
    BY <1>1, <1>3 DEF Places
  <2> QED
    BY <1>2, <1>3, <2>1
<1>4. ASSUME NEW a \in Actor,
             \/ ReconcileThrows(a) \/ EndReconcile(a)
             \/ \E x \in Symbols : Reconcile(a, x) \/ ApplyTrade(a, x)
      PROVE  SuccessIsSaved'
  <2>1. \/ at' = at /\ at[a] \in {"reconcile", "apply"}
        \/ \E label \in {"apply", "failed", "save"} : at' = [at EXCEPT ![a] = label]
    BY <1>4, ReconcileFrame DEF ReconcileThrows, EndReconcile, ApplyTrade, Abort, Goto
  <2> QED
    BY <1>2, <1>3, <2>1
<1>5. ASSUME NEW x \in Symbols, Manage(x) \/ Enter(x) PROVE SuccessIsSaved'
  <2>1. \/ at' = at /\ at["cycle"] \in {"manage", "enter"}
        \/ at' = [at EXCEPT !["cycle"] = "settle"]
    BY <1>5, ManageFrame, EnterFrame DEF Managing, Managed, Entering
  <2> QED
    BY <1>1, <1>2, <1>3, <2>1
<1>6. CASE \/ forceReconcile \/ EndForceReconcile
           \/ \E x \in Symbols : markPositionReviewed(x)
  <2>1. \E label \in {"reconcile", "save"} : at' = [at EXCEPT !["operator"] = label]
    BY <1>6 DEF forceReconcile, EndForceReconcile, markPositionReviewed, StartReconcile, Goto
  <2> QED
    BY <1>1, <1>3, <2>1
<1>7. CASE StartCycle \/ MergeTruth \/ ClearEntries \/ Scan \/ NoneLeft \/ Settle
  <2>1. \E label \in CycleLabel \ {"idle"} : at' = [at EXCEPT !["cycle"] = label]
    BY <1>7 DEF StartCycle, StartReconcile, MergeTruth, ClearEntries, Scan, NoneLeft,
                Settle, Goto, CycleLabel
  <2> QED
    BY <1>1, <1>3, <2>1
<1>8. CASE Persist \/ PersistEntry
  <2>1. \/ unsaved' = FALSE
        \/ \E label \in {"failed", "persistEntry"} : at' = [at EXCEPT !["cycle"] = label]
    BY <1>8 DEF Persist, PersistEntry, Saves, Goto
  <2> QED
    BY <1>1, <1>2, <1>3, <2>1
<1>9. CASE FailCycle \/ SaveRequest
  <2>1. unsaved' = FALSE \/ reported' = "failed"
    BY <1>9 DEF FailCycle, SaveRequest, Saves
  <2> QED
    BY <1>2, <2>1
<1>10. CASE maybeRunExchangeTruthLoop \/ UNCHANGED vars
  <2>1. UNCHANGED <<at, unsaved, reported>>
    BY <1>10 DEF maybeRunExchangeTruthLoop, work, store, vars
  <2> QED
    BY <2>1 DEF SuccessIsSaved
<1> QED
  BY <1>4, <1>5, <1>6, <1>7, <1>8, <1>9, <1>10, StepCases

-----------------------------------------------------------------------------
(* The invariant holds in every state of every behaviour.                  *)
IInv == Types /\ TradeInv /\ CleanBook /\ SuccessIsSaved

LEMMA InitIInv == Init => IInv
<1> SUFFICES ASSUME Init PROVE IInv
  OBVIOUS
<1>1. PICK S \in SUBSET Symbols :
         /\ pos = [s \in S |-> Fresh]
         /\ booked = [s \in Symbols |-> IF s \in S THEN 0 ELSE 1]
  BY DEF Init
<1>2. Open = S /\ mode \in {"live", "paper"}
  BY <1>1 DEF Open, Init
<1>3. SoundPositions
  <2>1. Sound(Fresh) /\ Fresh \in Flags
    BY <1>2, FreshSound DEF Sound
  <2>2. pos \in [S -> Flags] /\ \A s \in S : pos[s] = Fresh
    BY <1>1, <2>1
  <2> QED
    BY <1>2, <2>1, <2>2 DEF SoundPositions
<1>4. Places
  BY DEF Init, Places, Actor, CycleLabel, OperatorLabel
<1>5. Journal
  <2>1. 0 \in 0..2 /\ 1 \in 0..2 /\ 0 \in 0..positionFailureManualReviewCount
    BY CycleAssumption
  <2>2. booked \in [Symbols -> 0..2]
    BY <1>1, <2>1, Zenon
  <2>3. streak \in [Symbols -> 0..positionFailureManualReviewCount] /\ dropped = {}
    BY <2>1, Zenon DEF Init
  <2> QED
    BY <2>2, <2>3 DEF Journal
<1>6. Gates /\ Notes
  <2>1. /\ 0 \in 0..healthMaxConsecutiveFailures /\ 0 \in 0..MaxFaults
        /\ 0 \in 0..MaxVisits /\ 0 \in Nat
    BY CycleAssumption
  <2>2. Gates
    BY <2>1 DEF Init, Gates
  <2>3. Notes
    BY <2>1, Zenon DEF Init, Notes
  <2> QED
    BY <2>2, <2>3
<1>7. TradeInv
  <2>1. \A a \in Actor : at[a] = "idle" /\ closed[a] = {}
    BY DEF Init
  <2>2. \A s \in Symbols : booked[s] = IF s \in S THEN 0 ELSE 1
    BY <1>1
  <2> QED
    BY <1>2, <2>1, <2>2 DEF TradeInv, ClosedAreGone, Accounted, Apart, OnlyLive, Busy, Actor
<1>8. CleanBook /\ SuccessIsSaved
  BY DEF Init, CleanBook, SuccessIsSaved
<1> QED
  BY <1>3, <1>4, <1>5, <1>6, <1>7, <1>8 DEF IInv, Types

LEMMA NextIInv == IInv /\ [Next]_vars => IInv'
BY TypesStep, TradesStep, CleanStep, SavedStep DEF IInv

LEMMA Invariant == Spec => []IInv
<1> QED
  BY InitIInv, NextIInv, PTL DEF Spec

(* The types, among them that a failure budget never passes its limit and  *)
(* that an actor is only ever at a place of its own program.               *)
THEOREM TypeCorrect == Spec => []TypeOK
<1>1. IInv => TypeOK
  BY TypesSuffice DEF IInv
<1> QED
  BY <1>1, Invariant, PTL

(* While the cycle tries its entries over a book that no request has       *)
(* touched, no open position waits for a review or a reconcile or is       *)
(* unprotected in normal operation (refreshExchangeSafetyState before the  *)
(* scan, and the end of openBestCandidate's loop after an exposed entry).  *)
THEOREM EntriesAreClean == Spec => []EntriesNeedACleanBook
<1>1. IInv => EntriesNeedACleanBook
  BY DEF IInv, CleanBook, EntriesNeedACleanBook
<1> QED
  BY <1>1, Invariant, PTL

(* The trade of a closed position is journaled, waits in the list of the   *)
(* reconcile that closed it, or was dropped by an error of that reconcile; *)
(* and it is journaled once unless two reconciles ran beside each other.   *)
THEOREM TradesAreBooked == Spec => []TradesBookedOnce
<1>1. IInv => TradesBookedOnce
  BY DEF IInv, TradeInv, Accounted, Apart, TradesBookedOnce
<1> QED
  BY <1>1, Invariant, PTL

(* A reported success means that the disk holds what memory holds, once no *)
(* cycle and no request is under way (runTradingCycle).                    *)
THEOREM SuccessesAreSaved == Spec => []SuccessIsSaved
<1> QED
  BY Invariant, PTL DEF IInv

(* However a position's management ends, it does not lift a review or      *)
(* bring a position in protect_only back to normal.                        *)
THEOREM DegradationsAreKept == Spec => DegradationsHold
<1>1. IInv /\ [Next]_vars =>
        [\A s \in Open :
          (at["cycle"] = "manage" /\ todo["cycle"] # todo'["cycle"] /\ s \in DOMAIN pos') =>
            /\ pos[s].review => pos'[s].review
            /\ pos[s].op # "normal" => pos'[s].op # "normal"]_vars
  <2> SUFFICES ASSUME IInv, Next, NEW s \in Open,
                      at["cycle"] = "manage", todo["cycle"] # todo'["cycle"], s \in Open'
               PROVE  /\ pos[s].review => pos'[s].review
                      /\ pos[s].op # "normal" => pos'[s].op # "normal"
    BY DEF Open
  <2>1. /\ SoundPositions /\ todo \in [Actor -> SUBSET Symbols]
        /\ "cycle" \in Actor /\ "operator" \in Actor
    BY DEF IInv, Types, Places, Actor
  <2>2. ASSUME NEW w, todo' = [todo EXCEPT !["operator"] = w] PROVE FALSE
    BY <2>1, <2>2
  <2>3. ASSUME todo' = todo PROVE FALSE
    BY <2>3
  <2>4. ASSUME NEW a \in Actor,
               \/ ReconcileThrows(a) \/ EndReconcile(a)
               \/ \E x \in Symbols : Reconcile(a, x) \/ ApplyTrade(a, x)
        PROVE  FALSE
    <3>1. a = "operator"
      BY <2>4, ReconcileFrame DEF ReconcileThrows, EndReconcile, ApplyTrade, Actor
    <3>2. todo' = todo \/ \E w : todo' = [todo EXCEPT !["operator"] = w]
      BY <2>4, <3>1, ReconcileFrame DEF ReconcileThrows, EndReconcile, ApplyTrade, Abort
    <3> QED
      BY <2>2, <2>3, <3>2
  <2>5. ~(\/ StartCycle \/ MergeTruth \/ Scan \/ NoneLeft \/ Settle
          \/ Persist \/ PersistEntry \/ FailCycle
          \/ \E x \in Symbols : Enter(x))
    BY EnterFrame
       DEF StartCycle, MergeTruth, Scan, NoneLeft, Settle, Persist, PersistEntry,
           FailCycle, Entering
  <2>6. ~ClearEntries
    BY <2>3 DEF ClearEntries
  <2>7. CASE forceReconcile
    <3>1. todo' = todo \/ \E w : todo' = [todo EXCEPT !["operator"] = w]
      BY <2>7 DEF forceReconcile, StartReconcile
    <3> QED
      BY <2>2, <2>3, <3>1
  <2>8. ~(\/ EndForceReconcile \/ SaveRequest \/ maybeRunExchangeTruthLoop
          \/ \E x \in Symbols : markPositionReviewed(x))
    BY <2>3
       DEF EndForceReconcile, SaveRequest, maybeRunExchangeTruthLoop, markPositionReviewed,
           work
  <2>9. CASE \E x \in Symbols : Manage(x)
    BY <2>1, <2>9, ManageEffect
  <2> QED
    BY <2>4, <2>5, <2>6, <2>7, <2>8, <2>9, StepCases
<1> QED
  BY <1>1, Invariant, PTL DEF Spec, DegradationsHold

=============================================================================
