--------------------------- MODULE BotManager_proofs ---------------------------
(***************************************************************************)
(* Proofs about the bot manager, for any number of loops and instances.    *)
(* First, under every incident: its types, that a manager that says        *)
(* running has a loop, and that one that says stopping starts no further   *)
(* cycle.  Then, as long as no cycle throws, no instance fails to start,   *)
(* no stop times out and nobody reads status (Calm): one loop, one cycle,  *)
(* one open instance, and no cycle on a closed one.                        *)
(***************************************************************************)
EXTENDS BotManager, FiniteSetTheorems, TLAPS

Await == {"idle", "closing", "initializing", "inspecting", "analysing", "ready",
          "failed", "cycling", "delay", "joining", "closing_bot", "armed"}
PhaseName == {"none", "ensure", "sync", "init", "mode", "revert", "heal", "once",
              "parked", "joined"} \cup Loop

(* The lock is held exactly while the task is at an await, and a task in   *)
(* the phase of a mode switch is one.                                      *)
LockMatches ==
    /\ op.kind \in {"none", "init", "start", "once", "stop", "stopTimed", "mode"}
    /\ op.kind = "none" <=> at["task"] = "idle"
    /\ op.kind = "mode" => op.to \in Mode /\ op.from \in Mode /\ op.running \in BOOLEAN
    /\ phase["task"] = "mode" => op.kind = "mode"

(* Only the lock's holder asks the lifecycle to stop, and once its stop is *)
(* past the loop's end nobody does.                                        *)
StopIsOver ==
    at["task"] = "closing_bot" \/ phase["task"] \in {"mode", "revert"} =>
        lifecycle # "stopping"

IInv ==
    /\ TypeOK
    /\ LockMatches
    /\ StopIsOver
    /\ RunningHasLoop
    /\ StoppingIsRequested

LEMMA Actors ==
    /\ "task" \in Actor /\ "reader" \in Actor /\ "cleanup" \in Actor
    /\ \A i \in Loop : i \in Actor /\ i # "task" /\ i # "reader" /\ i # "cleanup"
BY ManagerAssumption DEF Actor

-----------------------------------------------------------------------------
(* The shapes that steps have in common.                                   *)

(* One actor moves to another await.                                       *)
Moves(a, pc, ph, b) ==
    /\ at' \in [Actor -> Await] /\ phase' \in [Actor -> PhaseName]
    /\ uses' \in [Actor -> Bot \cup {NoBot}]
    /\ at'[a] = pc /\ phase'[a] = ph /\ uses'[a] = b
    /\ \A x \in Actor \ {a} :
         at'[x] = at[x] /\ phase'[x] = phase[x] /\ uses'[x] = uses[x]

LEMMA SuspendMoves ==
    ASSUME TypeOK, NEW a \in Actor, NEW pc \in Await, NEW ph \in PhaseName,
           NEW b \in Bot \cup {NoBot}, Suspend(a, pc, ph, b)
    PROVE  Moves(a, pc, ph, b)
BY DEF TypeOK, Suspend, Moves, Await, PhaseName

LEMMA FinishMoves ==
    ASSUME TypeOK, NEW a \in Actor, Finish(a)
    PROVE  Moves(a, "idle", "none", NoBot)
BY SuspendMoves DEF Finish, Await, PhaseName

LEMMA ReinitializeMoves ==
    ASSUME TypeOK, NEW a \in Actor, NEW ph \in PhaseName, Reinitialize(a, ph)
    PROVE  /\ \/ Moves(a, "closing", ph, NoBot) /\ open' = open \ {bot}
              \/ "reject" \in Happens /\ Moves(a, "failed", ph, NoBot)
           /\ open' \subseteq Bot
BY SuspendMoves DEF Reinitialize, Await, TypeOK

LEMMA EnsureReadyMoves ==
    ASSUME TypeOK, NEW a \in Actor, EnsureReady(a)
    PROVE  /\ \E pc \in {"closing", "failed", "inspecting"} : Moves(a, pc, "ensure", NoBot)
           /\ open' \subseteq Bot
BY SuspendMoves, ReinitializeMoves DEF EnsureReady, Await, PhaseName, TypeOK

LEMMA CloseForStopMoves ==
    ASSUME TypeOK, NEW ph \in PhaseName, CloseForStop("task", ph)
    PROVE  /\ \E b \in Bot \cup {NoBot} : Moves("task", "closing_bot", ph, b)
           /\ open' \subseteq Bot
BY SuspendMoves, Actors DEF CloseForStop, Await, TypeOK

LEMMA BeginLoopMoves ==
    ASSUME TypeOK, NEW i \in Loop, BeginLoop(i)
    PROVE  /\ at' \in [Actor -> Await] /\ phase' \in [Actor -> PhaseName]
           /\ uses' \in [Actor -> Bot \cup {NoBot}]
           /\ at'["task"] = "idle" /\ phase'["task"] = "none" /\ uses'["task"] = NoBot
           /\ at'[i] = "cycling" /\ phase'[i] = phase[i] /\ uses'[i] = bot
           /\ \A x \in Actor \ {"task", i} :
                at'[x] = at[x] /\ phase'[x] = phase[x] /\ uses'[x] = uses[x]
           /\ loopPromise' = i
BY Actors DEF TypeOK, BeginLoop, Await, PhaseName

LEMMA LoopEndsMoves ==
    ASSUME TypeOK, NEW i \in Loop, LoopEnds(i)
    PROVE  /\ at' \in [Actor -> Await] /\ phase' \in [Actor -> PhaseName]
           /\ uses' \in [Actor -> Bot \cup {NoBot}] /\ open' \subseteq Bot
           /\ at'[i] = "idle"
           /\ at["cleanup"] # "armed" =>
                /\ at'["cleanup"] = at["cleanup"] /\ phase'["cleanup"] = phase["cleanup"]
                /\ uses'["cleanup"] = uses["cleanup"] /\ open' = open
           /\ \A x \in Actor \ {i, "cleanup"} :
                at'[x] = at[x] /\ phase'[x] = phase[x] /\ uses'[x] = uses[x]
<1> DEFINE due == at["cleanup"] = "armed" /\ phase["cleanup"] = i
<1>1. PICK close \in Closes(due /\ bot = uses["cleanup"] /\ ~needsReinit) :
        /\ at' = [at EXCEPT ![i] = "idle",
                            !["cleanup"] = IF close THEN "closing_bot"
                                           ELSE IF due THEN "idle" ELSE @]
        /\ uses' = [uses EXCEPT ![i] = NoBot,
                                !["cleanup"] = IF due /\ ~close THEN NoBot ELSE @]
        /\ phase' = [phase EXCEPT ![i] = "none",
                                  !["cleanup"] = IF due THEN "none" ELSE @]
        /\ open' = IF close THEN open \ {bot} ELSE open
  BY DEF LoopEnds
<1>2. close => due
  BY DEF Closes
<1> QED
  BY <1>1, <1>2, Actors DEF TypeOK, Await, PhaseName

LEMMA EndIterationMoves ==
    ASSUME TypeOK, NEW i \in Loop, NEW s \in State, EndIteration(i, s)
    PROVE  \/ stopRequested' /\ lifecycle' = "stopped" /\ LoopEnds(i)
           \/ ~stopRequested' /\ lifecycle' = s /\ open' = open
              /\ Moves(i, "delay", "none", NoBot)
BY Actors, SuspendMoves DEF EndIteration, Await, PhaseName

-----------------------------------------------------------------------------
(* Under every incident.  An actor that goes on within its operation, or   *)
(* a reader that begins, leaves everything but the types alone.            *)
LEMMA OnwardKeeps ==
    ASSUME IInv, NEW a \in Actor \ {"cleanup"},
           NEW pc \in Await \ {"idle", "closing_bot"},
           NEW ph \in {phase[a], "none", "sync", "ensure", "heal"},
           NEW b \in Bot \cup {NoBot}, Moves(a, pc, ph, b),
           a = "task" => at[a] # "idle",
           UNCHANGED <<lifecycle, stopRequested, op>>
    PROVE  LockMatches' /\ StopIsOver' /\ RunningHasLoop' /\ StoppingIsRequested'
BY Actors DEF Moves, IInv, LockMatches, StopIsOver, RunningHasLoop, Alive,
   StoppingIsRequested

LEMMA ReinitStepKeeps ==
    ASSUME IInv, NEW a \in Actor \ {"cleanup"}, ReinitStep(a)
    PROVE  IInv'
<1> USE DEF IInv
<1>0. TypeOK /\ a \in Actor /\ phase[a] \in PhaseName /\ uses[a] \in Bot \cup {NoBot}
  BY DEF TypeOK, PhaseName
<1>1. CASE SyncStoppedMode(a)
  <2>1. /\ \/ Moves(a, "ready", "none", NoBot)
           \/ Moves(a, "closing", "sync", NoBot)
           \/ Moves(a, "failed", "sync", NoBot)
        /\ open' \subseteq Bot
    BY <1>0, <1>1, SuspendMoves, ReinitializeMoves
       DEF SyncStoppedMode, Await, PhaseName, TypeOK
  <2>2. TypeOK'
    BY <1>0, <1>1, <2>1 DEF SyncStoppedMode, TypeOK, Moves, Await, PhaseName
  <2> QED
    BY <1>1, <2>1, <2>2, OnwardKeeps DEF SyncStoppedMode, Await
<1>2. CASE LoadConfig(a)
  <2>1. PICK b \in Bot : /\ open' = open \cup {b}
                         /\ botMode' = [botMode EXCEPT ![b] = env]
                         /\ Moves(a, "initializing", phase[a], b)
    BY <1>0, <1>2, SuspendMoves DEF LoadConfig, Await
  <2>2. TypeOK'
    BY <1>0, <1>2, <2>1 DEF LoadConfig, TypeOK, Moves, Await, PhaseName
  <2> QED
    BY <1>2, <2>1, <2>2, OnwardKeeps DEF LoadConfig, Await
<1>3. CASE AdoptBot(a)
  <2>1. PICK pc \in {"inspecting", "failed", "analysing"} : Moves(a, pc, phase[a], NoBot)
    BY <1>0, <1>3, SuspendMoves DEF AdoptBot, Await
  <2>2. TypeOK'
    <3>1. botMode' \in [Bot -> Mode]
      BY <1>0, <1>3 DEF AdoptBot, TypeOK, Mode
    <3> QED
      BY <1>0, <1>3, <2>1, <3>1 DEF AdoptBot, TypeOK, Moves, Await, PhaseName
  <2> QED
    BY <1>3, <2>1, <2>2, OnwardKeeps DEF AdoptBot, Await
<1>4. CASE ReinitializeFails(a)
  <2>1. Moves(a, "failed", phase[a], NoBot) /\ open' = open \ {uses[a]}
    BY <1>0, <1>4, SuspendMoves DEF ReinitializeFails, Await
  <2>2. TypeOK'
    <3>1. botMode' \in [Bot -> Mode]
      BY <1>0, <1>4 DEF ReinitializeFails, TypeOK, Mode
    <3> QED
      BY <1>0, <1>4, <2>1, <3>1 DEF ReinitializeFails, TypeOK, Moves, Await, PhaseName
  <2> QED
    BY <1>4, <2>1, <2>2, OnwardKeeps DEF ReinitializeFails, Await
<1>5. CASE SyncedAnalysis(a)
  <2>1. Moves(a, "ready", "none", NoBot)
    BY <1>0, <1>5, SuspendMoves DEF SyncedAnalysis, Await, PhaseName
  <2>2. TypeOK'
    BY <1>0, <1>5, <2>1 DEF SyncedAnalysis, TypeOK, Moves, Await, PhaseName
  <2> QED
    BY <1>5, <2>1, <2>2, OnwardKeeps DEF SyncedAnalysis, Await
<1> QED
  BY <1>1, <1>2, <1>3, <1>4, <1>5 DEF ReinitStep

(* A loop's step: it goes on and the lifecycle says so, or it ends and the *)
(* lifecycle no longer says running.                                       *)
LEMMA LoopMovesKeep ==
    ASSUME IInv, NEW i \in Loop,
           \/ Moves(i, "delay", "none", NoBot) \/ Moves(i, "cycling", "none", bot)
           \/ lifecycle' = "stopped" /\ LoopEnds(i),
           lifecycle' \in {"running", "degraded", "stopped", lifecycle},
           lifecycle' = lifecycle => (stopRequested => stopRequested'),
           op' = op
    PROVE  LockMatches' /\ StopIsOver' /\ RunningHasLoop' /\ StoppingIsRequested'
<1> USE DEF IInv
<1>1. at'["task"] = at["task"] /\ phase'["task"] = phase["task"]
  BY LoopEndsMoves, Actors DEF Moves
<1>2. LockMatches' /\ StopIsOver'
  BY <1>1 DEF LockMatches, StopIsOver
<1>3. RunningHasLoop'
  BY DEF Moves, RunningHasLoop, Alive
<1>4. StoppingIsRequested'
  BY DEF StoppingIsRequested
<1> QED
  BY <1>2, <1>3, <1>4

LEMMA LoopStepKeeps ==
    ASSUME IInv, NEW i \in Loop, LoopStep(i)
    PROVE  IInv'
<1> USE DEF IInv
<1>0. TypeOK /\ i \in Actor
  BY Actors
<1>1. CASE CycleSucceeds(i)
  <2>1. Recovered \in State
    BY <1>0 DEF Recovered, TypeOK, State
  <2>2. \/ stopRequested' /\ lifecycle' = "stopped" /\ LoopEnds(i)
        \/ lifecycle' = Recovered /\ open' = open /\ Moves(i, "delay", "none", NoBot)
    BY <1>0, <1>1, <2>1, EndIterationMoves DEF CycleSucceeds
  <2>3. TypeOK'
    <3>1. /\ at' \in [Actor -> Await] /\ phase' \in [Actor -> PhaseName]
          /\ uses' \in [Actor -> Bot \cup {NoBot}] /\ open' \subseteq Bot
      BY <1>0, <2>2, LoopEndsMoves DEF Moves, TypeOK
    <3>2. exposure' \in Exposure /\ lifecycle' \in State /\ failures' \in 0..Threshold
      BY <1>0, <1>1, <2>1, <2>2, ManagerAssumption DEF CycleSucceeds, TypeOK, State
    <3> QED
      BY <1>0, <1>1, <3>1, <3>2 DEF CycleSucceeds, TypeOK, Await, PhaseName
  <2> QED
    BY <1>1, <2>2, <2>3, LoopMovesKeep DEF CycleSucceeds, Recovered
<1>2. CASE CycleFails(i)
  <2>1. failures' \in 0..Threshold /\ exposure' \in Exposure
    BY <1>0, <1>2, ManagerAssumption DEF CycleFails, TypeOK
  <2>2. stopRequested' \in BOOLEAN /\ (stopRequested => stopRequested')
    BY <1>0, <1>2 DEF CycleFails, TypeOK
  <2>3. \/ lifecycle' = "stopped" /\ LoopEnds(i)
        \/ lifecycle' = "degraded" /\ open' = open /\ Moves(i, "delay", "none", NoBot)
    BY <1>0, <1>2, EndIterationMoves DEF CycleFails, State
  <2>4. TypeOK'
    BY <1>0, <1>2, <2>1, <2>2, <2>3, LoopEndsMoves
       DEF CycleFails, TypeOK, Moves, Await, PhaseName, State
  <2> QED
    BY <1>2, <2>2, <2>3, <2>4, LoopMovesKeep DEF CycleFails
<1>3. CASE NextCycle(i)
  <2>1. \/ lifecycle' = "stopped" /\ LoopEnds(i)
        \/ lifecycle' = lifecycle /\ open' = open /\ Moves(i, "cycling", "none", bot)
    BY <1>0, <1>3, SuspendMoves DEF NextCycle, Await, PhaseName, TypeOK
  <2>2. TypeOK'
    BY <1>0, <1>3, <2>1, LoopEndsMoves
       DEF NextCycle, TypeOK, Moves, Await, PhaseName, State
  <2> QED
    BY <1>3, <2>1, <2>2, LoopMovesKeep DEF NextCycle
<1>4. CASE HealByStopping(i)
  <2>1. TypeOK'
    BY <1>0, <1>4, LoopEndsMoves, ManagerAssumption
       DEF HealByStopping, TypeOK, Await, PhaseName, State
  <2> QED
    BY <1>4, <2>1, LoopMovesKeep DEF HealByStopping
<1>5. CASE HealBySwitching(i)
  <2>1. PICK pc \in {"closing", "failed"} : Moves(i, pc, "heal", NoBot) /\ open' \subseteq Bot
    BY <1>0, <1>5, ReinitializeMoves DEF HealBySwitching, PhaseName
  <2>2. TypeOK'
    BY <1>0, <1>5, <2>1 DEF HealBySwitching, TypeOK, Moves, Await, PhaseName, Mode
  <2> QED
    BY <1>0, <1>5, <2>1, <2>2, OnwardKeeps, Actors DEF HealBySwitching, Await
<1> QED
  BY <1>1, <1>2, <1>3, <1>4, <1>5 DEF LoopStep

-----------------------------------------------------------------------------
(* The holder of the lock moves.                                           *)
LEMMA TaskMovesKeep ==
    ASSUME IInv, NEW pc \in Await, NEW ph \in PhaseName, NEW b \in Bot \cup {NoBot},
           Moves("task", pc, ph, b),
           lifecycle' = "running" => lifecycle = "running",
           lifecycle' = "stopping" => stopRequested',
           pc = "closing_bot" \/ ph \in {"mode", "revert"} => lifecycle' # "stopping"
    PROVE  RunningHasLoop' /\ StoppingIsRequested' /\ StopIsOver'
BY Actors DEF Moves, IInv, RunningHasLoop, Alive, StoppingIsRequested, StopIsOver

LEMMA ReleaseMoves ==
    ASSUME TypeOK, Release
    PROVE  Moves("task", "idle", "none", NoBot) /\ op' = NoOp /\ LockMatches'
BY FinishMoves, Actors DEF Release, LockMatches, NoOp, Moves

(* A step after which the lock is free.                                    *)
LEMMA ReleaseKeeps ==
    ASSUME IInv, Release,
           lifecycle' \in State,
           lifecycle' = "running" => lifecycle = "running",
           lifecycle' = "stopping" => stopRequested',
           stopRequested' \in BOOLEAN, failures' \in 0..Threshold,
           needsReinit' \in BOOLEAN, exposure' \in Exposure, invalid' \in BOOLEAN,
           UNCHANGED <<bot, open, botMode, env, loopPromise>>
    PROVE  IInv'
<1>1. TypeOK
  BY DEF IInv
<1>2. Moves("task", "idle", "none", NoBot) /\ LockMatches'
  BY <1>1, ReleaseMoves
<1>3. TypeOK'
  BY <1>1, <1>2 DEF TypeOK, Moves, Await, PhaseName
<1> QED
  BY <1>2, <1>3, TaskMovesKeep DEF IInv, Await, PhaseName

(* A step after which the holder of the lock waits for something else.     *)
LEMMA HolderKeeps ==
    ASSUME IInv, NEW pc \in Await \ {"idle"}, NEW ph \in PhaseName,
           NEW b \in Bot \cup {NoBot}, Moves("task", pc, ph, b),
           op' = op /\ at["task"] # "idle",
           ph = "mode" => op.kind = "mode",
           lifecycle' \in State,
           lifecycle' = "running" => lifecycle = "running",
           lifecycle' = "stopping" => stopRequested',
           pc = "closing_bot" \/ ph \in {"mode", "revert"} => lifecycle' # "stopping",
           open' \subseteq Bot, env' \in Mode,
           stopRequested' \in BOOLEAN, needsReinit' \in BOOLEAN,
           exposure' \in Exposure, invalid' \in BOOLEAN,
           UNCHANGED <<failures, bot, botMode, loopPromise>>
    PROVE  IInv'
<1>1. TypeOK
  BY DEF IInv
<1>2. TypeOK'
  BY <1>1 DEF TypeOK, Moves, Await, PhaseName
<1>3. LockMatches'
  BY DEF IInv, LockMatches, Moves
<1> QED
  BY <1>2, <1>3, TaskMovesKeep DEF IInv

LEMMA BeginLoopKeeps ==
    ASSUME IInv, NEW i \in Loop, BeginLoop(i), lifecycle' = "running",
           stopRequested' \in BOOLEAN, failures' \in 0..Threshold,
           invalid' \in BOOLEAN,
           UNCHANGED <<needsReinit, bot, open, botMode, env, exposure>>
    PROVE  IInv'
<1>1. TypeOK
  BY DEF IInv
<1>2. TypeOK'
  BY <1>1, BeginLoopMoves DEF TypeOK, Await, PhaseName, State
<1>3. LockMatches' /\ StopIsOver' /\ RunningHasLoop' /\ StoppingIsRequested'
  BY <1>1, BeginLoopMoves DEF BeginLoop, LockMatches, NoOp, StopIsOver,
     RunningHasLoop, Alive, StoppingIsRequested
<1> QED
  BY <1>2, <1>3 DEF IInv

LEMMA TaskStepKeeps ==
    ASSUME IInv, TaskStep
    PROVE  IInv'
<1>0. TypeOK /\ LockMatches /\ StopIsOver /\ StoppingIsRequested /\ Threshold \in Nat
  BY ManagerAssumption DEF IInv
<1>1. CASE InitDone
  BY <1>0, <1>1, ReleaseKeeps DEF InitDone, TypeOK, State
<1>2. CASE TaskThrows
  BY <1>0, <1>2, ReleaseKeeps DEF TaskThrows, TypeOK, StoppingIsRequested
<1>3. CASE Start
  <2>1. CASE Startable
    <3>1. PICK i \in Loop : BeginLoop(i)
      BY <1>3, <2>1 DEF Start
    <3>2. lifecycle' = "running" /\ stopRequested' = FALSE /\ failures' \in 0..Threshold
          /\ invalid' \in BOOLEAN
      BY <1>0, <1>3, <2>1 DEF Start, TypeOK
    <3> QED
      BY <1>3, <3>1, <3>2, BeginLoopKeeps DEF Start
  <2>2. CASE ~Startable
    BY <1>0, <1>3, <2>2, ReleaseKeeps DEF Start, TypeOK, StoppingIsRequested
  <2> QED
    BY <2>1, <2>2
<1>4. CASE RunCycleOnce
  <2>1. CASE runState = "running"
    BY <1>0, <1>4, <2>1, ReleaseKeeps DEF RunCycleOnce, TypeOK, StoppingIsRequested
  <2>2. CASE runState # "running"
    <3>1. Moves("task", "cycling", "once", bot) /\ bot \in Bot \cup {NoBot}
      BY <1>0, <1>4, <2>2, SuspendMoves, Actors DEF RunCycleOnce, Await, PhaseName, TypeOK
    <3> QED
      BY <1>0, <1>4, <2>2, <3>1, HolderKeeps
         DEF RunCycleOnce, Await, PhaseName, TypeOK, StoppingIsRequested
  <2> QED
    BY <2>1, <2>2
<1>5. CASE CycleOnceEnds
  <2>1. failures' \in 0..Threshold
    BY <1>0, <1>5 DEF CycleOnceEnds, TypeOK
  <2>2. exposure' \in Exposure
    BY <1>0, <1>5 DEF CycleOnceEnds, TypeOK
  <2> QED
    BY <1>0, <1>5, <2>1, <2>2, ReleaseKeeps DEF CycleOnceEnds, TypeOK, StoppingIsRequested
<1>6. CASE CycleOnceHealsByStopping
  <2>1. lifecycle' \in State /\ (lifecycle' = "running" => lifecycle = "running")
    BY <1>0, <1>6 DEF CycleOnceHealsByStopping, TypeOK, State
  <2> QED
    BY <1>0, <1>6, <2>1, ReleaseKeeps DEF CycleOnceHealsByStopping, TypeOK
<1>7. CASE HealBySwitching("task")
  <2>1. PICK pc \in {"closing", "failed"} :
            Moves("task", pc, "heal", NoBot) /\ open' \subseteq Bot
    BY <1>0, <1>7, ReinitializeMoves, Actors DEF HealBySwitching, PhaseName
  <2> QED
    BY <1>0, <1>7, <2>1, HolderKeeps
       DEF HealBySwitching, Await, PhaseName, TypeOK, StoppingIsRequested, Mode
<1>8. CASE Joined
  <2>1. CASE lifecycle = "degraded"
    BY <1>0, <1>8, <2>1, ReleaseKeeps DEF Joined, TypeOK, StoppingIsRequested
  <2>2. CASE lifecycle # "degraded"
    <3>1. PICK b \in Bot \cup {NoBot} : Moves("task", "closing_bot", "joined", b)
      BY <1>0, <1>8, <2>2, CloseForStopMoves DEF Joined, PhaseName
    <3>2. open' \subseteq Bot
      BY <1>0, <1>8, <2>2, CloseForStopMoves DEF Joined, PhaseName
    <3> QED
      BY <1>0, <1>8, <2>2, <3>1, <3>2, HolderKeeps
         DEF Joined, Await, PhaseName, TypeOK, State
  <2> QED
    BY <2>1, <2>2
<1>9. CASE StopTimesOut
  <2>1. /\ at' \in [Actor -> Await] /\ phase' \in [Actor -> PhaseName]
        /\ uses' \in [Actor -> Bot \cup {NoBot}]
        /\ at'["task"] = "idle" /\ phase'["task"] = "none"
        /\ \A i \in Loop : at'[i] = at[i]
    BY <1>0, <1>9, Actors DEF StopTimesOut, LoopAlive, TypeOK, Await, PhaseName
  <2>2. TypeOK'
    BY <1>0, <1>9, <2>1 DEF StopTimesOut, TypeOK, Await, PhaseName
  <2>3. LockMatches' /\ StopIsOver' /\ RunningHasLoop' /\ StoppingIsRequested'
    BY <1>9, <2>1 DEF StopTimesOut, IInv, LockMatches, NoOp, StopIsOver,
       RunningHasLoop, Alive, StoppingIsRequested
  <2> QED
    BY <2>2, <2>3 DEF IInv
<1>10. CASE StopDone
  BY <1>0, <1>10, ReleaseKeeps DEF StopDone, Parked, TypeOK, State, StoppingIsRequested
<1>11. CASE SwitchEnv
  <2>1. PICK pc \in {"closing", "failed"} :
            Moves("task", pc, "mode", NoBot) /\ open' \subseteq Bot
    BY <1>0, <1>11, ReinitializeMoves, Actors DEF SwitchEnv, PhaseName
  <2>2. op.kind = "mode" /\ op.to \in Mode
    BY <1>0, <1>11 DEF SwitchEnv, LockMatches
  <2>3. lifecycle' \in {"stopped", lifecycle} /\ lifecycle # "stopping"
    BY <1>0, <1>11 DEF SwitchEnv, Parked, StopIsOver
  <2> QED
    BY <1>0, <1>11, <2>1, <2>2, <2>3, HolderKeeps
       DEF SwitchEnv, Await, PhaseName, TypeOK, State
<1>12. CASE RevertEnv
  <2>1. PICK pc \in {"closing", "failed"} :
            Moves("task", pc, "revert", NoBot) /\ open' \subseteq Bot
    BY <1>0, <1>12, ReinitializeMoves, Actors DEF RevertEnv, PhaseName
  <2>2. op.from \in Mode /\ lifecycle # "stopping"
    BY <1>0, <1>12 DEF RevertEnv, LockMatches, StopIsOver
  <2> QED
    BY <1>0, <1>12, <2>1, <2>2, HolderKeeps
       DEF RevertEnv, Await, PhaseName, TypeOK
<1>13. CASE ModeSwitched
  <2>1. op.running \in BOOLEAN /\ lifecycle # "stopping"
    BY <1>0, <1>13 DEF ModeSwitched, LockMatches, StopIsOver
  <2>2. stopRequested' \in BOOLEAN /\ invalid' \in BOOLEAN
    BY <1>13, <2>1 DEF ModeSwitched
  <2>3. CASE op.running /\ "running" \in Transitions[lifecycle]
    BY <1>0, <1>13, <2>2, <2>3, BeginLoopKeeps DEF ModeSwitched, TypeOK
  <2>4. CASE ~(op.running /\ "running" \in Transitions[lifecycle])
    BY <1>0, <1>13, <2>1, <2>2, <2>4, ReleaseKeeps DEF ModeSwitched, TypeOK
  <2> QED
    BY <2>3, <2>4
<1> QED
  BY <1>1, <1>2, <1>3, <1>4, <1>5, <1>6, <1>7, <1>8, <1>9, <1>10, <1>11, <1>12, <1>13
     DEF TaskStep

-----------------------------------------------------------------------------
(* A mutation takes the lock.                                              *)
LEMMA BeginKeeps ==
    ASSUME IInv, op.kind = "none",
           NEW pc \in Await \ {"idle", "closing_bot"},
           NEW ph \in PhaseName \ {"mode", "revert"}, NEW b \in Bot \cup {NoBot},
           Moves("task", pc, ph, b),
           op'.kind \in {"init", "start", "once", "stop", "stopTimed", "mode"},
           op'.kind = "mode" => op'.to \in Mode /\ op'.from \in Mode /\ op'.running \in BOOLEAN,
           lifecycle' \in State,
           lifecycle' = "running" => lifecycle = "running",
           lifecycle' = "stopping" => stopRequested',
           open' \subseteq Bot, stopRequested' \in BOOLEAN,
           UNCHANGED <<failures, needsReinit, bot, botMode, env, exposure, loopPromise,
                       invalid>>
    PROVE  IInv'
<1>1. TypeOK'
  BY DEF IInv, TypeOK, Moves, Await, PhaseName
<1>2. LockMatches'
  BY DEF LockMatches, Moves
<1> QED
  BY <1>1, <1>2, TaskMovesKeep DEF IInv

LEMMA StopBodyKeeps ==
    ASSUME IInv, op.kind = "none", StopBody,
           op'.kind \in {"stop", "stopTimed", "mode"},
           op'.kind = "mode" => op'.to \in Mode /\ op'.from \in Mode /\ op'.running \in BOOLEAN,
           UNCHANGED <<failures, needsReinit, bot, botMode, env, exposure, loopPromise,
                       invalid>>
    PROVE  IInv'
<1>0. TypeOK
  BY DEF IInv
<1>1. CASE runState = "stopped"
  <2>1. PICK b \in Bot \cup {NoBot} : Moves("task", "closing_bot", "parked", b)
    BY <1>0, <1>1, CloseForStopMoves DEF StopBody, PhaseName
  <2>2. open' \subseteq Bot
    BY <1>0, <1>1, CloseForStopMoves DEF StopBody, PhaseName
  <2>3. lifecycle' = lifecycle /\ lifecycle # "stopping" /\ stopRequested' = TRUE
    BY <1>1 DEF StopBody, runState
  <2>4. TypeOK'
    BY <1>0, <2>1, <2>2, <2>3 DEF TypeOK, Moves, Await, PhaseName
  <2>5. LockMatches'
    BY <2>1 DEF LockMatches, Moves
  <2> QED
    BY <2>1, <2>3, <2>4, <2>5, TaskMovesKeep DEF IInv, Await, PhaseName
<1>2. CASE runState # "stopped"
  <2>1. Moves("task", "joining", "none", NoBot)
    BY <1>0, <1>2, SuspendMoves, Actors DEF StopBody, Await, PhaseName
  <2> QED
    BY <1>0, <1>2, <2>1, BeginKeeps DEF StopBody, Await, PhaseName, TypeOK, State
<1> QED
  BY <1>1, <1>2

LEMMA RequestKeeps ==
    ASSUME IInv, Request
    PROVE  IInv'
<1>0. TypeOK /\ LockMatches /\ StoppingIsRequested /\ StopIsOver
  BY DEF IInv
<1>1. CASE BeginInit
  <2>1. PICK pc \in {"closing", "failed"} :
            Moves("task", pc, "init", NoBot) /\ open' \subseteq Bot
    BY <1>0, <1>1, ReinitializeMoves, Actors DEF BeginInit, PhaseName
  <2> QED
    BY <1>0, <1>1, <2>1, BeginKeeps
       DEF BeginInit, Lock, NoOp, Await, PhaseName, TypeOK, State
<1>2. CASE \E k \in {"start", "once"} : BeginEnsured(k)
  <2>1. PICK k \in {"start", "once"} : BeginEnsured(k)
    BY <1>2
  <2>2. PICK pc \in {"closing", "failed", "inspecting"} : Moves("task", pc, "ensure", NoBot)
    BY <1>0, <2>1, EnsureReadyMoves, Actors DEF BeginEnsured
  <2>3. open' \subseteq Bot
    BY <1>0, <2>1, EnsureReadyMoves, Actors DEF BeginEnsured
  <2> QED
    BY <1>0, <2>1, <2>2, <2>3, BeginKeeps
       DEF BeginEnsured, Lock, NoOp, Await, PhaseName, TypeOK, StoppingIsRequested
<1>3. CASE \E k \in {"stop", "stopTimed"} : BeginStop(k)
  BY <1>3, StopBodyKeeps DEF BeginStop, Lock, NoOp
<1>4. CASE \E m \in Mode : BeginSetMode(m)
  <2>1. PICK m \in Mode : BeginSetMode(m)
    BY <1>4
  <2>2. mode \in Mode
    BY <1>0, <2>1 DEF BeginSetMode, mode, TypeOK
  <2> QED
    BY <2>1, <2>2, StopBodyKeeps DEF BeginSetMode, Lock, NoOp
<1>5. CASE Read
  <2>1. PICK pc \in {"closing", "failed", "inspecting"} : Moves("reader", pc, "ensure", NoBot)
    BY <1>0, <1>5, EnsureReadyMoves, Actors DEF Read
  <2>2. TypeOK'
    BY <1>0, <1>5, <2>1, EnsureReadyMoves, Actors
       DEF Read, TypeOK, Moves, Await, PhaseName
  <2> QED
    BY <1>5, <2>1, <2>2, OnwardKeeps, Actors DEF Read, Await, IInv
<1>6. CASE EditEnv
  BY <1>6 DEF EditEnv, IInv, TypeOK, LockMatches, StopIsOver, RunningHasLoop, Alive,
     StoppingIsRequested
<1> QED
  BY <1>1, <1>2, <1>3, <1>4, <1>5, <1>6 DEF Request

LEMMA AsideKeeps ==
    ASSUME IInv, ReadEnds \/ CleanupDone
    PROVE  IInv'
<1>0. TypeOK
  BY DEF IInv
<1>1. PICK a \in {"reader", "cleanup"} : Moves(a, "idle", "none", NoBot)
  BY <1>0, FinishMoves, Actors DEF ReadEnds, CleanupDone
<1>2. TypeOK'
  BY <1>0, <1>1 DEF ReadEnds, CleanupDone, TypeOK, Moves, Await, PhaseName
<1>3. LockMatches' /\ StopIsOver' /\ RunningHasLoop' /\ StoppingIsRequested'
  BY <1>1, Actors DEF ReadEnds, CleanupDone, IInv, Moves, LockMatches, StopIsOver,
     RunningHasLoop, Alive, StoppingIsRequested
<1> QED
  BY <1>2, <1>3 DEF IInv

LEMMA InitIInv == Init => IInv
<1> SUFFICES ASSUME Init PROVE IInv
  OBVIOUS
<1>1. TypeOK
  <2>1. failures \in 0..Threshold
    BY ManagerAssumption DEF Init
  <2>2. botMode \in [Bot -> Mode]
    BY DEF Init, Mode
  <2>3. at \in [Actor -> Await] /\ phase \in [Actor -> PhaseName]
        /\ uses \in [Actor -> Bot \cup {NoBot}]
    BY DEF Init, Await, PhaseName
  <2> QED
    BY <2>1, <2>2, <2>3 DEF Init, TypeOK, State, Await, PhaseName
<1> QED
  BY <1>1, Actors DEF Init, IInv, LockMatches, NoOp, StopIsOver, RunningHasLoop,
     StoppingIsRequested

LEMMA NextIInv == IInv /\ [Next]_vars => IInv'
<1> SUFFICES ASSUME IInv, [Next]_vars PROVE IInv'
  OBVIOUS
<1>1. CASE Request
  BY <1>1, RequestKeeps
<1>2. CASE TaskStep
  BY <1>2, TaskStepKeeps
<1>3. CASE ReadEnds \/ CleanupDone
  BY <1>3, AsideKeeps
<1>4. CASE \E a \in Actor \ {"cleanup"} : ReinitStep(a)
  BY <1>4, ReinitStepKeeps
<1>5. CASE \E i \in Loop : LoopStep(i)
  BY <1>5, LoopStepKeeps
<1>6. CASE UNCHANGED vars
  BY <1>6 DEF vars, IInv, TypeOK, LockMatches, StopIsOver, RunningHasLoop, Alive,
     StoppingIsRequested
<1> QED
  BY <1>1, <1>2, <1>3, <1>4, <1>5, <1>6 DEF Next

LEMMA Invariant == Spec => []IInv
BY InitIInv, NextIInv, PTL DEF Spec

(* Every variable has its type, whatever happens to the manager.           *)
THEOREM TypeCorrect == Spec => []TypeOK
BY Invariant, PTL DEF IInv

(* Whatever cycles, instances and callers do, a manager that says running  *)
(* has a loop that is alive.                                               *)
THEOREM RunningIsTrue == Spec => []RunningHasLoop
BY Invariant, PTL DEF IInv

(* Whatever happens, a manager that says stopping has been asked to stop,  *)
(* so no loop of its starts another cycle.                                 *)
THEOREM StoppingIsTrue == Spec => []StoppingIsRequested
BY Invariant, PTL DEF IInv

-----------------------------------------------------------------------------
(* The calm manager.                                                       *)
Calm == Happens \cap {"fail", "reject", "read", "stopTimed"} = {}

Undisturbed ==
    /\ at["reader"] = "idle" /\ at["cleanup"] = "idle"
    /\ lifecycle # "degraded"
    /\ op.kind # "stopTimed"
    /\ \A a \in Actor : at[a] # "failed" /\ phase[a] # "revert"

Renewing == {"closing", "initializing"}
Active == Renewing \cup {"analysing", "cycling"}
Passive == {"idle", "inspecting", "ready", "joining"}
Usable == bot # NoBot /\ ~needsReinit
NoLoopAlive == \A i \in Loop : ~Alive(i)

(* The loop that is alive is the one stop would wait for.                  *)
OneLoop == \A i \in Loop : Alive(i) => i = loopPromise

(* While it is, the lifecycle shows it, its instance is in order, and the  *)
(* holder of the lock cycles, renews and closes nothing.                   *)
LoopIsFree ==
    \A i \in Loop : Alive(i) =>
        /\ lifecycle = "running" \/ (lifecycle = "stopping" /\ at["task"] = "joining")
        /\ Usable
        /\ at["task"] \in Passive
        /\ at[i] \in Active \cup {"delay"}
        /\ at[i] \in Renewing \cup {"analysing"} => phase[i] = "heal"

(* A task past ensureBotReady has an instance.                             *)
TaskHasBot == at["task"] \in {"inspecting", "ready", "analysing"} => Usable

(* What is open is this.bot, or the instance that will be; a stop that has *)
(* closed it will mark it for renewal.                                     *)
Shut == at["task"] = "closing_bot" /\ uses["task"] # NoBot

OpenIsBot ==
    /\ \A a \in Actor : at[a] = "closing" => open = {}
    /\ \A a \in Actor : at[a] = "initializing" => open = {uses[a]}
    /\ \A a \in Actor : at[a] = "cycling" => uses[a] = bot /\ open = {bot}
    /\ (\A a \in Actor : at[a] \notin Renewing) =>
         open = IF Usable /\ ~Shut THEN {bot} ELSE {}

(* A self-heal switch in progress began without open positions.            *)
HealsFlat ==
    \A a \in Actor : at[a] \in Renewing /\ phase[a] = "heal" => exposure # "positions"

CInv ==
    /\ Undisturbed
    /\ OneLoop
    /\ LoopIsFree
    /\ TaskHasBot
    /\ OpenIsBot
    /\ HealsFlat

Alone(a) == \A x \in Actor \ {a} : at[x] \notin Active

LEMMA ActorKinds == \A a \in Actor : a \in {"task", "reader", "cleanup"} \/ a \in Loop
BY DEF Actor

LEMMA TaskAlone ==
    ASSUME CInv, NoLoopAlive
    PROVE  Alone("task")
BY ActorKinds DEF CInv, Undisturbed, NoLoopAlive, Alive, Alone, Active, Renewing

LEMMA LoopAlone ==
    ASSUME CInv, NEW i \in Loop, Alive(i)
    PROVE  Alone(i) /\ \A j \in Loop \ {i} : ~Alive(j)
BY ActorKinds DEF CInv, Undisturbed, OneLoop, LoopIsFree, Alive, Alone, Active,
   Renewing, Passive

(* The only active actor moves: what is open depends on it alone.          *)
OpenFits(pc, ph, b) ==
    /\ pc = "closing" => open' = {}
    /\ pc = "initializing" => open' = {b}
    /\ pc = "cycling" => b = bot' /\ open' = {bot'}
    /\ pc \notin Renewing =>
         open' = IF Usable' /\ ~Shut' THEN {bot'} ELSE {}
    /\ pc \in Renewing /\ ph = "heal" => exposure' # "positions"

LEMMA AloneKeeps ==
    ASSUME NEW a \in Actor, NEW pc, NEW ph, NEW b, Alone(a), Moves(a, pc, ph, b),
           OpenFits(pc, ph, b)
    PROVE  OpenIsBot' /\ HealsFlat'
<1>1. \A x \in Actor : at'[x] \in Active => x = a
  BY DEF Alone, Moves
<1> QED
  BY <1>1 DEF Moves, OpenFits, OpenIsBot, HealsFlat, Active, Renewing

(* No loop is alive and the task moves.                                    *)
LEMMA TaskAloneKeeps ==
    ASSUME CInv, NoLoopAlive, NEW pc \in Await \ {"failed"}, NEW ph \in PhaseName \ {"revert"},
           NEW b \in Bot \cup {NoBot}, Moves("task", pc, ph, b), OpenFits(pc, ph, b),
           pc \in {"inspecting", "ready", "analysing"} => Usable',
           lifecycle' # "degraded", op'.kind # "stopTimed"
    PROVE  CInv'
<1>1. OpenIsBot' /\ HealsFlat'
  BY TaskAlone, AloneKeeps, Actors
<1>2. NoLoopAlive'
  BY Actors DEF NoLoopAlive, Alive, Moves
<1>3. OneLoop' /\ LoopIsFree'
  BY <1>2 DEF NoLoopAlive, OneLoop, LoopIsFree
<1>4. Undisturbed'
  BY Actors DEF CInv, Undisturbed, Moves
<1>5. TaskHasBot'
  BY DEF TaskHasBot, Moves
<1> QED
  BY <1>1, <1>3, <1>4, <1>5 DEF CInv

(* A loop goes on.                                                         *)
LEMMA LoopGoesOnKeeps ==
    ASSUME CInv, NEW i \in Loop, Alive(i), NEW pc \in Active \cup {"delay"},
           NEW ph \in PhaseName \ {"revert"}, NEW b \in Bot \cup {NoBot},
           Moves(i, pc, ph, b), OpenFits(pc, ph, b),
           pc \in Renewing \cup {"analysing"} => ph = "heal",
           Usable', UNCHANGED <<lifecycle, loopPromise, op>>
    PROVE  CInv'
<1>1. OpenIsBot' /\ HealsFlat'
  BY LoopAlone, AloneKeeps, Actors
<1>2. at'["task"] = at["task"] /\ uses'["task"] = uses["task"]
      /\ \A j \in Loop \ {i} : ~Alive(j)'
  BY Actors, LoopAlone DEF Moves, Alive
<1>3. OneLoop' /\ LoopIsFree'
  BY <1>2 DEF CInv, OneLoop, LoopIsFree, Moves, Alive
<1>4. Undisturbed'
  BY Actors DEF CInv, Undisturbed, Moves, Active, Renewing
<1>5. TaskHasBot'
  BY <1>2 DEF CInv, TaskHasBot, LoopIsFree, Passive
<1> QED
  BY <1>1, <1>3, <1>4, <1>5 DEF CInv

(* A loop that is not renewing ends.                                       *)
LEMMA LoopEndsCalm ==
    ASSUME TypeOK, CInv, NEW i \in Loop, Alive(i), at[i] \notin Renewing, LoopEnds(i),
           lifecycle' # "degraded", UNCHANGED <<bot, needsReinit, loopPromise, op>>
    PROVE  CInv'
<1>1. /\ at'[i] = "idle" /\ open' = open
      /\ \A x \in Actor \ {i} : at'[x] = at[x] /\ phase'[x] = phase[x] /\ uses'[x] = uses[x]
  BY LoopEndsMoves DEF CInv, Undisturbed
<1>2. phase'[i] = "none"
  BY Actors DEF LoopEnds, TypeOK
<1>3. \A x \in Actor : at'[x] \notin Active
  BY <1>1, LoopAlone DEF Alone, Active, Renewing
<1>4. \A x \in Actor : at[x] \notin Renewing
  BY LoopAlone DEF Alone, Active
<1>5. at'["task"] = at["task"] /\ uses'["task"] = uses["task"] /\ NoLoopAlive'
  BY <1>1, Actors, LoopAlone DEF NoLoopAlive, Alive
<1>6. OpenIsBot' /\ HealsFlat'
  BY <1>1, <1>3, <1>4, <1>5 DEF CInv, OpenIsBot, HealsFlat, Shut, Usable, Active, Renewing
<1>7. Undisturbed'
  BY <1>1, <1>2, Actors DEF CInv, Undisturbed
<1>8. OneLoop' /\ LoopIsFree' /\ TaskHasBot'
  BY <1>5 DEF CInv, NoLoopAlive, OneLoop, LoopIsFree, TaskHasBot, Usable
<1> QED
  BY <1>6, <1>7, <1>8 DEF CInv

(* The task moves between awaits that concern no instance, beside a loop   *)
(* perhaps.                                                                *)
LEMMA PassiveKeeps ==
    ASSUME CInv, NEW pc \in Passive, NEW ph \in PhaseName \ {"revert"},
           NEW b \in Bot \cup {NoBot}, at["task"] \in Passive, Moves("task", pc, ph, b),
           pc \in {"inspecting", "ready"} => Usable,
           NoLoopAlive \/ lifecycle' = "running"
              \/ (lifecycle' = "stopping" /\ pc = "joining"),
           lifecycle' # "degraded", op'.kind # "stopTimed",
           UNCHANGED <<bot, open, needsReinit, exposure, loopPromise>>
    PROVE  CInv'
<1>1. \A x \in Actor \ {"task"} : at'[x] = at[x] /\ phase'[x] = phase[x] /\ uses'[x] = uses[x]
  BY DEF Moves
<1>2. at'["task"] = pc /\ pc \notin Active /\ pc # "closing_bot" /\ pc # "failed"
      /\ phase'["task"] = ph
      /\ at["task"] \notin Active /\ at["task"] # "closing_bot"
  BY DEF Moves, Passive, Active, Renewing
<1>3. OpenIsBot'
  <2>1. \A x \in Actor : at'[x] \in Active =>
            at'[x] = at[x] /\ uses'[x] = uses[x]
    BY <1>1, <1>2
  <2>2. (\A x \in Actor : at'[x] \notin Renewing) => \A x \in Actor : at[x] \notin Renewing
    BY <1>1, <1>2 DEF Active
  <2> QED
    BY <1>2, <2>1, <2>2 DEF CInv, OpenIsBot, Shut, Usable, Active, Renewing
<1>4. HealsFlat'
  BY <1>1, <1>2 DEF CInv, HealsFlat, Active
<1>5. OneLoop' /\ LoopIsFree'
  BY <1>1, <1>2, Actors DEF CInv, OneLoop, LoopIsFree, NoLoopAlive, Alive, Usable
<1>6. Undisturbed' /\ TaskHasBot'
  BY <1>1, <1>2, Actors DEF CInv, Undisturbed, TaskHasBot, Usable, Active, Passive, Renewing
<1> QED
  BY <1>3, <1>4, <1>5, <1>6 DEF CInv

(* The task begins a loop.                                                 *)
LEMMA BeginLoopCalm ==
    ASSUME TypeOK, CInv, NoLoopAlive, at["task"] \in {"ready", "analysing"},
           NEW i \in Loop, BeginLoop(i), lifecycle' = "running",
           UNCHANGED <<bot, open, needsReinit>>
    PROVE  CInv'
<1>1. /\ at'["task"] = "idle" /\ phase'["task"] = "none" /\ uses'["task"] = NoBot
      /\ at'[i] = "cycling" /\ phase'[i] = phase[i] /\ uses'[i] = bot
      /\ \A x \in Actor \ {"task", i} : at'[x] = at[x] /\ phase'[x] = phase[x]
      /\ loopPromise' = i /\ op'.kind = "none"
  BY BeginLoopMoves DEF BeginLoop, NoOp
<1>2. Usable /\ open = {bot}
  BY TaskAlone DEF CInv, TaskHasBot, OpenIsBot, Alone, Active, Shut, Renewing
<1>3. \A x \in Actor \ {i} : at'[x] \notin Active
  BY <1>1, TaskAlone DEF Alone, Active, Renewing
<1>4. OpenIsBot' /\ HealsFlat'
  BY <1>1, <1>2, <1>3 DEF OpenIsBot, HealsFlat, Shut, Usable, Active, Renewing
<1>5. \A j \in Loop \ {i} : ~Alive(j)'
  BY <1>1, Actors DEF NoLoopAlive, Alive
<1>6. OneLoop' /\ LoopIsFree'
  BY <1>1, <1>2, <1>5 DEF OneLoop, LoopIsFree, Usable, Passive, Active, Renewing, Alive
<1>7. Undisturbed' /\ TaskHasBot'
  BY <1>1, Actors DEF CInv, Undisturbed, TaskHasBot
<1> QED
  BY <1>4, <1>6, <1>7 DEF CInv

(* Who renews is the task with no loop alive, or the loop that heals.      *)
LEMMA RenewalBy ==
    ASSUME CInv, NEW a \in Actor \ {"cleanup"}, at[a] \in Renewing \cup {"analysing"}
    PROVE  \/ a = "task" /\ NoLoopAlive
           \/ a \in Loop /\ Alive(a) /\ phase[a] = "heal" /\ Usable
BY ActorKinds DEF CInv, Undisturbed, LoopIsFree, NoLoopAlive, Alive, Renewing, Passive

LEMMA ReinitStepCalm ==
    ASSUME Calm, TypeOK, CInv, NEW a \in Actor \ {"cleanup"}, ReinitStep(a)
    PROVE  CInv'
<1>0. phase[a] \in PhaseName \ {"revert"} /\ "sync" \in PhaseName /\ "none" \in PhaseName
      /\ bot \in Bot \cup {NoBot} /\ open \subseteq Bot
      /\ lifecycle # "degraded" /\ op.kind # "stopTimed"
  BY DEF TypeOK, PhaseName, CInv, Undisturbed
<1>1. CASE SyncStoppedMode(a)
  <2>1. a = "task"
    BY <1>1, ActorKinds DEF SyncStoppedMode, CInv, Undisturbed, LoopIsFree, Alive, Active,
       Renewing
  <2>2. Usable /\ at["task"] = "inspecting"
    BY <1>1, <2>1 DEF SyncStoppedMode, CInv, TaskHasBot
  <2>3. CASE runState = "running" \/ ~Drift
    <3>1. Moves("task", "ready", "none", NoBot) /\ open' = open
      BY <1>1, <2>1, <2>3, SuspendMoves, Actors DEF SyncStoppedMode, Await, PhaseName
    <3>2. NoLoopAlive \/ lifecycle = "running"
      BY <2>2 DEF CInv, LoopIsFree, NoLoopAlive
    <3> QED
      BY <1>0, <1>1, <2>2, <3>1, <3>2, PassiveKeeps
         DEF SyncStoppedMode, Passive, PhaseName
  <2>4. CASE ~(runState = "running" \/ ~Drift)
    <3>1. NoLoopAlive
      BY <2>2, <2>4 DEF CInv, LoopIsFree, NoLoopAlive, runState
    <3>2. Moves("task", "closing", "sync", NoBot) /\ open' = open \ {bot}
      BY <1>0, <1>1, <2>1, <2>4, ReinitializeMoves, Actors DEF SyncStoppedMode, Calm
    <3>3. open' = {}
      BY <2>2, <3>1, <3>2, TaskAlone DEF CInv, OpenIsBot, Alone, Active, Renewing
    <3> QED
      BY <1>0, <1>1, <3>1, <3>2, <3>3, TaskAloneKeeps
         DEF SyncStoppedMode, OpenFits, Renewing, Await
  <2> QED
    BY <2>3, <2>4
<1>2. CASE LoadConfig(a)
  <2>1. PICK b \in Bot : open' = open \cup {b} /\ Moves(a, "initializing", phase[a], b)
    BY <1>0, <1>2, SuspendMoves DEF LoadConfig, Await
  <2>2. open' = {b} /\ (phase[a] = "heal" => exposure # "positions")
    BY <1>2, <2>1 DEF LoadConfig, CInv, OpenIsBot, HealsFlat, Renewing
  <2>3. OpenFits("initializing", phase[a], b)
    BY <1>2, <2>2 DEF LoadConfig, OpenFits, Renewing
  <2>4. CASE a = "task" /\ NoLoopAlive
    BY <1>0, <1>2, <2>1, <2>3, <2>4, TaskAloneKeeps DEF LoadConfig, Await
  <2>5. CASE a \in Loop /\ Alive(a) /\ phase[a] = "heal" /\ Usable
    BY <1>0, <1>2, <2>1, <2>3, <2>5, LoopGoesOnKeeps DEF LoadConfig, Active, Renewing, Usable
  <2> QED
    BY <1>2, <2>4, <2>5, RenewalBy DEF LoadConfig, Renewing
<1>3. CASE AdoptBot(a)
  <2>1. at[a] = "initializing" /\ open = {uses[a]} /\ bot' = uses[a] /\ needsReinit' = FALSE
        /\ open' = open
    BY <1>3 DEF AdoptBot, CInv, OpenIsBot
  <2>2. Usable'
    BY <1>0, <2>1, ManagerAssumption DEF Usable
  <2>3. PICK pc \in {"inspecting", "analysing"} :
            /\ Moves(a, pc, phase[a], NoBot)
            /\ pc = "inspecting" => phase[a] = "ensure"
    BY <1>0, <1>3, SuspendMoves DEF AdoptBot, Await
  <2>4. CASE a = "task" /\ NoLoopAlive
    <3>1. at'["task"] = pc
      BY <2>3, <2>4 DEF Moves
    <3>2. OpenFits(pc, phase[a], NoBot)
      BY <2>1, <2>2, <2>3, <3>1 DEF OpenFits, Shut, Renewing
    <3> QED
      BY <1>0, <1>3, <2>2, <2>3, <2>4, <3>2, TaskAloneKeeps DEF AdoptBot, Await
  <2>5. CASE a \in Loop /\ Alive(a) /\ phase[a] = "heal" /\ Usable
    <3>1. pc = "analysing" /\ at'["task"] = at["task"] /\ at["task"] # "closing_bot"
      BY <2>3, <2>5, Actors DEF Moves, CInv, LoopIsFree, Passive
    <3>2. OpenFits(pc, phase[a], NoBot)
      BY <2>1, <2>2, <3>1 DEF OpenFits, Shut, Renewing
    <3> QED
      BY <1>0, <1>3, <2>2, <2>3, <2>5, <3>1, <3>2, LoopGoesOnKeeps
         DEF AdoptBot, Active, Renewing
  <2> QED
    BY <2>1, <2>4, <2>5, RenewalBy DEF Renewing
<1>4. CASE ReinitializeFails(a)
  BY <1>4 DEF ReinitializeFails, Calm
<1>5. CASE SyncedAnalysis(a)
  <2>1. a = "task" /\ NoLoopAlive
    BY <1>5, RenewalBy DEF SyncedAnalysis
  <2>2. Moves("task", "ready", "none", NoBot) /\ Usable
    BY <1>0, <1>5, <2>1, SuspendMoves, Actors
       DEF SyncedAnalysis, Await, CInv, TaskHasBot
  <2>3. open = {bot} /\ at'["task"] = "ready"
    BY <1>5, <2>1, <2>2, TaskAlone
       DEF SyncedAnalysis, CInv, OpenIsBot, Alone, Active, Shut, Renewing, Moves
  <2>4. OpenFits("ready", "none", NoBot)
    BY <1>5, <2>2, <2>3 DEF SyncedAnalysis, OpenFits, Renewing, Shut, Usable
  <2> QED
    BY <1>0, <1>5, <2>1, <2>2, <2>4, TaskAloneKeeps DEF SyncedAnalysis, Await, Usable
<1> QED
  BY <1>1, <1>2, <1>3, <1>4, <1>5 DEF ReinitStep

(* What is open when a loop that is alive renews nothing.                  *)
LEMMA LoopHasBot ==
    ASSUME CInv, NEW i \in Loop, Alive(i), at[i] \notin Renewing
    PROVE  open = {bot} /\ Usable /\ at["task"] # "closing_bot"
<1>1. \A x \in Actor : at[x] \notin Renewing
  BY LoopAlone DEF Alone, Active
<1>2. Usable /\ at["task"] # "closing_bot"
  BY DEF CInv, LoopIsFree, Passive
<1> QED
  BY <1>1, <1>2 DEF CInv, OpenIsBot, Shut

LEMMA LoopStepCalm ==
    ASSUME Calm, TypeOK, CInv, NEW i \in Loop, LoopStep(i)
    PROVE  CInv'
<1>0. i \in Actor /\ i # "task" /\ lifecycle # "degraded" /\ "none" \in PhaseName \ {"revert"}
      /\ bot \in Bot \cup {NoBot} /\ "heal" \in PhaseName \ {"revert"}
  BY Actors DEF CInv, Undisturbed, PhaseName, TypeOK
<1>1. CASE CycleSucceeds(i)
  <2>1. Alive(i) /\ at[i] \notin Renewing /\ Recovered = lifecycle /\ lifecycle \in State
    BY <1>0, <1>1 DEF CycleSucceeds, Alive, Renewing, Recovered, TypeOK
  <2>2. open = {bot} /\ Usable /\ at["task"] # "closing_bot"
    BY <2>1, LoopHasBot
  <2>3. CASE stopRequested'
    BY <1>1, <2>1, <2>3, LoopEndsCalm DEF CycleSucceeds, EndIteration
  <2>4. CASE ~stopRequested'
    <3>1. lifecycle' = lifecycle /\ open' = open /\ Moves(i, "delay", "none", NoBot)
      BY <1>1, <2>1, <2>4, EndIterationMoves DEF CycleSucceeds
    <3>2. at'["task"] = at["task"]
      BY <1>0, <3>1, Actors DEF Moves
    <3>3. Usable' /\ OpenFits("delay", "none", NoBot)
      BY <1>1, <2>2, <3>1, <3>2 DEF CycleSucceeds, OpenFits, Renewing, Shut, Usable
    <3> QED
      BY <1>0, <1>1, <2>1, <3>1, <3>3, LoopGoesOnKeeps
         DEF CycleSucceeds, Active, Renewing
  <2> QED
    BY <2>3, <2>4
<1>2. CASE CycleFails(i)
  BY <1>0, <1>2 DEF CycleFails, Calm, CInv, Undisturbed
<1>3. CASE NextCycle(i)
  <2>1. Alive(i) /\ at[i] \notin Renewing
    BY <1>3 DEF NextCycle, Alive, Renewing
  <2>2. open = {bot} /\ Usable /\ at["task"] # "closing_bot"
    BY <2>1, LoopHasBot
  <2>3. CASE stopRequested
    BY <1>3, <2>1, <2>3, LoopEndsCalm DEF NextCycle
  <2>4. CASE ~stopRequested
    <3>1. Moves(i, "cycling", "none", bot) /\ UNCHANGED <<open, lifecycle>>
      BY <1>0, <1>3, <2>4, SuspendMoves DEF NextCycle, Await
    <3>2. at'["task"] = at["task"]
      BY <1>0, <3>1, Actors DEF Moves
    <3>3. Usable' /\ OpenFits("cycling", "none", bot)
      BY <1>3, <2>2, <3>1, <3>2 DEF NextCycle, OpenFits, Renewing, Shut, Usable
    <3> QED
      BY <1>0, <1>3, <2>1, <3>1, <3>3, LoopGoesOnKeeps DEF NextCycle, Active, Renewing
  <2> QED
    BY <2>3, <2>4
<1>4. CASE HealByStopping(i)
  BY <1>4, LoopEndsCalm DEF HealByStopping, Alive, Renewing
<1>5. CASE HealBySwitching(i)
  <2>1. Alive(i) /\ at[i] \notin Renewing
    BY <1>5 DEF HealBySwitching, Alive, Renewing
  <2>2. open = {bot} /\ Usable
    BY <2>1, LoopHasBot
  <2>3. Moves(i, "closing", "heal", NoBot) /\ open' = {}
    BY <1>0, <1>5, <2>2, ReinitializeMoves DEF HealBySwitching, Calm
  <2>4. Usable' /\ OpenFits("closing", "heal", NoBot)
    BY <1>5, <2>2, <2>3 DEF HealBySwitching, OpenFits, Renewing, Usable
  <2> QED
    BY <1>0, <1>5, <2>1, <2>3, <2>4, LoopGoesOnKeeps DEF HealBySwitching, Active, Renewing
<1> QED
  BY <1>1, <1>2, <1>3, <1>4, <1>5 DEF LoopStep

(* What is open when no loop is alive and the task renews nothing.         *)
LEMMA TaskHasOpen ==
    ASSUME CInv, NoLoopAlive, at["task"] \notin Renewing
    PROVE  open = IF Usable /\ ~Shut THEN {bot} ELSE {}
<1>1. \A x \in Actor : at[x] \notin Renewing
  BY TaskAlone DEF Alone, Active
<1> QED
  BY <1>1 DEF CInv, OpenIsBot

(* The lock is given back, with nothing renewed or closed meanwhile.       *)
LEMMA ReleaseCalm ==
    ASSUME TypeOK, CInv, NoLoopAlive, at["task"] \notin Renewing \cup {"closing_bot"},
           Release, lifecycle' # "degraded", UNCHANGED <<bot, open, needsReinit>>
    PROVE  CInv'
<1>1. Moves("task", "idle", "none", NoBot) /\ op' = NoOp
  BY ReleaseMoves
<1>2. OpenFits("idle", "none", NoBot)
  BY <1>1, TaskHasOpen DEF OpenFits, Moves, Shut, Usable, Renewing
<1> QED
  BY <1>1, <1>2, TaskAloneKeeps DEF Await, PhaseName, NoOp

(* A task that is not in a passive await has no loop beside it.            *)
LEMMA BusyTask ==
    ASSUME CInv, at["task"] \notin Passive
    PROVE  NoLoopAlive
BY DEF CInv, LoopIsFree, NoLoopAlive

LEMMA IdleLifecycle ==
    ASSUME CInv, lifecycle \notin {"running", "stopping"}
    PROVE  NoLoopAlive
BY DEF CInv, LoopIsFree, NoLoopAlive

LEMMA CloseForStopCalm ==
    ASSUME TypeOK, CInv, NoLoopAlive, at["task"] \notin Renewing \cup {"closing_bot"},
           NEW ph \in PhaseName \ {"revert"}, CloseForStop("task", ph),
           lifecycle' # "degraded", op'.kind # "stopTimed", UNCHANGED <<bot, needsReinit>>
    PROVE  CInv'
<1>1. open = IF Usable THEN {bot} ELSE {}
  BY TaskHasOpen DEF Shut
<1>2. PICK b \in Bot \cup {NoBot} :
        /\ Moves("task", "closing_bot", ph, b)
        /\ open' = IF Usable /\ b = NoBot THEN {bot} ELSE {}
  <2>1. PICK closes \in Closes(Usable) :
          IF closes
            THEN Suspend("task", "closing_bot", ph, bot) /\ open' = open \ {bot}
            ELSE Suspend("task", "closing_bot", ph, NoBot) /\ UNCHANGED open
    BY DEF CloseForStop, Usable
  <2>2. CASE closes
    BY <1>1, <2>1, <2>2, SuspendMoves, Actors DEF Closes, Usable, Await, TypeOK
  <2>3. CASE ~closes
    BY <1>1, <2>1, <2>3, SuspendMoves, Actors DEF Await, TypeOK
  <2> QED
    BY <2>2, <2>3
<1>3. OpenFits("closing_bot", ph, b)
  BY <1>2 DEF OpenFits, Moves, Shut, Usable, Renewing
<1> QED
  BY <1>2, <1>3, TaskAloneKeeps DEF Await, Usable

LEMMA ReinitializeCalm ==
    ASSUME Calm, TypeOK, CInv, NoLoopAlive, at["task"] \notin Renewing,
           NEW ph \in PhaseName \ {"revert"}, Reinitialize("task", ph),
           ph = "heal" => exposure' # "positions",
           lifecycle' # "degraded", op'.kind # "stopTimed"
    PROVE  CInv'
<1>1. Moves("task", "closing", ph, NoBot) /\ open' = {}
  BY TaskHasOpen, ReinitializeMoves, Actors DEF Calm
<1>2. OpenFits("closing", ph, NoBot)
  BY <1>1 DEF OpenFits, Renewing
<1> QED
  BY <1>1, <1>2, TaskAloneKeeps DEF Await

LEMMA TaskStepCalm ==
    ASSUME Calm, IInv, CInv, TaskStep
    PROVE  CInv'
<1>0. TypeOK /\ LockMatches /\ lifecycle # "degraded" /\ op.kind # "stopTimed"
      /\ bot \in Bot \cup {NoBot}
  BY DEF IInv, CInv, Undisturbed, TypeOK
<1>1. CASE InitDone
  BY <1>0, <1>1, BusyTask, ReleaseCalm DEF InitDone, Passive, Renewing
<1>2. CASE TaskThrows
  BY <1>2, Actors DEF TaskThrows, CInv, Undisturbed
<1>3. CASE Start
  <2>1. CASE Startable
    <3>1. NoLoopAlive
      BY <2>1, IdleLifecycle DEF Startable
    <3>2. PICK i \in Loop : BeginLoop(i)
      BY <1>3, <2>1 DEF Start
    <3> QED
      BY <1>0, <1>3, <2>1, <3>1, <3>2, BeginLoopCalm DEF Start
  <2>2. CASE ~Startable
    <3>1. Moves("task", "idle", "none", NoBot) /\ op' = NoOp
      BY <1>0, <1>3, <2>2, ReleaseMoves DEF Start
    <3>2. NoLoopAlive \/ lifecycle = "running"
      BY <1>3 DEF Start, CInv, LoopIsFree, NoLoopAlive
    <3> QED
      BY <1>0, <1>3, <2>2, <3>1, <3>2, PassiveKeeps
         DEF Start, Passive, PhaseName, NoOp
  <2> QED
    BY <2>1, <2>2
<1>4. CASE RunCycleOnce
  <2>1. CASE runState = "running"
    <3>1. Moves("task", "idle", "none", NoBot) /\ op' = NoOp
      BY <1>0, <1>4, <2>1, ReleaseMoves DEF RunCycleOnce
    <3>2. lifecycle = "running"
      BY <2>1 DEF runState
    <3> QED
      BY <1>0, <1>4, <3>1, <3>2, PassiveKeeps DEF RunCycleOnce, Passive, PhaseName, NoOp
  <2>2. CASE runState # "running"
    <3>1. NoLoopAlive /\ Usable
      BY <1>4, <2>2 DEF RunCycleOnce, CInv, LoopIsFree, TaskHasBot, NoLoopAlive, runState
    <3>2. Moves("task", "cycling", "once", bot)
      BY <1>0, <1>4, <2>2, SuspendMoves, Actors DEF RunCycleOnce, Await, PhaseName
    <3>3. OpenFits("cycling", "once", bot)
      BY <1>4, <3>1, <3>2, TaskHasOpen
         DEF RunCycleOnce, OpenFits, Moves, Shut, Usable, Renewing
    <3> QED
      BY <1>0, <1>4, <2>2, <3>1, <3>2, <3>3, TaskAloneKeeps
         DEF RunCycleOnce, Await, PhaseName
  <2> QED
    BY <2>1, <2>2
<1>5. CASE CycleOnceEnds
  BY <1>0, <1>5, BusyTask, ReleaseCalm DEF CycleOnceEnds, Passive, Renewing
<1>6. CASE CycleOnceHealsByStopping
  BY <1>0, <1>6, BusyTask, ReleaseCalm DEF CycleOnceHealsByStopping, Passive, Renewing
<1>7. CASE HealBySwitching("task")
  BY <1>0, <1>7, BusyTask, ReinitializeCalm
     DEF HealBySwitching, Passive, Renewing, PhaseName
<1>8. CASE Joined
  <2>1. NoLoopAlive
    BY <1>8, ManagerAssumption DEF Joined, LoopAlive, CInv, OneLoop, NoLoopAlive
  <2> QED
    BY <1>0, <1>8, <2>1, CloseForStopCalm DEF Joined, PhaseName, Renewing
<1>9. CASE StopTimesOut
  BY <1>0, <1>9 DEF StopTimesOut
<1>10. CASE StopDone
  <2>1. NoLoopAlive
    BY <1>10, BusyTask DEF StopDone, Passive
  <2>2. Moves("task", "idle", "none", NoBot) /\ op' = NoOp
    BY <1>0, <1>10, ReleaseMoves DEF StopDone
  <2>3. open' = IF Usable' THEN {bot'} ELSE {}
    BY <1>10, <2>1, TaskHasOpen DEF StopDone, Usable, Shut, Renewing
  <2>4. OpenFits("idle", "none", NoBot)
    BY <2>2, <2>3 DEF OpenFits, Moves, Shut, Renewing
  <2> QED
    BY <1>0, <1>10, <2>1, <2>2, <2>4, TaskAloneKeeps
       DEF StopDone, Parked, Await, PhaseName, NoOp
<1>11. CASE SwitchEnv
  <2>1. NoLoopAlive
    BY <1>11, BusyTask DEF SwitchEnv, Passive
  <2> QED
    BY <1>0, <1>11, <2>1, ReinitializeCalm DEF SwitchEnv, Parked, Renewing, PhaseName
<1>12. CASE RevertEnv
  BY <1>12, Actors DEF RevertEnv, CInv, Undisturbed
<1>13. CASE ModeSwitched
  <2>1. NoLoopAlive
    BY <1>13, BusyTask DEF ModeSwitched, Passive
  <2>2. CASE op.running /\ "running" \in Transitions[lifecycle]
    <3>1. PICK i \in Loop : BeginLoop(i)
      BY <1>13, <2>2 DEF ModeSwitched
    <3> QED
      BY <1>0, <1>13, <2>1, <2>2, <3>1, BeginLoopCalm DEF ModeSwitched
  <2>3. CASE ~(op.running /\ "running" \in Transitions[lifecycle])
    BY <1>0, <1>13, <2>1, <2>3, ReleaseCalm DEF ModeSwitched, Renewing
  <2> QED
    BY <2>2, <2>3
<1> QED
  BY <1>1, <1>2, <1>3, <1>4, <1>5, <1>6, <1>7, <1>8, <1>9, <1>10, <1>11, <1>12, <1>13
     DEF TaskStep

LEMMA StopBodyCalm ==
    ASSUME TypeOK, CInv, StopBody, at["task"] = "idle", op'.kind # "stopTimed",
           UNCHANGED <<bot, needsReinit, exposure, loopPromise>>
    PROVE  CInv'
<1>0. lifecycle # "degraded"
  BY DEF CInv, Undisturbed
<1>1. CASE runState = "stopped"
  <2>1. NoLoopAlive
    BY <1>1, IdleLifecycle DEF runState
  <2> QED
    BY <1>0, <1>1, <2>1, CloseForStopCalm DEF StopBody, PhaseName, Renewing
<1>2. CASE runState # "stopped"
  <2>1. Moves("task", "joining", "none", NoBot)
    BY <1>2, SuspendMoves, Actors DEF StopBody, Await, PhaseName
  <2> QED
    BY <1>2, <2>1, PassiveKeeps DEF StopBody, Passive, PhaseName
<1> QED
  BY <1>1, <1>2

LEMMA RequestCalm ==
    ASSUME Calm, IInv, CInv, Request
    PROVE  CInv'
<1>0. TypeOK /\ lifecycle # "degraded"
  BY DEF IInv, CInv, Undisturbed
<1>1. ASSUME op = NoOp PROVE at["task"] = "idle"
  BY <1>1 DEF IInv, LockMatches, NoOp
<1>2. CASE BeginInit
  BY <1>0, <1>1, <1>2, IdleLifecycle, ReinitializeCalm
     DEF BeginInit, Lock, Renewing, PhaseName
<1>3. CASE \E k \in {"start", "once"} : BeginEnsured(k)
  <2>1. PICK k \in {"start", "once"} : BeginEnsured(k)
    BY <1>3
  <2>2. at["task"] = "idle" /\ op'.kind # "stopTimed"
    BY <1>1, <2>1 DEF BeginEnsured, Lock
  <2>3. CASE bot = NoBot \/ needsReinit
    <3>1. NoLoopAlive
      BY <2>3 DEF CInv, LoopIsFree, NoLoopAlive, Usable
    <3> QED
      BY <1>0, <2>1, <2>2, <2>3, <3>1, ReinitializeCalm
         DEF BeginEnsured, EnsureReady, Renewing, PhaseName
  <2>4. CASE ~(bot = NoBot \/ needsReinit)
    <3>1. Moves("task", "inspecting", "ensure", NoBot) /\ open' = open
      BY <1>0, <2>1, <2>4, SuspendMoves, Actors
         DEF BeginEnsured, EnsureReady, Await, PhaseName
    <3>2. NoLoopAlive \/ lifecycle = "running"
      BY <2>2 DEF CInv, LoopIsFree, NoLoopAlive
    <3> QED
      BY <1>0, <2>1, <2>2, <2>4, <3>1, <3>2, PassiveKeeps
         DEF BeginEnsured, Passive, PhaseName, Usable
  <2> QED
    BY <2>3, <2>4
<1>4. CASE \E k \in {"stop", "stopTimed"} : BeginStop(k)
  BY <1>0, <1>1, <1>4, StopBodyCalm DEF BeginStop, Lock, Calm
<1>5. CASE \E m \in Mode : BeginSetMode(m)
  BY <1>0, <1>1, <1>5, StopBodyCalm DEF BeginSetMode, Lock
<1>6. CASE Read
  BY <1>6 DEF Read, Calm
<1>7. CASE EditEnv
  BY <1>7 DEF EditEnv, CInv, Undisturbed, OneLoop, LoopIsFree, TaskHasBot, OpenIsBot,
     HealsFlat, Usable, Shut, Alive
<1> QED
  BY <1>2, <1>3, <1>4, <1>5, <1>6, <1>7 DEF Request

LEMMA InitCInv == Init => CInv
BY Actors DEF Init, CInv, Undisturbed, OneLoop, LoopIsFree, TaskHasBot, OpenIsBot, HealsFlat,
   Usable, Alive, NoOp, Renewing

LEMMA NextCInv ==
    ASSUME Calm
    PROVE  IInv /\ CInv /\ [Next]_vars => CInv'
<1> SUFFICES ASSUME IInv, CInv, [Next]_vars PROVE CInv'
  OBVIOUS
<1>0. TypeOK
  BY DEF IInv
<1>1. CASE Request
  BY <1>1, RequestCalm
<1>2. CASE TaskStep
  BY <1>2, TaskStepCalm
<1>3. CASE ReadEnds \/ CleanupDone
  BY <1>3 DEF ReadEnds, CleanupDone, CInv, Undisturbed
<1>4. CASE \E a \in Actor \ {"cleanup"} : ReinitStep(a)
  BY <1>0, <1>4, ReinitStepCalm
<1>5. CASE \E i \in Loop : LoopStep(i)
  BY <1>0, <1>5, LoopStepCalm
<1>6. CASE UNCHANGED vars
  BY <1>6 DEF vars, CInv, Undisturbed, OneLoop, LoopIsFree, TaskHasBot, OpenIsBot,
     HealsFlat, Usable, Shut, Alive
<1> QED
  BY <1>1, <1>2, <1>3, <1>4, <1>5, <1>6 DEF Next

LEMMA CalmInvariant ==
    ASSUME Calm
    PROVE  Spec => [](IInv /\ CInv)
<1>1. Init => IInv /\ CInv
  BY InitIInv, InitCInv
<1>2. IInv /\ CInv /\ [Next]_vars => IInv' /\ CInv'
  BY NextIInv, NextCInv
<1> QED
  BY <1>1, <1>2, PTL DEF Spec

(* While nothing goes wrong, at most one loop is alive, whatever is asked  *)
(* of the manager and in whatever order.                                   *)
THEOREM CalmSingleLoop ==
    ASSUME Calm
    PROVE  Spec => []SingleLoop
<1>1. CInv => SingleLoop
  BY DEF CInv, OneLoop, SingleLoop
<1> QED
  BY <1>1, CalmInvariant, PTL

(* While nothing goes wrong, a manager that says stopped has no loop.      *)
THEOREM CalmStoppedIsTrue ==
    ASSUME Calm
    PROVE  Spec => []StoppedHasNoLoop
<1>1. CInv => StoppedHasNoLoop
  BY DEF CInv, LoopIsFree, StoppedHasNoLoop
<1> QED
  BY <1>1, CalmInvariant, PTL

(* While nothing goes wrong, a cycle in flight has the bot to itself.      *)
THEOREM CalmCycleExclusive ==
    ASSUME Calm
    PROVE  Spec => []CycleExclusive
<1>1. ASSUME CInv, NEW a \in Actor, NEW b \in Actor, at[a] = "cycling", at[b] = "cycling"
      PROVE  a = b
  <2>1. CASE a = "task"
    <3>1. NoLoopAlive
      BY <1>1, <2>1, BusyTask DEF Passive
    <3> QED
      BY <1>1, <2>1, <3>1, TaskAlone DEF Alone, Active
  <2>2. CASE a \in Loop
    BY <1>1, <2>2, LoopAlone DEF Alone, Active, Alive
  <2> QED
    BY <1>1, <2>1, <2>2, ActorKinds DEF CInv, Undisturbed
<1>2. CInv => CycleExclusive
  BY <1>1 DEF CycleExclusive
<1> QED
  BY <1>2, CalmInvariant, PTL

(* While nothing goes wrong, no cycle runs on an instance that was closed. *)
THEOREM CalmCycleOpen ==
    ASSUME Calm
    PROVE  Spec => []NoCycleOnClosedBot
<1>1. CInv => NoCycleOnClosedBot
  BY DEF CInv, OpenIsBot, NoCycleOnClosedBot
<1> QED
  BY <1>1, CalmInvariant, PTL

(* While nothing goes wrong, the manager never has two open instances.     *)
THEOREM CalmOneOpenBot ==
    ASSUME Calm
    PROVE  Spec => []OneOpenBot
<1>1. ASSUME CInv PROVE OneOpenBot
  <2>1. open = {} \/ \E b : open = {b}
    <3>1. CASE \E a \in Actor : at[a] \in Renewing
      BY <1>1, <3>1 DEF CInv, OpenIsBot, Renewing
    <3>2. CASE \A a \in Actor : at[a] \notin Renewing
      <4>1. open = {bot} \/ open = {}
        BY <1>1, <3>2 DEF CInv, OpenIsBot
      <4> QED
        BY <4>1
    <3> QED
      BY <3>1, <3>2
  <2>2. CASE open = {}
    BY <2>2, FS_EmptySet DEF OneOpenBot
  <2>3. CASE \E b : open = {b}
    <3>1. PICK b : open = {b}
      BY <2>3
    <3>2. Cardinality(open) = 1
      BY <3>1, FS_Singleton
    <3> QED
      BY <3>2 DEF OneOpenBot
  <2> QED
    BY <2>1, <2>2, <2>3
<1> QED
  BY <1>1, CalmInvariant, PTL

(* While nothing goes wrong, a self-heal switch never changes the mode     *)
(* under open positions: none can be opened while it is in progress.       *)
THEOREM CalmHealing ==
    ASSUME Calm
    PROVE  Spec => HealKeepsPositions
<1>1. CInv => ((\E a \in Loop \cup {"task"} : at[a] = "initializing" /\ phase[a] = "heal")
                 => exposure # "positions")
  BY DEF CInv, HealsFlat, Renewing, Actor
<1> QED
  BY <1>1, CalmInvariant, PTL DEF HealKeepsPositions
=============================================================================
