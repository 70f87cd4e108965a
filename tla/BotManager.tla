------------------------------ MODULE BotManager ------------------------------
(***************************************************************************)
(* The bot manager (src/runtime/botManager.js) and its lifecycle state     *)
(* machine (botLifecycleStateMachine.js): one process that owns a trading  *)
(* bot, runs it in a loop, and serves the dashboard and the command line.  *)
(*                                                                         *)
(* Mutations (init, start, stop, run one cycle, switch mode) queue behind  *)
(* a promise lock, so one runs at a time: the actor "task".  Status reads  *)
(* ("reader") and the loops do not take the lock.  Each actor is suspended *)
(* at an await, named by at[a]; between two awaits it runs alone.          *)
(***************************************************************************)
EXTENDS Naturals, FiniteSets

CONSTANTS
    Loop,        \* invocations of runLoop that can be alive together (bound)
    Bot,         \* TradingBot instances that can exist together (bound)
    NoBot, NoLoop,
    Threshold,   \* managerCycleFailureEscalationThreshold
    Exposure,    \* what cycles may leave behind (see Exposures)
    Happens      \* which requests and incidents occur (see Incident)

Incident == {
    "start", "stop", "stopTimed", "once", "mode",   \* locked mutations
    "read",      \* unlocked status reads
    "fail",      \* a cycle throws
    "heal",      \* a cycle asks to switch to paper
    "reject",    \* a renewal fails: the old instance's close, or the new one's
                 \* guard rails, init or analysis
    "unclosed",  \* the close of a stop throws
    "edit"}      \* BOT_MODE changes in .env under the manager

Exposures == {"none", "intents", "positions"}

ASSUME ManagerAssumption ==
    /\ Exposure \subseteq Exposures
    /\ NoBot \notin Bot /\ NoLoop \notin Loop
    /\ Threshold \in Nat \ {0}
    /\ Happens \subseteq Incident
    /\ Loop \cap {"task", "reader", "cleanup"} = {}

Mode == {"paper", "live"}
Actor == {"task", "reader", "cleanup"} \cup Loop
State == {"created", "initializing", "ready", "running", "stopping", "stopped",
          "degraded"}

VARIABLES
    lifecycle,      \* lifecycle.state
    stopRequested,
    failures,       \* consecutiveCycleFailures
    needsReinit,    \* botNeedsReinitialize
    bot,            \* this.bot
    open,           \* the instances initialised (or initialising) and not closed
    botMode,        \* config.botMode each instance was built with
    env,            \* BOT_MODE in the .env file
    exposure,       \* the worst of: open positions, unresolved execution intents
    loopPromise,    \* the loop that stop would wait for
    op,             \* the mutation that holds the lock
    at,             \* the await each actor is suspended at
    phase,          \* which of its call sites a suspended actor is in
    uses,           \* the instance an actor is cycling, initialising or closing
    invalid         \* an invalid lifecycle transition was attempted

vars == <<lifecycle, stopRequested, failures, needsReinit, bot, open, botMode, env,
          exposure, loopPromise, op, at, phase, uses, invalid>>

NoOp == [kind |-> "none"]

Init ==
    /\ lifecycle = "created"
    /\ stopRequested = FALSE
    /\ failures = 0
    /\ needsReinit = FALSE
    /\ bot = NoBot
    /\ open = {}
    /\ botMode = [b \in Bot |-> "paper"]
    /\ env \in Mode
    /\ exposure \in Exposure
    /\ loopPromise = NoLoop
    /\ op = NoOp
    /\ at = [a \in Actor |-> "idle"]
    /\ phase = [a \in Actor |-> "none"]
    /\ uses = [a \in Actor |-> NoBot]
    /\ invalid = FALSE

-----------------------------------------------------------------------------
(* botLifecycleStateMachine *)
Transitions == [
    created      |-> {"initializing"},
    initializing |-> {"ready", "degraded"},
    ready        |-> {"running", "stopping", "degraded"},
    running      |-> {"stopping", "degraded"},
    stopping     |-> {"stopped", "degraded"},
    stopped      |-> {"initializing", "ready"},
    degraded     |-> {"ready", "stopping"}]

runState == IF lifecycle \in {"running", "stopping"} THEN lifecycle ELSE "stopped"
mode == IF bot = NoBot THEN "none" ELSE botMode[bot]

Alive(i) == at[i] # "idle"
Go(a, pc) == at' = [at EXCEPT ![a] = pc]
Suspend(a, pc, ph, b) ==
    /\ at' = [at EXCEPT ![a] = pc]
    /\ phase' = [phase EXCEPT ![a] = ph]
    /\ uses' = [uses EXCEPT ![a] = b]
Finish(a) == Suspend(a, "idle", "none", NoBot)

(* The lock passes to the next queued mutation.                              *)
Release == Finish("task") /\ op' = NoOp

-----------------------------------------------------------------------------
(* reinitializeBot, ensureBotReady, syncStoppedModeFromEnv                   *)

ReinitializeKeepsOld(a, ph) == \* seeded bug: the old instance is not closed
    Suspend(a, "closing", ph, NoBot) /\ UNCHANGED open

(* The old instance is closed whether or not it was closed before.  A close *)
(* can only throw before it has closed anything (TradingBot.close).         *)
Reinitialize(a, ph) ==
    \/ Suspend(a, "closing", ph, NoBot) /\ open' = open \ {bot}
    \/ /\ "reject" \in Happens /\ bot # NoBot
       /\ Suspend(a, "failed", ph, NoBot) /\ UNCHANGED open

(* closeBotForStop: what comes of a close if there is one to do.  The       *)
(* caller catches one that throws, and the instance stays open.             *)
Closes(due) == {due} \cup (IF "unclosed" \in Happens THEN {FALSE} ELSE {})

EnsureReady(a) ==
    IF bot = NoBot \/ needsReinit
      THEN Reinitialize(a, "ensure")
      ELSE Suspend(a, "inspecting", "ensure", NoBot) /\ UNCHANGED open

Drift == env # mode

SyncStoppedMode(a) ==
    /\ at[a] = "inspecting"
    /\ IF runState = "running" \/ ~Drift
         THEN Suspend(a, "ready", "none", NoBot) /\ UNCHANGED open
         ELSE Reinitialize(a, "sync")
    /\ UNCHANGED <<lifecycle, stopRequested, failures, needsReinit, bot, botMode,
                   env, exposure, loopPromise, op, invalid>>

(* The .env file is loaded and, if it passes the live guard rails, a new    *)
(* instance starts to initialise.                                           *)
LoadConfig(a) ==
    /\ at[a] = "closing"
    /\ \E b \in Bot \ (open \cup {bot} \cup {uses[x] : x \in Actor}) :
         /\ open' = open \cup {b}
         /\ botMode' = [botMode EXCEPT ![b] = env]
         /\ Suspend(a, "initializing", phase[a], b)
    /\ UNCHANGED <<lifecycle, stopRequested, failures, needsReinit, bot, env,
                   exposure, loopPromise, op, invalid>>

AdoptBot(a) ==
    /\ at[a] = "initializing"
    /\ bot' = uses[a]
    /\ needsReinit' = FALSE
    /\ botMode' = [b \in Bot |-> IF b = bot /\ b # bot' THEN "paper" ELSE botMode[b]]
    /\ Suspend(a, IF phase[a] = "ensure" THEN "inspecting"
                  ELSE IF phase[a] = "revert" THEN "failed" ELSE "analysing",
               phase[a], NoBot)
    /\ UNCHANGED <<lifecycle, stopRequested, failures, open, env, exposure,
                   loopPromise, op, invalid>>

(* assertLiveModeGuardrails, init or refreshAnalysis throws: the caller      *)
(* deals with it at "failed".                                                *)
ReinitializeFails(a) ==
    /\ "reject" \in Happens
    /\ \/ at[a] = "closing" /\ env = "live"
       \/ at[a] \in {"initializing", "analysing"}
    /\ open' = open \ {uses[a]}
    /\ botMode' = [b \in Bot |-> IF b = uses[a] THEN "paper" ELSE botMode[b]]
    /\ Suspend(a, "failed", phase[a], NoBot)
    /\ UNCHANGED <<lifecycle, stopRequested, failures, needsReinit, bot, env,
                    exposure, loopPromise, op, invalid>>

(* refreshAnalysis after the stopped mode was synced: the body may go on.    *)
SyncedAnalysis(a) ==
    /\ at[a] = "analysing" /\ phase[a] = "sync"
    /\ Suspend(a, "ready", "none", NoBot)
    /\ UNCHANGED <<lifecycle, stopRequested, failures, needsReinit, bot, open,
                   botMode, env, exposure, loopPromise, op, invalid>>

-----------------------------------------------------------------------------
(* getSnapshot, getDoctor, getReport: unlocked reads                         *)
Read ==
    /\ "read" \in Happens /\ at["reader"] = "idle"
    /\ EnsureReady("reader")
    /\ UNCHANGED <<lifecycle, stopRequested, failures, needsReinit, bot, botMode,
                   env, exposure, loopPromise, op, invalid>>

ReadEnds ==
    /\ at["reader"] \in {"ready", "failed"}
    /\ Finish("reader")
    /\ UNCHANGED <<lifecycle, stopRequested, failures, needsReinit, bot, open,
                   botMode, env, exposure, loopPromise, op, invalid>>

-----------------------------------------------------------------------------
(* runLoop: i is one invocation of it *)

(* The synchronous start of a loop, up to its first await of runCycle.       *)
BeginLoop(i) ==
    /\ ~Alive(i)
    /\ at' = [at EXCEPT !["task"] = "idle", ![i] = "cycling"]
    /\ uses' = [uses EXCEPT !["task"] = NoBot, ![i] = bot]
    /\ phase' = [phase EXCEPT !["task"] = "none"]
    /\ loopPromise' = i
    /\ op' = NoOp

(* The cleanup that a timed-out stop attached to the loop runs with its end. *)
LoopEnds(i) ==
    LET due == at["cleanup"] = "armed" /\ phase["cleanup"] = i
    IN  \E close \in Closes(due /\ bot = uses["cleanup"] /\ ~needsReinit) :
        /\ at' = [at EXCEPT ![i] = "idle",
                            !["cleanup"] = IF close THEN "closing_bot"
                                           ELSE IF due THEN "idle" ELSE @]
        /\ uses' = [uses EXCEPT ![i] = NoBot,
                                !["cleanup"] = IF due /\ ~close THEN NoBot ELSE @]
        /\ phase' = [phase EXCEPT ![i] = "none",
                                  !["cleanup"] = IF due THEN "none" ELSE @]
        /\ open' = IF close THEN open \ {bot} ELSE open

EndIterationRunning(i, s) == \* seeded bug: the loop ends without a transition
    /\ lifecycle' = s
    /\ IF stopRequested' THEN LoopEnds(i) ELSE Suspend(i, "delay", "none", NoBot)
                                              /\ UNCHANGED open

(* The end of an iteration that leaves the lifecycle in state s.             *)
EndIteration(i, s) ==
    IF stopRequested'
      THEN lifecycle' = "stopped" /\ LoopEnds(i)
      ELSE /\ lifecycle' = s
           /\ Suspend(i, "delay", "none", NoBot)
           /\ UNCHANGED open

Recovered == IF lifecycle = "degraded" THEN "running" ELSE lifecycle

(* A cycle may open and close positions whether it succeeds or throws.       *)
CycleSucceeds(i) ==
    /\ \/ at[i] = "cycling" /\ exposure' \in Exposure
       \/ at[i] = "analysing" /\ phase[i] = "heal" /\ UNCHANGED exposure
    /\ failures' = 0
    /\ UNCHANGED stopRequested
    /\ EndIteration(i, Recovered)
    /\ UNCHANGED <<needsReinit, bot, botMode, env, loopPromise, op, invalid>>

(* The catch branch.  From "stopped" the transition to "degraded" is not     *)
(* allowed and throws out of the loop.                                       *)
CycleFails(i) ==
    /\ \/ "fail" \in Happens /\ at[i] = "cycling" /\ exposure' \in Exposure
       \/ at[i] = "failed" /\ UNCHANGED exposure
    /\ failures' = IF failures < Threshold THEN failures + 1 ELSE failures
    /\ IF lifecycle = "stopped"
         THEN /\ invalid' = TRUE
              /\ LoopEnds(i)
              /\ UNCHANGED <<lifecycle, stopRequested>>
         ELSE /\ stopRequested' = (stopRequested \/ (failures' = Threshold /\ mode = "live"))
              /\ EndIteration(i, "degraded")
              /\ UNCHANGED invalid
    /\ UNCHANGED <<needsReinit, bot, botMode, env, loopPromise, op>>

NextCycle(i) ==
    /\ at[i] = "delay"
    /\ IF stopRequested
         THEN lifecycle' = "stopped" /\ LoopEnds(i)
         ELSE Suspend(i, "cycling", "none", bot) /\ UNCHANGED <<lifecycle, open>>
    /\ UNCHANGED <<stopRequested, failures, needsReinit, bot, botMode, env, exposure,
                   loopPromise, op, invalid>>

(* applySelfHealManagerAction("switch_to_paper") at the end of a live cycle: *)
(* with open positions the manager stops, without them it switches to paper. *)
HealByStopping(i) ==
    /\ "heal" \in Happens /\ at[i] = "cycling" /\ mode = "live"
    /\ exposure' \in Exposure \cap {"positions"}
    /\ stopRequested' = TRUE
    /\ failures' = 0
    /\ lifecycle' = "stopped" /\ LoopEnds(i)
    /\ UNCHANGED <<needsReinit, bot, botMode, env, loopPromise, op, invalid>>

HealBySwitching(i) ==
    /\ "heal" \in Happens /\ at[i] = "cycling" /\ mode = "live"
    /\ exposure' \in Exposure \ {"positions"}
    /\ env' = "paper"
    /\ Reinitialize(i, "heal")
    /\ UNCHANGED <<lifecycle, stopRequested, failures, needsReinit, bot, botMode,
                   loopPromise, op, invalid>>

LoopStep(i) ==
    \/ CycleSucceeds(i)
    \/ CycleFails(i)
    \/ NextCycle(i)
    \/ HealByStopping(i)
    \/ HealBySwitching(i)

-----------------------------------------------------------------------------
(* Locked mutations *)
Lock(o) == op = NoOp /\ op' = o

BeginInit ==
    /\ Lock([kind |-> "init"])
    /\ lifecycle = "created"
    /\ lifecycle' = "initializing"
    /\ Reinitialize("task", "init")
    /\ UNCHANGED <<stopRequested, failures, needsReinit, bot, botMode, env, exposure,
                   loopPromise, invalid>>

InitDone ==
    /\ at["task"] = "analysing" /\ phase["task"] = "init"
    /\ lifecycle' = "ready"
    /\ Release
    /\ UNCHANGED <<stopRequested, failures, needsReinit, bot, open, botMode, env,
                   exposure, loopPromise, invalid>>

(* A mutation throws: the lock passes on and the state stays as it is.       *)
TaskThrows ==
    /\ at["task"] = "failed" /\ phase["task"] # "mode"
    /\ Release
    /\ UNCHANGED <<lifecycle, stopRequested, failures, needsReinit, bot, open,
                   botMode, env, exposure, loopPromise, invalid>>

(* start and the single runs (runCycleOnce, refreshAnalysis, runResearch,    *)
(* runMarketScan, runIncidentReplay) first await ensureBotReady.             *)
BeginEnsured(kind) ==
    /\ kind \in Happens
    /\ Lock([kind |-> kind])
    /\ EnsureReady("task")
    /\ UNCHANGED <<lifecycle, stopRequested, failures, needsReinit, bot, botMode,
                   env, exposure, loopPromise, invalid>>

StartableAlways == TRUE \* seeded bug: start ignores the mutation contract
Startable == lifecycle \in {"ready", "stopped"}

Start ==
    /\ at["task"] = "ready" /\ op.kind = "start"
    /\ IF Startable
         THEN /\ stopRequested' = FALSE
              /\ failures' = 0
              /\ lifecycle' = "running"
              /\ \E i \in Loop : BeginLoop(i)
         ELSE Release /\ UNCHANGED <<stopRequested, failures, lifecycle, loopPromise>>
    /\ UNCHANGED <<needsReinit, bot, open, botMode, env, exposure, invalid>>

CycleOnceAnytime == \* seeded bug: a single cycle beside the running loop
    /\ at["task"] = "ready" /\ op.kind = "once"
    /\ Suspend("task", "cycling", "once", bot)
    /\ UNCHANGED <<lifecycle, stopRequested, failures, needsReinit, bot, open,
                   botMode, env, exposure, loopPromise, op, invalid>>

RunCycleOnce ==
    /\ at["task"] = "ready" /\ op.kind = "once"
    /\ IF runState = "running"
         THEN Release
         ELSE Suspend("task", "cycling", "once", bot) /\ UNCHANGED op
    /\ UNCHANGED <<lifecycle, stopRequested, failures, needsReinit, bot, open,
                   botMode, env, exposure, loopPromise, invalid>>

(* A throwing cycle leaves the failure count as it was.                      *)
CycleOnceEnds ==
    /\ \/ at["task"] = "cycling" /\ exposure' \in Exposure
       \/ at["task"] = "analysing" /\ phase["task"] = "heal" /\ UNCHANGED exposure
    /\ failures' \in {0} \cup (IF "fail" \in Happens THEN {failures} ELSE {})
    /\ Release
    /\ UNCHANGED <<lifecycle, stopRequested, needsReinit, bot, open, botMode, env,
                   loopPromise, invalid>>

(* Outside the loop a self-heal stop only requests: nobody completes it.     *)
CycleOnceHealsByStopping ==
    /\ "heal" \in Happens /\ at["task"] = "cycling" /\ mode = "live"
    /\ exposure' \in Exposure \cap {"positions"}
    /\ stopRequested' = TRUE
    /\ failures' = 0
    /\ lifecycle' = IF "stopping" \in Transitions[lifecycle] THEN "stopping" ELSE lifecycle
    /\ Release
    /\ UNCHANGED <<needsReinit, bot, open, botMode, env, loopPromise, invalid>>

-----------------------------------------------------------------------------
(* stopUnlocked *)

(* closeBotForStop closes this.bot unless it already awaits a new one.       *)
CloseForStop(a, ph) ==
    \E closes \in Closes(bot # NoBot /\ ~needsReinit) :
        IF closes
          THEN Suspend(a, "closing_bot", ph, bot) /\ open' = open \ {bot}
          ELSE Suspend(a, "closing_bot", ph, NoBot) /\ UNCHANGED open

StopBodySilent == \* seeded bug: the loop is not told to stop
    /\ UNCHANGED stopRequested
    /\ IF runState = "stopped"
         THEN CloseForStop("task", "parked") /\ UNCHANGED lifecycle
         ELSE /\ lifecycle' = "stopping"
              /\ Suspend("task", "joining", "none", NoBot)
              /\ UNCHANGED open

StopBody ==
    /\ stopRequested' = TRUE
    /\ IF runState = "stopped"
         THEN CloseForStop("task", "parked") /\ UNCHANGED lifecycle
         ELSE /\ lifecycle' = "stopping"
              /\ Suspend("task", "joining", "none", NoBot)
              /\ UNCHANGED open

BeginStop(kind) ==
    /\ kind \in Happens
    /\ Lock([kind |-> kind])
    /\ StopBody
    /\ UNCHANGED <<failures, needsReinit, bot, botMode, env, exposure, loopPromise,
                   invalid>>

LoopRemembered == loopPromise # NoLoop \* seeded bug: an ended loop still counts
LoopAlive == loopPromise # NoLoop /\ Alive(loopPromise)

Joined ==
    /\ at["task"] = "joining" /\ ~LoopAlive
    /\ IF lifecycle = "degraded"
         THEN invalid' = TRUE /\ Release /\ UNCHANGED <<lifecycle, open>>
         ELSE lifecycle' = "stopped" /\ CloseForStop("task", "joined")
              /\ UNCHANGED <<invalid, op>>
    /\ UNCHANGED <<stopRequested, failures, needsReinit, bot, botMode, env, exposure,
                   loopPromise>>

(* The caller's patience ends first: the cleanup is left to the loop's end.  *)
StopTimesOut ==
    /\ at["task"] = "joining" /\ op.kind = "stopTimed" /\ LoopAlive
    /\ at' = [at EXCEPT !["task"] = "idle", !["cleanup"] = "armed"]
    /\ phase' = [phase EXCEPT !["task"] = "none", !["cleanup"] = loopPromise]
    /\ uses' = [uses EXCEPT !["cleanup"] = bot]
    /\ at["cleanup"] # "closing_bot"
    /\ op' = NoOp
    /\ UNCHANGED <<lifecycle, stopRequested, failures, needsReinit, bot, open,
                   botMode, env, exposure, loopPromise, invalid>>

Parked ==
    IF phase["task"] = "parked" /\ lifecycle # "running" THEN "stopped" ELSE lifecycle

StopForgetsClose == \* seeded bug: the closed instance is not marked for renewal
    /\ at["task"] = "closing_bot"
    /\ op.kind # "mode"
    /\ lifecycle' = Parked
    /\ Release
    /\ UNCHANGED <<stopRequested, failures, needsReinit, bot, open, botMode, env,
                   exposure, loopPromise, invalid>>

StopDone ==
    /\ at["task"] = "closing_bot"
    /\ op.kind # "mode"
    /\ needsReinit' = (needsReinit \/ uses["task"] # NoBot)
    /\ lifecycle' = Parked
    /\ Release
    /\ UNCHANGED <<stopRequested, failures, bot, open, botMode, env, exposure,
                   loopPromise, invalid>>

CleanupDone ==
    /\ at["cleanup"] = "closing_bot"
    /\ needsReinit' = TRUE
    /\ Finish("cleanup")
    /\ UNCHANGED <<lifecycle, stopRequested, failures, bot, open, botMode, env,
                   exposure, loopPromise, op, invalid>>

-----------------------------------------------------------------------------
(* setMode: stop, rewrite .env, reinitialise, restart if it was running      *)
ModeSwitchSafe == exposure = "none"

BeginSetMode(m) ==
    /\ "mode" \in Happens /\ bot # NoBot /\ mode # m
    /\ ModeSwitchSafe
    /\ Lock([kind |-> "mode", to |-> m, from |-> mode, running |-> runState = "running"])
    /\ StopBody
    /\ UNCHANGED <<failures, needsReinit, bot, botMode, env, exposure, loopPromise,
                   invalid>>

SwitchEnv ==
    /\ at["task"] = "closing_bot" /\ op.kind = "mode"
    /\ needsReinit' = (needsReinit \/ uses["task"] # NoBot)
    /\ lifecycle' = Parked
    /\ env' = op.to
    /\ Reinitialize("task", "mode")
    /\ UNCHANGED <<stopRequested, failures, bot, botMode, exposure, loopPromise, op,
                   invalid>>

RevertEnv ==
    /\ at["task"] = "failed" /\ phase["task"] = "mode"
    /\ env' = op.from
    /\ Reinitialize("task", "revert")
    /\ UNCHANGED <<lifecycle, stopRequested, failures, needsReinit, bot, botMode,
                   exposure, loopPromise, op, invalid>>

ModeSwitched ==
    /\ at["task"] = "analysing" /\ phase["task"] = "mode"
    /\ stopRequested' = (stopRequested /\ ~op.running)
    /\ IF op.running /\ "running" \in Transitions[lifecycle]
         THEN lifecycle' = "running" /\ \E i \in Loop : BeginLoop(i)
         ELSE Release /\ UNCHANGED <<lifecycle, loopPromise>>
    /\ invalid' = (invalid \/ (op.running /\ "running" \notin Transitions[lifecycle]))
    /\ UNCHANGED <<failures, needsReinit, bot, open, botMode, env, exposure>>

-----------------------------------------------------------------------------
(* Another process, or applyConfigProfile, rewrites BOT_MODE in .env; the    *)
(* manager picks it up with the next syncStoppedModeFromEnv.                 *)
EditEnv ==
    /\ "edit" \in Happens
    /\ env' \in Mode \ {env}
    /\ UNCHANGED <<lifecycle, stopRequested, failures, needsReinit, bot, open,
                   botMode, exposure, loopPromise, op, at, phase, uses, invalid>>

TaskStep ==
    \/ InitDone \/ TaskThrows \/ Start \/ RunCycleOnce \/ CycleOnceEnds
    \/ CycleOnceHealsByStopping \/ HealBySwitching("task")
    \/ Joined \/ StopTimesOut \/ StopDone \/ SwitchEnv \/ RevertEnv \/ ModeSwitched

ReinitStep(a) ==
    \/ SyncStoppedMode(a)
    \/ LoadConfig(a)
    \/ AdoptBot(a)
    \/ ReinitializeFails(a)
    \/ SyncedAnalysis(a)

Request ==
    \/ BeginInit
    \/ \E k \in {"start", "once"} : BeginEnsured(k)
    \/ \E k \in {"stop", "stopTimed"} : BeginStop(k)
    \/ \E m \in Mode : BeginSetMode(m)
    \/ Read
    \/ EditEnv

Next ==
    \/ Request
    \/ TaskStep
    \/ ReadEnds
    \/ CleanupDone
    \/ \E a \in Actor \ {"cleanup"} : ReinitStep(a)
    \/ \E i \in Loop : LoopStep(i)

(* Every await ends: cycles, closes and initialisations settle.              *)
Fairness ==
    /\ WF_vars(TaskStep)
    /\ WF_vars(CleanupDone)
    /\ \A a \in Actor \ {"cleanup"} : WF_vars(ReinitStep(a))
    /\ \A i \in Loop : WF_vars(LoopStep(i))

Spec == Init /\ [][Next]_vars
FairSpec == Spec /\ Fairness

-----------------------------------------------------------------------------
TypeOK ==
    /\ lifecycle \in State
    /\ stopRequested \in BOOLEAN /\ needsReinit \in BOOLEAN
    /\ exposure \in Exposure /\ invalid \in BOOLEAN
    /\ failures \in 0..Threshold
    /\ bot \in Bot \cup {NoBot}
    /\ open \subseteq Bot
    /\ botMode \in [Bot -> Mode]
    /\ env \in Mode
    /\ loopPromise \in Loop \cup {NoLoop}
    /\ uses \in [Actor -> Bot \cup {NoBot}]
    /\ at \in [Actor -> {"idle", "closing", "initializing", "inspecting", "analysing",
                         "ready", "failed", "cycling", "delay", "joining",
                         "closing_bot", "armed"}]
    /\ phase \in [Actor -> {"none", "ensure", "sync", "init", "mode", "revert", "heal",
                            "once", "parked", "joined"} \cup Loop]

(* At most one loop is alive.                                                *)
SingleLoop == \A i, j \in Loop : Alive(i) /\ Alive(j) => i = j

(* At most one cycle is in flight, whoever asked for it.                     *)
CycleExclusive ==
    \A a, b \in Actor : at[a] = "cycling" /\ at[b] = "cycling" => a = b

(* A cycle in flight runs on an instance that has not been closed.           *)
NoCycleOnClosedBot == \A a \in Actor : at[a] = "cycling" => uses[a] \in open

(* No two instances are live together: each holds its own streams, timers    *)
(* and runtime files.                                                        *)
OneOpenBot == Cardinality(open) <= 1

(* The manager reports running only while a loop is really alive.            *)
RunningHasLoop == lifecycle = "running" => \E i \in Loop : Alive(i)

(* A manager that reports stopped has no loop left trading.                  *)
StoppedHasNoLoop == lifecycle = "stopped" => \A i \in Loop : ~Alive(i)

(* A manager that reports stopping will not start another cycle.             *)
StoppingIsRequested == lifecycle = "stopping" => stopRequested

(* A self-heal switch never changes the mode under open positions.           *)
HealKeepsPositions ==
    [][ mode' # mode /\ (\E a \in Loop \cup {"task"} : at[a] = "initializing"
                                                       /\ phase[a] = "heal")
        => exposure # "positions" ]_vars

(* The mode never changes under open positions or unresolved intents.        *)
ModeChangesUnexposed ==
    [][bot # NoBot /\ bot' # NoBot /\ mode' # mode => exposure = "none"]_vars

(* No request makes the lifecycle attempt a transition its table forbids.    *)
NoInvalidTransition == ~invalid

(* A mutation always gives the lock back.                                    *)
LockReleased == op # NoOp ~> op = NoOp

(* A stop request always ends in the stopped state, whatever it finds in     *)
(* progress and whether or not the instance can be closed.                   *)
StopTakesEffect == op.kind \in {"stop", "stopTimed"} ~> lifecycle = "stopped"
=============================================================================
