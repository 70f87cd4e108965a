-------------------------- MODULE StatePersistence --------------------------
(***************************************************************************)
(* What the bot keeps on disk and what a restart makes of it: the state    *)
(* files of storage/stateStore.js, each replaced by an atomic rename but   *)
(* one after another; the queue of saves of persistenceCoordinator.js; the *)
(* backups of stateBackupManager.js; and the loading of all of them in     *)
(* TradingBot.init.                                                        *)
(*                                                                         *)
(* Two callers save: the trading cycle (a bundle of all the files at its   *)
(* end, the runtime file alone whenever an execution intent changes) and   *)
(* the operator (the runtime file alone, for example after an alert was    *)
(* acknowledged).  Each waits for its own save.  The data are trades, open *)
(* in the runtime file and booked in the journal, and a count of the       *)
(* operator's changes.  "model" stands for model.json together with        *)
(* model-backups.json, written right after it.                             *)
(***************************************************************************)
EXTENDS Integers, Sequences, FiniteSets

CONSTANTS
    Trade,          \* the trades of a run
    MaxAcks,        \* bound: changes the operator makes
    MaxCrashes,     \* bound: deaths of the process
    MaxFailures     \* bound: writes that fail

ASSUME PersistenceAssumption ==
    /\ IsFiniteSet(Trade)
    /\ MaxAcks \in Nat /\ MaxCrashes \in Nat /\ MaxFailures \in Nat

Actor == {"cycle", "operator"}
File == {"runtime", "journal", "model"}
NoSave == [kind |-> "none"]
NoBackup == [open |-> {}, booked |-> {}, learned |-> {}, acks |-> -1]
Damaged == "corrupt"

VARIABLES
    mem,        \* runtime.openPositions, journal.trades, the model, operator's changes
    closing,    \* the trade that left openPositions and is not yet in the journal
    disk,       \* each file: its state, and its content when it can be read
    backup,     \* the latest readable backup
    queue,      \* callers whose save is chained on persistPromise, in order
    save,       \* the save each caller waits for
    phase,      \* "down", the steps of init, "up"
    restored,   \* this start loaded a backup
    crashes, failures,
    traded,     \* history: trades that were ever opened
    recorded,   \* history: trades runtime.json ever showed, since the last restore
    acked,      \* history: what a finished save promised, since the last restore
    damaged,    \* history: a file was ever damaged
    torn        \* history: a start ended between its restore and its first save

saving == <<queue, save>>
bounds == <<crashes, failures>>
history == <<traded, recorded, acked, damaged, torn>>
vars == <<mem, closing, disk, backup, queue, save, phase, restored, bounds, history>>

Nothing == [open |-> {}, booked |-> {}, learned |-> {}, acks |-> 0]
Contents(m) == [runtime |-> [open |-> m.open, acks |-> m.acks],
                journal |-> m.booked,
                model |-> m.learned]
Absent(f) == [st |-> "missing", v |-> Contents(Nothing)[f]]
Stored(c, f) == [st |-> "ok", v |-> c[f]]

Init ==
    /\ mem = Nothing
    /\ closing = {}
    /\ disk = [f \in File |-> Absent(f)]
    /\ backup = NoBackup
    /\ queue = <<>>
    /\ save = [a \in Actor |-> NoSave]
    /\ phase = "down"
    /\ restored = FALSE
    /\ crashes = 0 /\ failures = 0
    /\ traded = {} /\ recorded = {}
    /\ acked = Contents(Nothing)
    /\ damaged = FALSE /\ torn = FALSE

-----------------------------------------------------------------------------
(* Saves.  The coordinator chains them: one runs at a time, in order, and  *)
(* the next one runs whether or not the one before it failed.              *)

(* The order in which one bundle renames its files.                        *)
JournalFirst == <<"journal", "runtime", "model">>
BundleOrder == <<"runtime", "journal", "model">>
Files(a) == IF save[a].kind = "bundle" THEN BundleOrder ELSE <<"runtime">>

Idle(a) == save[a] = NoSave

(* Seeded bug: the latest save goes first.                                 *)
enqueueAhead(a, s) ==
    /\ save' = [save EXCEPT ![a] = s]
    /\ queue' = <<a>> \o queue
enqueue(a, s) ==
    /\ save' = [save EXCEPT ![a] = s]
    /\ queue' = Append(queue, a)

(* The bundle is a clone made when persist() is called; the runtime file   *)
(* alone is written from what the memory holds when its turn comes.        *)
persistSnapshotBundle(a, m) == enqueue(a, [kind |-> "bundle", done |-> 0, v |-> Contents(m)])
persistRuntimeOnly(a) == enqueue(a, [kind |-> "waiting"])

(* Seeded bug: the chain ends at the first save that failed.               *)
RunsUntilFailure(a) == queue # <<>> /\ a = Head(queue) /\ failures = 0
Runs(a) == queue # <<>> /\ a = Head(queue)

TakeRuntime(a) ==
    /\ Runs(a) /\ save[a].kind = "waiting"
    /\ save' = [save EXCEPT ![a] = [kind |-> "runtime", done |-> 0, v |-> Contents(mem)]]
    /\ UNCHANGED <<mem, closing, disk, backup, queue, phase, restored, bounds, history>>

RenameFile(a) ==
    /\ Runs(a) /\ save[a].kind \in {"runtime", "bundle"}
    /\ save[a].done < Len(Files(a))
    /\ LET f == Files(a)[save[a].done + 1] IN
        /\ disk' = [disk EXCEPT ![f] = Stored(save[a].v, f)]
        /\ recorded' = recorded \cup (IF f = "runtime" THEN save[a].v.runtime.open ELSE {})
    /\ save' = [save EXCEPT ![a].done = @ + 1]
    /\ UNCHANGED <<mem, closing, backup, queue, phase, restored, bounds, traded, acked,
                   damaged, torn>>

Promised(s) ==
    [acked EXCEPT !.runtime.acks = s.v.runtime.acks,
                  !.journal = IF s.kind = "bundle" THEN @ \cup s.v.journal ELSE @,
                  !.model = IF s.kind = "bundle" THEN @ \cup s.v.model ELSE @]

(* The caller goes on; init is over when its own save is.                  *)
SaveDone(a) ==
    /\ Runs(a) /\ save[a].kind \in {"runtime", "bundle"}
    /\ save[a].done = Len(Files(a))
    /\ save' = [save EXCEPT ![a] = NoSave]
    /\ queue' = Tail(queue)
    /\ phase' = IF phase = "booting" THEN "up" ELSE phase
    /\ acked' = Promised(save[a])
    /\ UNCHANGED <<mem, closing, disk, backup, restored, bounds, traded, recorded,
                   damaged, torn>>

(* A write or a rename fails, or that of the manifest after the last one.  *)
(* The caller gets the error; init gives up.                               *)
SaveFails(a) ==
    /\ failures < MaxFailures
    /\ Runs(a)
    /\ failures' = failures + 1
    /\ save' = [save EXCEPT ![a] = NoSave]
    /\ queue' = Tail(queue)
    /\ phase' = IF phase = "booting" THEN "down" ELSE phase
    /\ torn' = (torn \/ (restored /\ phase = "booting"))
    /\ UNCHANGED <<mem, closing, disk, backup, restored, crashes, traded, recorded, acked,
                   damaged>>

-----------------------------------------------------------------------------
(* The cycle and the operator.                                             *)

CycleFree == phase = "up" /\ Idle("cycle")

OpenPosition(t) ==
    /\ CycleFree /\ closing = {} /\ t \notin traded
    /\ mem' = [mem EXCEPT !.open = @ \cup {t}]
    /\ traded' = traded \cup {t}
    /\ UNCHANGED <<closing, disk, backup, saving, phase, restored, bounds, recorded, acked,
                   damaged, torn>>

(* The broker drops the position, and in live mode saves the resolved exit *)
(* intent, before the trade it returns is journaled.                       *)
exitPosition(t) ==
    /\ CycleFree /\ closing = {} /\ t \in mem.open
    /\ mem' = [mem EXCEPT !.open = @ \ {t}]
    /\ closing' = {t}
    /\ \/ persistRuntimeOnly("cycle")
       \/ UNCHANGED saving
    /\ UNCHANGED <<disk, backup, phase, restored, bounds, history>>

(* A trade without features is booked and not learned from.                *)
BookTrade ==
    /\ CycleFree /\ closing # {}
    /\ \E learned \in {closing, {}} :
        mem' = [mem EXCEPT !.booked = @ \cup closing, !.learned = @ \cup learned]
    /\ closing' = {}
    /\ UNCHANGED <<disk, backup, saving, phase, restored, bounds, history>>

FlushLedger ==
    /\ CycleFree /\ closing = {}
    /\ persistRuntimeOnly("cycle")
    /\ UNCHANGED <<mem, closing, disk, backup, phase, restored, bounds, history>>

persist ==
    /\ CycleFree /\ closing = {}
    /\ persistSnapshotBundle("cycle", mem)
    /\ UNCHANGED <<mem, closing, disk, backup, phase, restored, bounds, history>>

maybeBackup ==
    /\ CycleFree /\ closing = {}
    /\ backup' = mem
    /\ UNCHANGED <<mem, closing, disk, saving, phase, restored, bounds, history>>

acknowledgeAlert ==
    /\ phase = "up" /\ Idle("operator") /\ mem.acks < MaxAcks
    /\ mem' = [mem EXCEPT !.acks = @ + 1]
    /\ persistRuntimeOnly("operator")
    /\ UNCHANGED <<closing, disk, backup, phase, restored, bounds, history>>

-----------------------------------------------------------------------------
(* Death and restart.                                                      *)

(* Nothing is forced to disk before a rename, so a power cut may leave one *)
(* of the files unreadable.                                                *)
Crash ==
    /\ phase # "down" /\ crashes < MaxCrashes
    /\ crashes' = crashes + 1
    /\ \E hurt \in {{}} \cup {{f} : f \in {g \in File : disk[g].st = "ok"}} :
        /\ disk' = [f \in File |-> IF f \in hurt THEN [disk[f] EXCEPT !.st = Damaged]
                                   ELSE disk[f]]
        /\ damaged' = (damaged \/ hurt # {})
    /\ mem' = Nothing /\ closing' = {}
    /\ queue' = <<>> /\ save' = [a \in Actor |-> NoSave]
    /\ phase' = "down"
    /\ torn' = (torn \/ (restored /\ phase \in {"restoring", "booting"}))
    /\ UNCHANGED <<backup, restored, failures, traded, recorded, acked>>

Loaded == [open |-> disk["runtime"].v.open, booked |-> disk["journal"].v,
           learned |-> disk["model"].v, acks |-> disk["runtime"].v.acks]

Unreadable == {f \in File : disk[f].st = Damaged}
LoadOrder == <<"runtime", "journal", "model">>
FirstUnreadable(i) ==
    LoadOrder[i] \in Unreadable /\ \A j \in 1..(i - 1) : LoadOrder[j] \notin Unreadable

(* A file that is not there is its default.  The manifest of the last      *)
(* bundle is checked before, and what the check says is dropped.           *)
LoadState ==
    /\ phase = "down" /\ Unreadable = {}
    /\ mem' = Loaded
    /\ phase' = "booting"
    /\ restored' = FALSE
    /\ persistSnapshotBundle("cycle", Loaded)
    /\ UNCHANGED <<closing, disk, backup, bounds, history>>

(* The first file that cannot be read is moved away; a move that fails is   *)
(* only logged.                                                             *)
quarantineCorruptFile ==
    /\ phase = "down"
    /\ \E i \in DOMAIN LoadOrder :
        /\ FirstUnreadable(i)
        /\ \/ disk' = [disk EXCEPT ![LoadOrder[i]] = Absent(LoadOrder[i])]
           \/ UNCHANGED disk
    /\ phase' = "quarantined"
    /\ UNCHANGED <<mem, closing, backup, saving, restored, bounds, history>>

RestoreBackup ==
    /\ phase = "quarantined" /\ backup # NoBackup
    /\ mem' = backup
    /\ phase' = "restoring"
    /\ restored' = TRUE
    /\ save' = [save EXCEPT !["cycle"] =
                    [kind |-> "restore", done |-> 0, v |-> Contents(backup)]]
    /\ recorded' = backup.open /\ acked' = Contents(backup)
    /\ UNCHANGED <<closing, disk, backup, queue, bounds, traded, damaged, torn>>

(* Without a backup init throws; a file that was moved away stays away.    *)
NothingToRestore ==
    /\ phase = "quarantined" /\ backup = NoBackup
    /\ phase' = "down"
    /\ UNCHANGED <<mem, closing, disk, backup, saving, restored, bounds, history>>

RestoreFile ==
    /\ phase = "restoring" /\ save["cycle"].done < Len(BundleOrder)
    /\ LET f == BundleOrder[save["cycle"].done + 1] IN
        disk' = [disk EXCEPT ![f] = Stored(save["cycle"].v, f)]
    /\ save' = [save EXCEPT !["cycle"].done = @ + 1]
    /\ UNCHANGED <<mem, closing, backup, queue, phase, restored, bounds, history>>

(* The rest of init saves everything again; a failure to save the restored *)
(* files is only logged.                                                   *)
RestoreDone ==
    /\ phase = "restoring"
    /\ save["cycle"].done < Len(BundleOrder) => failures < MaxFailures
    /\ failures' = failures + (IF save["cycle"].done < Len(BundleOrder) THEN 1 ELSE 0)
    /\ phase' = "booting"
    /\ persistSnapshotBundle("cycle", mem)
    /\ UNCHANGED <<mem, closing, disk, backup, restored, crashes, history>>

-----------------------------------------------------------------------------
SaveStep == \E a \in Actor : TakeRuntime(a) \/ RenameFile(a) \/ SaveDone(a)

InitStep == LoadState \/ quarantineCorruptFile \/ RestoreBackup \/ NothingToRestore
            \/ RestoreFile \/ RestoreDone

Next ==
    \/ SaveStep
    \/ \E a \in Actor : SaveFails(a)
    \/ \E t \in Trade : OpenPosition(t) \/ exitPosition(t)
    \/ BookTrade \/ FlushLedger \/ persist \/ maybeBackup
    \/ acknowledgeAlert
    \/ Crash
    \/ InitStep

(* File operations settle and a started process goes on.                   *)
Spec == Init /\ [][Next]_vars /\ WF_vars(SaveStep) /\ WF_vars(InitStep)

-----------------------------------------------------------------------------
RuntimeFile == [open : SUBSET Trade, acks : 0..MaxAcks]
Content == [runtime : RuntimeFile, journal : SUBSET Trade, model : SUBSET Trade]
FileValue(f) == IF f = "runtime" THEN RuntimeFile ELSE SUBSET Trade
Saving == [kind : {"waiting"}]
          \cup [kind : {"runtime", "bundle", "restore"}, done : 0..Len(BundleOrder), v : Content]
Memory == [open : SUBSET Trade, booked : SUBSET Trade, learned : SUBSET Trade,
           acks : 0..MaxAcks]

MemoryOK ==
    /\ mem \in Memory /\ closing \in SUBSET Trade
    /\ backup \in Memory \cup {NoBackup}
DiskOK == \A f \in File : disk[f] \in [st : {"ok", "missing", Damaged}, v : FileValue(f)]
QueueOK ==
    /\ queue \in Seq(Actor)
    /\ \A i, j \in DOMAIN queue : queue[i] = queue[j] => i = j
    /\ \A i \in DOMAIN queue : ~Idle(queue[i])
SaveOK == save \in [Actor -> Saving \cup {NoSave}]
PhaseOK ==
    /\ phase \in {"down", "quarantined", "restoring", "booting", "up"}
    /\ restored \in BOOLEAN /\ damaged \in BOOLEAN /\ torn \in BOOLEAN
    /\ crashes \in 0..MaxCrashes /\ failures \in 0..MaxFailures
    /\ traded \subseteq Trade /\ recorded \subseteq Trade /\ acked \in Content

(* The shape of every variable; each caller waits for at most one save, so *)
(* that no caller is queued twice (persistenceCoordinator.js, enqueue).    *)
TypeOK == MemoryOK /\ DiskOK /\ QueueOK /\ SaveOK /\ PhaseOK

(* As long as no file is damaged, what a finished save promised stays on   *)
(* disk: no later or slower save, no failure half-way and no crash takes   *)
(* it back (enqueue, and the clone persist makes when it is called).       *)
AcknowledgedSurvives ==
    ~damaged =>
        /\ acked.runtime.acks <= disk["runtime"].v.acks
        /\ acked.journal \subseteq disk["journal"].v
        /\ acked.model \subseteq disk["model"].v

(* Behind the renames, the overlapping saves, the failures and the deaths  *)
(* of the process there is one store that, undamaged, only grows: a trade  *)
(* once journaled, an alert once acknowledged on disk is never taken back, *)
(* and a finished save has promised nothing that is not there.             *)
OnDisk == [acks |-> disk["runtime"].v.acks, journal |-> disk["journal"].v,
           model |-> disk["model"].v]
Acknowledged == [acks |-> acked.runtime.acks, journal |-> acked.journal, model |-> acked.model]
Store == INSTANCE DurableStore WITH
    stored <- OnDisk, promised <- Acknowledged, whole <- ~damaged

StoreKept == Store!Spec

(* However saves fail and wherever the process dies, the bot never holds a *)
(* position that its journal already booked, which it would close and book *)
(* a second time; unless a restore was cut short before it was saved.      *)
NeverBookedAndOpen == ~torn => mem.open \cap mem.booked = {}

(* A caller never waits for ever: its save ends, with or without an error, *)
(* whatever became of the saves before it (.catch in enqueue).             *)
EverySaveSettles == \A a \in Actor : ~Idle(a) ~> Idle(a)

(* Files that are all readable, but stale next to each other, are noticed: *)
(* a restart that reports no restore knows every trade runtime.json ever   *)
(* recorded, as an open position or in the journal.                        *)
StaleFilesNoticed ==
    phase = "booting" /\ ~restored /\ ~damaged =>
        recorded \subseteq mem.open \cup mem.booked
=============================================================================
