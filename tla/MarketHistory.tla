---------------------------- MODULE MarketHistory ----------------------------
(***************************************************************************)
(* The candles the bot keeps on disk (storage/marketHistoryStore.js) and   *)
(* the operations that fill them: the scanner's (runtime/marketScanner.js),*)
(* the backfill (runtime/marketHistory.js) and the automatic repair        *)
(* (tradingBot.js, refreshMarketHistorySnapshot).                          *)
(*                                                                         *)
(* One series.  Its candles lie in partition files, one per month, and the *)
(* manifest says which partitions there are and what range each of them    *)
(* covers; a read goes through the manifest.  An upsert loads the series,  *)
(* merges, renames the partitions into place one after another, removes    *)
(* the partition files it has no candle for, and saves the manifest last.  *)
(* A file that does not parse is moved away; without its manifest a series *)
(* is rebuilt from the partition files.  Nothing orders two operations on  *)
(* one series: the trading cycle scans while a status request repairs.     *)
(***************************************************************************)
EXTENDS Integers, FiniteSets, FiniteSetsExt

CONSTANTS
    First, Last,    \* bound: the newest candle at the start and at the end of a run;
                    \* candles are numbered by their open time
    PartOf(_),      \* partitionKeyForOpenTime
    Legacy,         \* candles of a series file of the old layout; {}: no such file
    Actor,          \* who works on the series at the same time
    Does,           \* the operations each of them runs: "scan", "repair"
    Target,         \* targetCount of a backfill
    Few,            \* the scanner fetches when it has fewer candles
    Fresh,          \* freshnessThresholdMultiplier: candles a series may lag
    MaxCrashes,     \* bound: deaths of the process
    MaxFaults,      \* bound: requests and writes that fail
    MaxDamage       \* bound: files a crash leaves unreadable

Time == 1 .. Last
Part == {PartOf(t) : t \in Time}

ASSUME HistoryAssumption ==
    /\ Last \in Nat \ {0} /\ First \in Time /\ Part \subseteq Nat
    /\ \A t, u \in Time : t =< u => PartOf(t) =< PartOf(u)
    /\ Legacy \subseteq Time /\ Does \in [Actor -> SUBSET {"scan", "repair"}]
    /\ Target \in Nat \ {0} /\ Few \in Nat /\ Fresh \in Nat
    /\ MaxCrashes \in Nat /\ MaxFaults \in Nat /\ MaxDamage \in Nat

VARIABLES
    now,            \* the newest candle the exchange shows
    file,           \* candles of each partition file; {}: no such file
    damaged,        \* partition files that do not parse
    manifest,       \* "none", "good", "damaged", or "moved" away and not yet rebuilt
    listed,         \* the partitions of a good manifest and the range of each
    legacy,         \* candles of the old layout's file; {}: no such file
    noted,          \* recoveryActions: partitions found unreadable, until a load takes them
    job,            \* what each actor is doing
    crashes, faults, damages,
    promised,       \* history: candles of upserts that finished, undisturbed
    alone,          \* history: nobody else was changing the series since the actor started
    mistaken        \* history: a load took what was left without a manifest for the series

disk == <<file, damaged, manifest, listed, legacy>>
bounds == <<crashes, faults, damages>>
historyVars == <<now, disk, noted, job, bounds, promised, alone, mistaken>>

\* The n newest of S, all of it if there are fewer.
Newest(n, S) == {t \in S : Cardinality({u \in S : u > t}) < n}
Holes(S) == IF S = {} THEN {} ELSE (Min(S) .. Max(S)) \ S
Partition(S, p) == {t \in S : PartOf(t) = p}
Parts(S) == {PartOf(t) : t \in S}
\* buildPartitionMetadata
Extent(S) == [lo |-> Min(S), hi |-> Max(S)]
Listing(S) == [p \in Parts(S) |-> Extent(Partition(S, p))]
NoListing == Listing({})
Files == {p \in Part : file[p] # {} \/ p \in damaged}

Idle == [at |-> "idle", op |-> "none", stage |-> "none", todo |-> {}, have |-> {},
         out |-> {}, keep |-> {}, seen |-> {}, list |-> NoListing]

HistoryInit ==
    /\ now = First
    /\ file = [p \in Part |-> {}] /\ damaged = {}
    /\ manifest = "none" /\ listed = NoListing
    /\ legacy = Legacy
    /\ noted = {}
    /\ job = [a \in Actor |-> Idle]
    /\ crashes = 0 /\ faults = 0 /\ damages = 0
    /\ promised = Legacy
    /\ alone = [a \in Actor |-> TRUE]
    /\ mistaken = FALSE

At(a, step) == job[a].at = step
Goto(a, step) == job' = [job EXCEPT ![a].at = step]
Ends(a) == job' = [job EXCEPT ![a] = Idle]
\* An error leaves the operation and is swallowed or reported; the scanner
\* whose own load it left asks the exchange as if nothing were stored.
Throws(a) ==
    IF job[a].op = "scan" /\ job[a].stage = "look" /\ ~At(a, "fetch")
    THEN job' = [job EXCEPT ![a] = [Idle EXCEPT !.at = "fetch", !.op = "scan", !.stage = "look"]]
    ELSE Ends(a)
history == <<promised, mistaken>>

-----------------------------------------------------------------------------
(* loadSeries: the manifest, then each partition it lists.                 *)

\* To read the series for the operation's next stage, with the candles that
\* stage will add.
Load(a, op, stage, out) ==
    job' = [job EXCEPT ![a] = [Idle EXCEPT !.at = "open", !.op = op, !.stage = stage,
                                           !.out = out]]
\* To save candles S: saveSeries lists the files first and removes, after
\* the partitions of S are written, those it has no candle for.
Save(a, S, step) ==
    job' = [job EXCEPT ![a].at = step, ![a].keep = S, ![a].todo = Parts(S),
                       ![a].seen = Files \ Parts(S)]

\* loadManifest, with maybeMigrateLegacySeries before it.
OpenManifest(a) ==
    /\ At(a, "open")
    /\ \/ /\ manifest = "good"
          /\ job' = [job EXCEPT ![a].at = "read", ![a].todo = DOMAIN listed]
          /\ UNCHANGED mistaken
       \/ /\ manifest # "good" /\ legacy # {}
          /\ Save(a, legacy, "migrate")
          /\ mistaken' = (mistaken \/ manifest # "none")
       \/ /\ manifest \in {"none", "moved"} /\ legacy = {}
          /\ Goto(a, "read")
          /\ mistaken' = (mistaken \/ manifest = "moved")
       \/ /\ manifest = "damaged" /\ legacy = {}
          /\ Goto(a, "bad")
          /\ UNCHANGED mistaken
    /\ UNCHANGED <<now, disk, noted, bounds, promised>>

\* quarantineCorruptFile of the manifest: it is renamed whatever it holds by
\* now, unless it is locked.
MoveManifest(a) ==
    /\ At(a, "bad")
    /\ Goto(a, "rebuild")
    /\ \/ UNCHANGED <<manifest, listed>>
       \/ /\ manifest \in {"good", "damaged"}
          /\ manifest' = "moved" /\ listed' = NoListing
    /\ UNCHANGED <<now, file, damaged, legacy, noted, bounds, history>>

\* rebuildManifestFromPartitions: the files there are now will be read.
Rebuild(a) ==
    /\ At(a, "rebuild")
    /\ job' = [job EXCEPT ![a].at = "rebuilding", ![a].todo = Files]
    /\ UNCHANGED <<now, disk, noted, bounds, history>>

\* What they held when each was read is listed; the load goes on from there.
SaveRebuilt(a) ==
    /\ At(a, "rebuilding") /\ job[a].todo = {}
    /\ manifest' = "good" /\ listed' = Listing(job[a].have)
    /\ job' = [job EXCEPT ![a].at = "read", ![a].todo = Parts(job[a].have), ![a].have = {}]
    /\ UNCHANGED <<now, file, damaged, legacy, noted, bounds, history>>

\* A load and a rebuild read one partition after another: no file is no
\* candle, and one that does not parse is moved away.
Aside == [read |-> "quarantine", rebuilding |-> "discard"]
ReadPart(a) ==
    /\ job[a].at \in DOMAIN Aside /\ job[a].todo # {}
    /\ LET p == Min(job[a].todo)
       IN  IF p \in damaged
           THEN Goto(a, Aside[job[a].at])
           ELSE job' = [job EXCEPT ![a].todo = @ \ {p}, ![a].have = @ \cup file[p]]
    /\ UNCHANGED <<now, disk, noted, bounds, history>>

\* Whatever it holds by now, unless it is locked.
QuarantinePart(a) ==
    \E step \in DOMAIN Aside :
       /\ At(a, Aside[step])
       /\ LET p == Min(job[a].todo)
          IN  /\ job' = [job EXCEPT ![a].at = step, ![a].todo = @ \ {p}]
              /\ noted' = noted \cup {p}
              /\ \/ UNCHANGED <<file, damaged>>
                 \/ file' = [file EXCEPT ![p] = {}] /\ damaged' = damaged \ {p}
       /\ UNCHANGED <<now, manifest, listed, legacy, bounds, history>>

\* cleanupManifestPartitions, by whichever load ends first: the manifest is
\* read, and saved without the partitions found unreadable.
Cleanup(a) ==
    /\ At(a, "read") /\ job[a].todo = {} /\ noted # {}
    /\ noted' = {}
    /\ CASE manifest = "good" -> job' = [job EXCEPT ![a].at = "cleaned",
                  ![a].list = [p \in DOMAIN listed \ noted |-> listed[p]]]
         [] manifest = "damaged" -> Throws(a)
         [] OTHER -> UNCHANGED job
    /\ UNCHANGED <<now, disk, bounds, history>>

SaveCleaned(a) ==
    /\ At(a, "cleaned")
    /\ manifest' = "good" /\ listed' = job[a].list
    /\ job' = [job EXCEPT ![a].at = "read", ![a].list = NoListing]
    /\ UNCHANGED <<now, file, damaged, legacy, noted, bounds, history>>

Loaded(a) == At(a, "read") /\ job[a].todo = {} /\ noted = {}

\* An upsert writes the merged series, a migration the old layout's.
Writing(a) == job[a].at \in {"write", "migrate"}

-----------------------------------------------------------------------------
(* saveSeries.                                                             *)

RenamePart(a) ==
    /\ Writing(a) /\ job[a].todo # {}
    /\ LET p == Min(job[a].todo)
       IN  /\ file' = [file EXCEPT ![p] = Partition(job[a].keep, p)]
           /\ damaged' = damaged \ {p}
           /\ job' = [job EXCEPT ![a].todo = @ \ {p}]
    /\ UNCHANGED <<now, manifest, listed, legacy, noted, bounds, history>>

RemoveStale(a) ==
    /\ Writing(a) /\ job[a].todo = {}
    /\ \E p \in job[a].seen :
          /\ file' = [file EXCEPT ![p] = {}]
          /\ damaged' = damaged \ {p}
          /\ job' = [job EXCEPT ![a].seen = @ \ {p}]
    /\ UNCHANGED <<now, manifest, listed, legacy, noted, bounds, history>>

\* The manifest, last.  A migration goes on to remove the old file, an upsert
\* is done, and its caller has the count of what is stored.
SaveManifest(a) ==
    /\ Writing(a) /\ job[a].todo = {} /\ job[a].seen = {}
    /\ manifest' = "good" /\ listed' = Listing(job[a].keep)
    /\ IF At(a, "write")
       THEN /\ Ends(a)
            /\ promised' = IF alone[a] THEN promised \cup job[a].keep ELSE promised
       ELSE Goto(a, "unlegacy") /\ UNCHANGED promised
    /\ UNCHANGED <<now, file, damaged, legacy, noted, bounds, mistaken>>

RemoveLegacy(a) ==
    /\ At(a, "unlegacy")
    /\ legacy' = {}
    /\ job' = [job EXCEPT ![a].at = "open", ![a].keep = {}]
    /\ UNCHANGED <<now, file, damaged, manifest, listed, noted, bounds, history>>

-----------------------------------------------------------------------------
(* The operations.                                                         *)

Start(a, op) ==
    /\ At(a, "idle") /\ op \in Does[a]
    /\ Load(a, op, "look", {})
    /\ UNCHANGED <<now, disk, noted, bounds, history>>

\* verifySeries of what a load returned: nothing there, a gap, or too old.
\* Seeded bug: a gap is no reason to fetch.
NeedsFetch_GapsStay(S) == S = {} \/ (now - 1) - Max(S) > Fresh
NeedsFetch(S) == S = {} \/ Holes(S) # {} \/ (now - 1) - Max(S) > Fresh

\* What the first load of an operation leads to.
Looked(a) ==
    /\ Loaded(a) /\ job[a].stage = "look"
    /\ CASE job[a].op = "repair" /\ NeedsFetch(job[a].have) -> Load(a, "repair", "plan", {})
         [] job[a].op = "scan" /\ Cardinality(job[a].have) < Few -> Goto(a, "fetch")
         [] OTHER -> Ends(a)
    /\ UNCHANGED <<now, disk, noted, bounds, history>>

\* loadScannerCandles: what the exchange has is stored if it is more.
ScanFetch(a) ==
    /\ At(a, "fetch")
    /\ LET S == Newest(Target, 1 .. now)
       IN  IF Cardinality(S) > Cardinality(job[a].have) THEN Load(a, "scan", "upsert", S) ELSE Ends(a)
    /\ UNCHANGED <<now, disk, noted, bounds, history>>

\* What the requests of a backfill bring.  It fills the gaps that do not end
\* before the Target newest candles begin, and asks for newer ones from
\* behind the candle fetched last, which is a gap's if one was filled.
Latest == Newest(Target, 1 .. now)
Older(S) == Newest(Target - Cardinality(S), 1 .. (Min(S) - 1))
GapOf(S, t) == {u \in Holes(S) : Holes({t, u}) \subseteq Holes(S)}
GapFill(S) == {t \in Holes(S) : Max(GapOf(S, t)) >= Min(Newest(Target, S))}
Newer(S) == (Max(IF GapFill(S) = {} THEN S ELSE GapFill(S)) + 1) .. now

\* backfillHistoricalCandles: the older and the newer candles may be left out
\* when their request fails.
Backfill(a) ==
    /\ Loaded(a) /\ job[a].stage = "plan"
    /\ \E olderFails, newerFails \in BOOLEAN :
          LET S == IF job[a].have = {} THEN Latest ELSE job[a].have
              T == S \cup (IF olderFails THEN {} ELSE Older(S))
              U == T \cup GapFill(T) \cup (IF newerFails THEN {} ELSE Newer(T))
          IN  /\ olderFails \/ newerFails => faults < MaxFaults
              /\ faults' = IF olderFails \/ newerFails THEN faults + 1 ELSE faults
              /\ Load(a, "repair", "upsert", U)
    /\ UNCHANGED <<now, disk, noted, crashes, damages, history>>

\* Seeded bug: the series is saved without what was there before.
Upsert_NotMerged(a) ==
    /\ Loaded(a) /\ job[a].stage = "upsert"
    /\ Save(a, job[a].out, "write")
    /\ UNCHANGED <<now, disk, noted, bounds, history>>
\* upsertCandles, once it has loaded what there is.
Upsert(a) ==
    /\ Loaded(a) /\ job[a].stage = "upsert"
    /\ Save(a, job[a].have \cup job[a].out, "write")
    /\ UNCHANGED <<now, disk, noted, bounds, history>>

\* A request, a read or a write fails for good.
GivesUp(a) ==
    /\ faults < MaxFaults /\ faults' = faults + 1
    /\ ~At(a, "idle") /\ ~(Loaded(a) /\ job[a].stage = "look")
    /\ Throws(a)
    /\ UNCHANGED <<now, disk, noted, crashes, damages, history>>

-----------------------------------------------------------------------------
(* The world.                                                              *)

Tick ==
    /\ now < Last /\ now' = now + 1
    /\ UNCHANGED <<disk, noted, job, bounds, history>>

\* The process dies; of the files it wrote, one may come back unreadable.
Crash ==
    /\ crashes < MaxCrashes /\ crashes' = crashes + 1
    /\ job' = [a \in Actor |-> Idle]
    /\ noted' = {}
    /\ \/ UNCHANGED <<file, damaged, manifest, listed, damages, promised>>
       \/ /\ damages < MaxDamage /\ damages' = damages + 1
          /\ \/ /\ manifest = "good"
                /\ manifest' = "damaged" /\ listed' = NoListing
                /\ UNCHANGED <<file, damaged, promised>>
             \/ \E p \in Part :
                   /\ file[p] # {}
                   /\ file' = [file EXCEPT ![p] = {}]
                   /\ damaged' = damaged \cup {p}
                   /\ promised' = promised \ file[p]
                   /\ UNCHANGED <<manifest, listed>>
    /\ UNCHANGED <<now, legacy, faults, mistaken>>

Proceed(a) ==
    \/ OpenManifest(a) \/ MoveManifest(a) \/ Rebuild(a) \/ SaveRebuilt(a)
    \/ ReadPart(a) \/ QuarantinePart(a) \/ Cleanup(a) \/ SaveCleaned(a)
    \/ RenamePart(a) \/ RemoveStale(a) \/ SaveManifest(a) \/ RemoveLegacy(a)
    \/ Looked(a) \/ ScanFetch(a) \/ Backfill(a) \/ Upsert(a)

\* Who may still change the series.
Changing(a) ==
    \/ job[a].at \in {"bad", "rebuild", "rebuilding", "discard", "quarantine", "cleaned", "write",
                     "migrate", "unlegacy"}
    \/ job[a].at # "idle" /\ job[a].stage = "upsert"
    \/ At(a, "read") /\ noted # {}
Witnessed ==
    alone' = [a \in Actor |->
                job'[a].at = "idle" \/ (alone[a] /\ \A b \in Actor \ {a} : ~Changing(b)')]

HistoryNext ==
    /\ \/ \E a \in Actor : Proceed(a) \/ GivesUp(a)
       \/ \E a \in Actor, op \in {"scan", "repair"} : Start(a, op)
       \/ Tick \/ Crash
    /\ Witnessed

\* Files and requests settle (client.js has its timeouts), and the refresh of
\* the history, due every so often, is asked for again and again.
Fairness ==
    /\ \A a \in Actor : WF_historyVars(Proceed(a) /\ Witnessed)
    /\ \A a \in Actor : SF_historyVars(Start(a, "repair") /\ Witnessed)

HistorySpec == HistoryInit /\ [][HistoryNext]_historyVars /\ Fairness

-----------------------------------------------------------------------------
(* What the store promises.                                                *)

Step == {"idle", "open", "bad", "rebuild", "rebuilding", "discard", "read", "quarantine", "cleaned",
         "write", "migrate", "unlegacy", "fetch"}

HistoryTypeOK ==
    /\ now \in Time
    /\ file \in [Part -> SUBSET Time]
    /\ \A p \in Part : Parts(file[p]) \subseteq {p}
    /\ damaged \subseteq Part /\ \A p \in damaged : file[p] = {}
    /\ manifest \in {"none", "good", "damaged", "moved"}
    /\ DOMAIN listed \subseteq Part /\ \A p \in DOMAIN listed : listed[p] \in [lo : Time, hi : Time]
    /\ manifest # "good" => listed = NoListing
    /\ legacy \in {{}, Legacy}
    /\ noted \subseteq Part
    /\ DOMAIN job = Actor
    /\ \A a \in Actor :
          /\ job[a].at \in Step
          /\ job[a].todo \cup job[a].seen \subseteq Part
          /\ job[a].have \cup job[a].out \cup job[a].keep \subseteq Time
    /\ crashes \in 0 .. MaxCrashes /\ faults \in 0 .. MaxFaults /\ damages \in 0 .. MaxDamage
    /\ promised \subseteq Time /\ alone \in [Actor -> BOOLEAN] /\ mistaken \in BOOLEAN

\* What a read of the whole series comes back with (after the migration or
\* the rebuild it may have to make first), and whether a read of exactly the
\* time of t comes back with t.
Stored ==
    CASE manifest = "good" -> UNION {file[p] : p \in DOMAIN listed}
      [] manifest = "none" -> legacy
      [] OTHER -> UNION {file[p] : p \in Part}
Finds(t) ==
    /\ t \in Stored
    /\ manifest = "good" => t \in listed[PartOf(t)].lo .. listed[PartOf(t)].hi

\* The candles of an upsert that reported success, with nobody else changing
\* the series meanwhile, are found by every later read: whatever other
\* operations overlap later, wherever the process dies, and whichever other
\* file is unreadable afterwards - unless a load met the gap between moving
\* a damaged manifest away and saving the rebuilt one.
PromisesKept == ~mistaken => \A t \in promised : Finds(t)

\* The same without the exception.
DamagedManifestCostsNothing == \A t \in promised : Finds(t)

\* Once the faults are over, the newest Target candles have no gap between
\* them and the series is not behind by more than Fresh: a lost partition, a
\* lost update or a failed fetch is repaired.
Whole ==
    /\ Stored # {}
    /\ Holes(Newest(Target, Stored)) = {}
    /\ (now - 1) - Max(Stored) =< Fresh
HistoryHeals == <>[]Whole

=============================================================================
