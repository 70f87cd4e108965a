------------------------ MODULE StatePersistence_proofs ------------------------
(***************************************************************************)
(* Proofs about StatePersistence, for any finite set of trades and any     *)
(* number of operator changes, crashes and failing writes.  Three layers,  *)
(* each inductive over the one before:                                     *)
(*                                                                         *)
(*   TInv  the types; the chain of saves; what the save that runs has      *)
(*         already written is on disk; only trades that were opened appear *)
(*   DInv  no trade is a position and booked, in the memory, in a backup,  *)
(*         in a save or on disk                                            *)
(*   AInv  what a finished save promised is on disk, and every save that   *)
(*         is still to be written is at least as new as the disk           *)
(*                                                                         *)
(* From the three together: the files implement DurableStore.              *)
(***************************************************************************)
EXTENDS StatePersistence, TLAPS

(* A save with content, and a save that waits for its turn or has it.      *)
Holds(a) == save[a].kind \in {"runtime", "bundle", "restore"}
Chained(a) == save[a].kind \in {"waiting", "runtime", "bundle"}

(* Exactly those are queued, and only the first has written anything.      *)
QueuedOK ==
    /\ \A a \in Actor : Chained(a) => \E i \in DOMAIN queue : queue[i] = a
    /\ \A i \in DOMAIN queue : Chained(queue[i])
    /\ \A i \in DOMAIN queue : i # 1 =>
          save[queue[i]].kind # "runtime"
          /\ (save[queue[i]].kind = "bundle" => save[queue[i]].done = 0)

(* The operator never saves a bundle, and only the cycle's bundle saves    *)
(* while the bot starts.                                                   *)
PhasesOK ==
    /\ save["operator"].kind \in {"none", "waiting", "runtime"}
    /\ phase # "up" => save["operator"].kind = "none" /\ closing = {}
    /\ phase \in {"down", "quarantined"} => save["cycle"].kind = "none"
    /\ phase = "restoring" => save["cycle"].kind = "restore" /\ restored
    /\ phase = "booting" => save["cycle"].kind = "bundle"
    /\ phase = "up" => save["cycle"].kind # "restore"

(* What a save counts as renamed is on disk: nobody renames beside it.     *)
WrittenOK ==
    \A a \in Actor : save[a].kind \in {"runtime", "bundle"} =>
        /\ save[a].kind = "runtime" => save[a].done <= 1
        /\ save[a].done >= 1 => disk["runtime"].v = save[a].v.runtime
        /\ save[a].done >= 2 => disk["journal"].v = save[a].v.journal
        /\ save[a].done >= 3 => disk["model"].v = save[a].v.model

(* Only trades that were opened are anywhere.                              *)
KnownOK ==
    /\ mem.open \cup mem.booked \cup closing \subseteq traded
    /\ backup.open \cup backup.booked \subseteq traded
    /\ disk["runtime"].v.open \cup disk["journal"].v \subseteq traded
    /\ \A a \in Actor : Holds(a) =>
          save[a].v.runtime.open \cup save[a].v.journal \subseteq traded

TInv == /\ TypeOK
        /\ disk = [f \in File |-> disk[f]]
        /\ QueuedOK /\ PhasesOK /\ WrittenOK /\ KnownOK

(* The files agree, except while a restored backup is written out.         *)
Settled == ~(restored /\ phase \in {"restoring", "booting"})
Alive == phase \in {"booting", "up"}

(* The journal on disk is never ahead of the memory or of a save, so that  *)
(* the runtime file of a save agrees with the journal it is renamed beside.*)
DInv == ~torn =>
    /\ mem.open \cap mem.booked = {}
    /\ closing \cap (mem.open \cup mem.booked) = {}
    /\ backup.open \cap backup.booked = {}
    /\ \A a \in Actor : Holds(a) => save[a].v.runtime.open \cap save[a].v.journal = {}
    /\ Alive => \A a \in Actor : Holds(a) => save[a].v.journal \subseteq mem.booked
    /\ Settled => disk["runtime"].v.open \cap disk["journal"].v = {}
    /\ Settled /\ Alive =>
        /\ disk["journal"].v \subseteq mem.booked
        /\ \A a \in Actor : Holds(a) => disk["journal"].v \subseteq save[a].v.journal

(* A bundle that waits behind the operator's save holds his change.        *)
AInv == ~damaged =>
    /\ ~torn /\ ~restored /\ phase \notin {"quarantined", "restoring"}
    /\ \A f \in File : disk[f].st # Damaged
    /\ acked.runtime.acks <= disk["runtime"].v.acks
    /\ acked.journal \subseteq disk["journal"].v
    /\ acked.model \subseteq disk["model"].v
    /\ Alive =>
        /\ disk["runtime"].v.acks <= mem.acks /\ disk["model"].v \subseteq mem.learned
        /\ \A a \in Actor : Holds(a) =>
            /\ disk["runtime"].v.acks <= save[a].v.runtime.acks
            /\ save[a].v.runtime.acks <= mem.acks
            /\ disk["model"].v \subseteq save[a].v.model
            /\ save[a].v.model \subseteq mem.learned
    /\ \A i \in DOMAIN queue : i # 1 /\ save[queue[i]].kind = "bundle"
         => save[queue[i]].v.runtime.acks = mem.acks

(* What persist() clones from a memory is the content of the files.        *)
LEMMA ContentsTyped == \A m \in Memory : Contents(m) \in Content
  BY DEF Memory, Contents, Content, RuntimeFile

(* A caller without a save joins the end of the chain (enqueue).           *)
LEMMA Enqueued ==
    ASSUME TInv, NEW a \in Actor, ~Chained(a), NEW s \in Saving,
           s.kind = "waiting" \/ (s.kind = "bundle" /\ s.done = 0), enqueue(a, s)
    PROVE  QueueOK' /\ SaveOK' /\ QueuedOK'
<1> USE DEF TInv, TypeOK, QueueOK, SaveOK, QueuedOK
<1>1. /\ queue' \in Seq(Actor) /\ Len(queue') = Len(queue) + 1
      /\ DOMAIN queue' = 1..(Len(queue) + 1) /\ DOMAIN queue = 1..Len(queue)
      /\ Len(queue) \in Nat
      /\ queue'[Len(queue) + 1] = a
      /\ \A i \in DOMAIN queue : queue'[i] = queue[i] /\ i \in DOMAIN queue'
  BY DEF enqueue
<1>2. \A i \in DOMAIN queue : queue[i] # a
  OBVIOUS
<1>3. save' = [save EXCEPT ![a] = s] /\ SaveOK'
  BY DEF enqueue
<1>4. \A i \in DOMAIN queue : save'[queue[i]] = save[queue[i]]
  BY <1>2, <1>3, <1>1
<1>5. save'[a] = s /\ s # NoSave
  BY <1>3 DEF NoSave, Saving
<1>6. QueueOK'
  <2>1. \A i \in DOMAIN queue' : i \in DOMAIN queue \/ i = Len(queue) + 1
    BY <1>1
  <2>2. ASSUME NEW i \in DOMAIN queue', NEW j \in DOMAIN queue', queue'[i] = queue'[j]
        PROVE  i = j
    BY <2>1, <2>2, <1>1, <1>2
  <2>3. \A i \in DOMAIN queue' : save'[queue'[i]] # NoSave
    BY <2>1, <1>1, <1>4, <1>5 DEF Idle
  <2> QED
    BY <2>2, <2>3, <1>1 DEF Idle
<1>7. QueuedOK'
  <2>1. ASSUME NEW b \in Actor, Chained(b)' PROVE (\E i \in DOMAIN queue : queue[i] = b)'
    <3>1. CASE b = a
      BY <3>1, <1>1
    <3>2. CASE b # a
      BY <3>2, <2>1, <1>1, <1>3 DEF Chained
    <3> QED
      BY <3>1, <3>2
  <2>2. \A i \in DOMAIN queue' :
            save'[queue'[i]].kind \in {"waiting", "runtime", "bundle"}
    BY <1>1, <1>4, <1>5 DEF Chained
  <2>3. ASSUME NEW i \in DOMAIN queue', i # 1
        PROVE  /\ save'[queue'[i]].kind # "runtime"
               /\ save'[queue'[i]].kind = "bundle" => save'[queue'[i]].done = 0
    <3>1. CASE i = Len(queue) + 1
      BY <3>1, <1>1, <1>5
    <3>2. CASE i \in DOMAIN queue
      BY <3>2, <2>3, <1>1, <1>4
    <3> QED
      BY <3>1, <3>2, <1>1
  <2> QED
    BY <2>1, <2>2, <2>3 DEF Chained
<1> QED
  BY <1>3, <1>6, <1>7

(* The save that runs leaves the chain; the next one takes its place.      *)
LEMMA Dequeued ==
    ASSUME TInv, NEW a \in Actor, Runs(a), save' = [save EXCEPT ![a] = NoSave],
           queue' = Tail(queue)
    PROVE  QueueOK' /\ SaveOK' /\ QueuedOK'
<1> USE DEF TInv, TypeOK, QueueOK, SaveOK, QueuedOK
<1>1. /\ queue' \in Seq(Actor) /\ Len(queue) \in Nat /\ Len(queue) >= 1
      /\ DOMAIN queue' = 1..(Len(queue) - 1) /\ DOMAIN queue = 1..Len(queue)
      /\ queue[1] = a
      /\ \A i \in DOMAIN queue' : queue'[i] = queue[i + 1] /\ i + 1 \in DOMAIN queue
  BY DEF Runs
<1>2. \A i \in DOMAIN queue : i # 1 => queue[i] # a /\ i - 1 \in DOMAIN queue'
                                       /\ queue'[i - 1] = queue[i]
  BY <1>1
<1>3. \A i \in DOMAIN queue' : i + 1 # 1 /\ queue'[i] # a /\ save'[queue'[i]] = save[queue[i + 1]]
  BY <1>1, <1>2
<1>4. SaveOK'
  OBVIOUS
<1>5. QueueOK'
  <2>1. ASSUME NEW i \in DOMAIN queue', NEW j \in DOMAIN queue', queue'[i] = queue'[j]
        PROVE  i = j
    BY <2>1, <1>1
  <2>2. \A i \in DOMAIN queue' : save'[queue'[i]] # NoSave
    BY <1>1, <1>3 DEF Idle
  <2> QED
    BY <2>1, <2>2, <1>1 DEF Idle
<1>6. QueuedOK'
  <2>1. ASSUME NEW b \in Actor, Chained(b)' PROVE (\E i \in DOMAIN queue : queue[i] = b)'
    <3>1. b # a /\ Chained(b)
      BY <2>1 DEF Chained, NoSave
    <3>2. PICK i \in DOMAIN queue : queue[i] = b
      BY <3>1
    <3> QED
      BY <3>1, <3>2, <1>1, <1>2
  <2>2. \A i \in DOMAIN queue' :
            save'[queue'[i]].kind \in {"waiting", "runtime", "bundle"}
    BY <1>1, <1>3 DEF Chained
  <2>3. ASSUME NEW i \in DOMAIN queue', i # 1
        PROVE  /\ save'[queue'[i]].kind # "runtime"
               /\ save'[queue'[i]].kind = "bundle" => save'[queue'[i]].done = 0
    BY <2>3, <1>1, <1>3
  <2> QED
    BY <2>1, <2>2, <2>3 DEF Chained
<1> QED
  BY <1>4, <1>5, <1>6

(* Behind the save that runs nothing has been written.                     *)
LEMMA Behind ==
    ASSUME TInv, NEW a \in Actor, Runs(a), NEW b \in Actor, b # a
    PROVE  /\ save[b].kind # "runtime"
           /\ save[b].kind = "bundle" => save[b].done = 0
           /\ Holds(b) /\ Alive => /\ b = "cycle" /\ save[b].kind = "bundle"
                                   /\ a = "operator" /\ save[a].kind \in {"waiting", "runtime"}
<1> USE DEF TInv, TypeOK, QueueOK, SaveOK, QueuedOK, PhasesOK
<1>1. /\ Len(queue) \in Nat /\ Len(queue) >= 1 /\ DOMAIN queue = 1..Len(queue) /\ queue[1] = a
  BY DEF Runs
<1>2. CASE Chained(b)
  <2>1. PICK i \in DOMAIN queue : queue[i] = b
    BY <1>2
  <2>2. i # 1
    BY <2>1, <1>1
  <2>3. Chained(a)
    BY <1>1
  <2> QED
    BY <2>1, <2>2, <2>3, <1>2 DEF Chained, Holds, Actor, Alive
<1>3. CASE ~Chained(b)
  BY <1>3 DEF Chained, Holds, Actor, Alive
<1> QED
  BY <1>2, <1>3

(* What a save that runs writes next.                                      *)
LEMMA Renamed ==
    ASSUME TInv, NEW a \in Actor, RenameFile(a)
    PROVE  \E f \in File :
             /\ disk' = [disk EXCEPT ![f] = Stored(save[a].v, f)]
             /\ save[a] \in [kind : {"runtime", "bundle"}, done : 0..2, v : Content]
             /\ save[a].kind = "runtime" => f = "runtime"
             /\ f = "runtime" <=> save[a].done = 0
             /\ f = "journal" <=> save[a].done = 1
             /\ f = "model" <=> save[a].done = 2
<1>1. /\ save[a] \in [kind : {"runtime", "bundle"}, done : 0..3, v : Content]
      /\ save[a].done < Len(Files(a))
  BY DEF TInv, TypeOK, SaveOK, Saving, NoSave, RenameFile, BundleOrder
<1>2. CASE save[a].kind = "runtime"
  <2>1. Files(a) = <<"runtime">> /\ save[a].done = 0
    BY <1>1, <1>2 DEF Files
  <2>2. Files(a)[save[a].done + 1] = "runtime"
    BY <2>1
  <2> QED
    BY <1>1, <1>2, <2>1, <2>2 DEF RenameFile, File
<1>3. CASE save[a].kind = "bundle"
  <2>1. Files(a) = BundleOrder /\ Len(BundleOrder) = 3
    BY <1>3 DEF Files, BundleOrder
  <2>2. CASE save[a].done = 0
    BY <1>1, <1>3, <2>1, <2>2 DEF RenameFile, BundleOrder, File
  <2>3. CASE save[a].done = 1
    BY <1>1, <1>3, <2>1, <2>3 DEF RenameFile, BundleOrder, File
  <2>4. CASE save[a].done = 2
    BY <1>1, <1>3, <2>1, <2>4 DEF RenameFile, BundleOrder, File
  <2> QED
    BY <1>1, <2>1, <2>2, <2>3, <2>4
<1> QED
  BY <1>1, <1>2, <1>3

(* A rename replaces one file and leaves the others.                       *)
LEMMA StoredTyped ==
    ASSUME TInv, NEW f \in File, NEW c \in Content, disk' = [disk EXCEPT ![f] = Stored(c, f)]
    PROVE  /\ DiskOK' /\ disk' = [g \in File |-> disk'[g]]
           /\ disk'[f] = [st |-> "ok", v |-> c[f]]
           /\ \A g \in File : g # f => disk'[g] = disk[g]
           /\ f = "runtime" => disk'["runtime"].v = c.runtime
           /\ f = "journal" => disk'["journal"].v = c.journal
           /\ f = "model" => disk'["model"].v = c.model
<1>1. /\ disk'[f] = [st |-> "ok", v |-> c[f]] /\ disk' = [g \in File |-> disk'[g]]
      /\ \A g \in File : g # f => disk'[g] = disk[g]
  BY DEF Stored, TInv
<1>2. c[f] \in FileValue(f)
  BY DEF Content, FileValue, File
<1>3. DiskOK'
  BY <1>1, <1>2 DEF TInv, TypeOK, DiskOK
<1> QED
  BY <1>1, <1>3 DEF File

(* One rename of the save that runs keeps TInv.                            *)
LEMMA RenameKeepsTypes == ASSUME TInv, NEW a \in Actor, RenameFile(a) PROVE TInv'
<1> USE DEF TInv, TypeOK
<1>1. PICK f \in File :
         /\ disk' = [disk EXCEPT ![f] = Stored(save[a].v, f)]
         /\ save[a] \in [kind : {"runtime", "bundle"}, done : 0..2, v : Content]
         /\ save[a].kind = "runtime" => f = "runtime"
         /\ f = "runtime" <=> save[a].done = 0
         /\ f = "journal" <=> save[a].done = 1
         /\ f = "model" <=> save[a].done = 2
  BY Renamed
<1>2. /\ DiskOK' /\ disk' = [g \in File |-> disk'[g]]
      /\ \A g \in File : g # f => disk'[g] = disk[g]
      /\ f = "runtime" => disk'["runtime"].v = save[a].v.runtime
      /\ f = "journal" => disk'["journal"].v = save[a].v.journal
      /\ f = "model" => disk'["model"].v = save[a].v.model
  BY <1>1, StoredTyped
<1>3. /\ save' = [save EXCEPT ![a].done = save[a].done + 1]
      /\ save'[a] = [save[a] EXCEPT !.done = save[a].done + 1]
      /\ \A b \in Actor : b # a => save'[b] = save[b]
      /\ save'[a].kind = save[a].kind /\ save'[a].v = save[a].v
      /\ save'[a].done = save[a].done + 1
  BY <1>1 DEF RenameFile, SaveOK
<1>4. SaveOK'
  BY <1>1, <1>3 DEF SaveOK, Saving, BundleOrder
<1>5. queue' = queue /\ a = queue[1]
  BY DEF RenameFile, Runs
<1>6. QueueOK'
  BY <1>1, <1>3, <1>5 DEF QueueOK, Idle, NoSave
<1>7. QueuedOK'
  <2>1. \A b \in Actor : save'[b].kind = save[b].kind /\ (b # a => save'[b] = save[b])
    BY <1>3
  <2>2. \A i \in DOMAIN queue : i # 1 => queue[i] # a
    BY <1>5 DEF QueueOK, RenameFile, Runs
  <2>3. \A i \in DOMAIN queue : queue[i] \in Actor
    BY DEF QueueOK
  <2> QED
    BY <1>5, <2>1, <2>2, <2>3 DEF QueuedOK, Chained
<1>8. MemoryOK' /\ PhaseOK'
  BY <1>1 DEF RenameFile, MemoryOK, PhaseOK, bounds, Content, RuntimeFile
<1>9. PhasesOK'
  BY <1>3 DEF PhasesOK, RenameFile, Actor
<1>10. WrittenOK'
  <2>1. ASSUME NEW b \in Actor, save'[b].kind \in {"runtime", "bundle"}
        PROVE  /\ save'[b].kind = "runtime" => save'[b].done <= 1
               /\ save'[b].done >= 1 => disk'["runtime"].v = save'[b].v.runtime
               /\ save'[b].done >= 2 => disk'["journal"].v = save'[b].v.journal
               /\ save'[b].done >= 3 => disk'["model"].v = save'[b].v.model
    <3>1. CASE b = a
      BY <3>1, <2>1, <1>1, <1>2, <1>3 DEF WrittenOK, File
    <3>2. CASE b # a
      <4>1. save'[b] = save[b] /\ save[b].kind = "bundle" /\ save[b].done = 0
        BY <3>2, <2>1, <1>3, Behind DEF RenameFile
      <4> QED
        BY <4>1
    <3> QED
      BY <3>1, <3>2
  <2> QED
    BY <2>1 DEF WrittenOK
<1>11. KnownOK'
  <2>1. UNCHANGED <<mem, closing, backup, traded>>
    BY DEF RenameFile
  <2>2. \A b \in Actor : save'[b].kind = save[b].kind /\ (Holds(b) => save'[b].v = save[b].v)
    BY <1>3 DEF Holds
  <2>3. Holds(a)
    BY <1>1 DEF Holds
  <2>4. disk'["runtime"].v.open \cup disk'["journal"].v \subseteq traded
    BY <1>1, <1>2, <2>3 DEF KnownOK, File
  <2> QED
    BY <2>1, <2>2, <2>4 DEF KnownOK, Holds
<1> QED
  BY <1>2, <1>4, <1>6, <1>7, <1>8, <1>9, <1>10, <1>11

(* The restore writes the same files beside the chain.                     *)
LEMMA RestoreKeepsTypes == ASSUME TInv, RestoreFile PROVE TInv'
<1> USE DEF TInv, TypeOK
<1>1. /\ save["cycle"] \in [kind : {"restore"}, done : 0..2, v : Content]
      /\ "cycle" \in Actor
  BY DEF RestoreFile, SaveOK, Saving, NoSave, PhasesOK, BundleOrder, Actor
<1>2. PICK f \in File : disk' = [disk EXCEPT ![f] = Stored(save["cycle"].v, f)]
  <2>1. CASE save["cycle"].done = 0
    BY <2>1 DEF RestoreFile, BundleOrder, File
  <2>2. CASE save["cycle"].done = 1
    BY <2>2 DEF RestoreFile, BundleOrder, File
  <2>3. CASE save["cycle"].done = 2
    BY <2>3 DEF RestoreFile, BundleOrder, File
  <2> QED
    BY <1>1, <2>1, <2>2, <2>3
<1>3. /\ DiskOK' /\ disk' = [g \in File |-> disk'[g]]
      /\ \A g \in File : g # f => disk'[g] = disk[g]
      /\ f = "runtime" => disk'["runtime"].v = save["cycle"].v.runtime
      /\ f = "journal" => disk'["journal"].v = save["cycle"].v.journal
  BY <1>1, <1>2, StoredTyped
<1>4. /\ save'["cycle"] = [save["cycle"] EXCEPT !.done = save["cycle"].done + 1]
      /\ save'["operator"] = save["operator"]
      /\ save'["cycle"].kind = "restore" /\ save'["cycle"].v = save["cycle"].v
      /\ save["operator"].kind = "none"
  BY <1>1 DEF RestoreFile, SaveOK, Actor, PhasesOK
<1>5. SaveOK'
  BY <1>1, <1>4 DEF RestoreFile, SaveOK, Saving, BundleOrder
<1>6. QueueOK' /\ QueuedOK'
  <2>1. queue' = queue /\ \A i \in DOMAIN queue : FALSE
    BY <1>1, <1>4 DEF RestoreFile, QueuedOK, QueueOK, Chained, Actor
  <2> QED
    BY <1>4, <2>1 DEF QueueOK, QueuedOK, Chained, Actor
<1>7. MemoryOK' /\ PhaseOK' /\ PhasesOK'
  BY <1>4 DEF RestoreFile, MemoryOK, PhaseOK, PhasesOK, bounds, history
<1>8. WrittenOK'
  BY <1>4 DEF WrittenOK, Actor
<1>9. KnownOK'
  <2>1. disk'["runtime"].v.open \cup disk'["journal"].v \subseteq traded
    BY <1>1, <1>2, <1>3 DEF KnownOK, File, Holds, Actor
  <2> QED
    BY <1>1, <1>4, <2>1 DEF KnownOK, RestoreFile, history, Holds, Actor
<1> QED
  BY <1>3, <1>5, <1>6, <1>7, <1>8, <1>9

(* The files are loaded in a fixed order.                                  *)
LEMMA LoadOrderFiles == \A i \in DOMAIN LoadOrder : LoadOrder[i] \in File
<1>1. DOMAIN LoadOrder = 1..3
  BY DEF LoadOrder
<1>2. LoadOrder[1] \in File /\ LoadOrder[2] \in File /\ LoadOrder[3] \in File
  BY DEF LoadOrder, File
<1>3. \A i \in 1..3 : i = 1 \/ i = 2 \/ i = 3
  OBVIOUS
<1> QED
  BY <1>1, <1>2, <1>3

(* A quarantined file is a missing one, whose content is its default; one  *)
(* that could not be moved is as it was.                                   *)
LEMMA QuarantineKeepsTypes == ASSUME TInv, quarantineCorruptFile PROVE TInv'
<1> USE DEF TInv, TypeOK
<1>1. PICK f \in File : disk' = [disk EXCEPT ![f] = Absent(f)] \/ disk' = disk
  BY LoadOrderFiles DEF quarantineCorruptFile
<1>2. /\ disk' = [g \in File |-> disk'[g]] /\ disk'[f] \in {Absent(f), disk[f]}
      /\ \A g \in File : g # f => disk'[g] = disk[g]
  BY <1>1
<1>3. Contents(Nothing)[f] \in FileValue(f) /\ Contents(Nothing)["journal"] = {}
      /\ Contents(Nothing)["runtime"].open = {}
  <2>1. Nothing \in Memory
    BY PersistenceAssumption DEF Nothing, Memory
  <2>2. Contents(Nothing) \in Content
    BY <2>1, ContentsTyped
  <2>3. Contents(Nothing)[f] \in FileValue(f)
    BY <2>2 DEF Content, FileValue, File
  <2>4. Contents(Nothing)["journal"] = {} /\ Contents(Nothing)["runtime"].open = {}
    BY DEF Contents, Nothing
  <2> QED
    BY <2>3, <2>4
<1>4. DiskOK'
  BY <1>2, <1>3 DEF DiskOK, Absent
<1>5. UNCHANGED <<mem, closing, backup, queue, save, restored, bounds, history>>
      /\ phase = "down" /\ phase' = "quarantined"
  BY DEF quarantineCorruptFile, saving
<1>6. MemoryOK' /\ QueueOK' /\ SaveOK' /\ PhaseOK' /\ QueuedOK' /\ PhasesOK'
  BY <1>5 DEF MemoryOK, QueueOK, SaveOK, PhaseOK, QueuedOK, PhasesOK, Chained, Idle, bounds, history
<1>7. \A a \in Actor : save[a].kind = "none"
  BY <1>5 DEF PhasesOK, Actor
<1>8. WrittenOK'
  BY <1>5, <1>7 DEF WrittenOK
<1>9. KnownOK'
  <2>1. disk'["runtime"].v.open \cup disk'["journal"].v \subseteq traded
    BY <1>2, <1>3 DEF KnownOK, File, Absent
  <2> QED
    BY <1>5, <1>7, <2>1 DEF KnownOK, history, Holds
<1> QED
  BY <1>2, <1>4, <1>6, <1>8, <1>9

(* A runtime-only save takes the memory when its turn comes.               *)
LEMMA TakeKeepsTypes == ASSUME TInv, NEW a \in Actor, TakeRuntime(a) PROVE TInv'
<1> USE DEF TInv, TypeOK
<1>1. /\ save' = [save EXCEPT ![a] = [kind |-> "runtime", done |-> 0, v |-> Contents(mem)]]
      /\ save[a].kind = "waiting" /\ queue' = queue /\ a = queue[1]
      /\ UNCHANGED <<mem, closing, disk, backup, phase, restored, bounds, history>>
  BY DEF TakeRuntime, Runs
<1>2. /\ save'[a] = [kind |-> "runtime", done |-> 0, v |-> Contents(mem)]
      /\ \A b \in Actor : b # a => save'[b] = save[b]
  BY <1>1 DEF SaveOK
<1>3. Contents(mem) \in Content
  BY ContentsTyped DEF MemoryOK
<1>4. SaveOK'
  BY <1>1, <1>3 DEF SaveOK, Saving, BundleOrder
<1>5. QueueOK'
  BY <1>1, <1>2 DEF QueueOK, Idle, NoSave
<1>6. QueuedOK'
  <2>1. \A i \in DOMAIN queue : queue[i] \in Actor /\ (i # 1 => queue[i] # a)
    BY <1>1 DEF QueueOK, TakeRuntime, Runs
  <2> QED
    BY <1>1, <1>2, <2>1 DEF QueuedOK, Chained
<1>7. DiskOK' /\ MemoryOK' /\ PhaseOK'
  BY <1>1 DEF DiskOK, MemoryOK, PhaseOK, bounds, history
<1>8. PhasesOK'
  BY <1>1, <1>2 DEF PhasesOK, Actor
<1>9. WrittenOK'
  BY <1>1, <1>2 DEF WrittenOK
<1>10. KnownOK'
  <2>1. Contents(mem).runtime.open = mem.open /\ Contents(mem).journal = mem.booked
    BY DEF Contents
  <2> QED
    BY <1>1, <1>2, <2>1 DEF KnownOK, Holds, history
<1> QED
  BY <1>1, <1>4, <1>5, <1>6, <1>7, <1>8, <1>9, <1>10

(* A save that ends, one way or the other.                                 *)
LEMMA EndKeepsTypes == ASSUME TInv, NEW a \in Actor, SaveDone(a) \/ SaveFails(a) PROVE TInv'
<1> USE DEF TInv, TypeOK
<1>1. /\ save' = [save EXCEPT ![a] = NoSave] /\ queue' = Tail(queue) /\ Runs(a)
      /\ UNCHANGED <<mem, closing, disk, backup, restored, crashes, traded, recorded, damaged>>
      /\ phase = "booting" => phase' \in {"up", "down"}
      /\ phase # "booting" => phase' = phase
      /\ a \in DOMAIN save
  BY DEF SaveDone, SaveFails, bounds, SaveOK
<1>2. QueueOK' /\ SaveOK' /\ QueuedOK'
  BY <1>1, Dequeued
<1>3. save'[a] = NoSave /\ \A b \in Actor : b # a => save'[b] = save[b]
  BY <1>1
<1>4. DiskOK' /\ MemoryOK'
  BY <1>1 DEF DiskOK, MemoryOK
<1>5. PhaseOK'
  <2>1. CASE SaveDone(a)
    <3>1. save[a].v \in Content
      BY <2>1 DEF SaveDone, SaveOK, Saving, NoSave
    <3>2. Promised(save[a]) \in Content
      BY <3>1 DEF Promised, PhaseOK, Content, RuntimeFile
    <3> QED
      BY <2>1, <3>2 DEF SaveDone, PhaseOK, bounds
  <2>2. CASE SaveFails(a)
    BY <2>2, PersistenceAssumption DEF SaveFails, PhaseOK
  <2> QED
    BY <2>1, <2>2
<1>6. PhasesOK'
  <2>1. Chained(a)
    BY <1>1 DEF QueuedOK, Runs, QueueOK
  <2>2. CASE phase = "up"
    BY <1>1, <1>3, <2>2 DEF PhasesOK, Actor, NoSave
  <2>3. CASE phase # "up"
    <3>1. a = "cycle" /\ phase = "booting" /\ save["operator"].kind = "none"
      BY <2>1, <2>3 DEF PhasesOK, Chained, Actor, PhaseOK
    <3> QED
      BY <1>1, <1>3, <3>1 DEF PhasesOK, Actor, NoSave
  <2> QED
    BY <2>2, <2>3
<1>7. WrittenOK'
  BY <1>1, <1>3 DEF WrittenOK, NoSave
<1>8. KnownOK'
  BY <1>1, <1>3 DEF KnownOK, Holds, NoSave
<1> QED
  BY <1>1, <1>2, <1>4, <1>5, <1>6, <1>7, <1>8

(* A caller that has no save asks for one: what else the step changes, it  *)
(* changes in the memory and the phase.                                    *)
LEMMA EnqueueKeepsSaves ==
    ASSUME TInv, NEW a \in Actor, ~Chained(a), NEW s \in Saving,
           s.kind = "waiting" \/ (s.kind = "bundle" /\ s.done = 0), enqueue(a, s),
           s.kind = "bundle" => s.v.runtime.open \cup s.v.journal \subseteq traded,
           UNCHANGED <<disk, backup, history>>,
           mem'.open \cup mem'.booked \cup closing' \subseteq traded
    PROVE  /\ QueueOK' /\ SaveOK' /\ QueuedOK' /\ WrittenOK' /\ KnownOK' /\ DiskOK'
           /\ (disk = [f \in File |-> disk[f]])'
           /\ save'[a] = s /\ \A b \in Actor : b # a => save'[b] = save[b]
<1> USE DEF TInv, TypeOK
<1>1. QueueOK' /\ SaveOK' /\ QueuedOK'
  BY Enqueued
<1>2. save'[a] = s /\ \A b \in Actor : b # a => save'[b] = save[b]
  BY DEF enqueue, SaveOK
<1>3. WrittenOK'
  BY <1>2 DEF WrittenOK
<1>4. KnownOK'
  BY <1>2 DEF KnownOK, Holds, history
<1>5. DiskOK' /\ (disk = [f \in File |-> disk[f]])'
  BY DEF DiskOK
<1> QED
  BY <1>1, <1>2, <1>3, <1>4, <1>5

(* What the cycle does between its saves, and the saves it asks for.       *)
LEMMA CycleKeepsTypes ==
    ASSUME TInv,
           \/ \E t \in Trade : OpenPosition(t) \/ exitPosition(t)
           \/ BookTrade \/ FlushLedger \/ persist \/ maybeBackup
    PROVE  TInv'
<1> USE DEF TInv, TypeOK
<1>1. CycleFree => phase = "up" /\ "cycle" \in Actor /\ ~Chained("cycle")
                   /\ save["cycle"].kind = "none"
  BY DEF CycleFree, Idle, Chained, NoSave, Actor
<1>2. /\ [kind |-> "waiting"] \in Saving
      /\ [kind |-> "bundle", done |-> 0, v |-> Contents(mem)] \in Saving
      /\ Contents(mem).runtime.open = mem.open /\ Contents(mem).journal = mem.booked
  BY ContentsTyped DEF Saving, MemoryOK, BundleOrder, Contents
<1>3. ASSUME NEW t \in Trade, OpenPosition(t) PROVE TInv'
  <2>1. UNCHANGED <<closing, disk, backup, saving, phase, restored, bounds, recorded, acked,
                    damaged, torn>>
        /\ mem' = [mem EXCEPT !.open = mem.open \cup {t}] /\ traded' = traded \cup {t}
    BY <1>3 DEF OpenPosition
  <2>2. MemoryOK' /\ DiskOK' /\ PhaseOK' /\ PhasesOK'
    BY <2>1 DEF MemoryOK, Memory, DiskOK, PhaseOK, PhasesOK, bounds, saving
  <2>3. QueueOK' /\ SaveOK' /\ QueuedOK' /\ WrittenOK'
    BY <2>1 DEF QueueOK, SaveOK, QueuedOK, WrittenOK, Chained, Idle, saving
  <2>4. KnownOK'
    BY <2>1 DEF KnownOK, Holds, saving, MemoryOK, Memory
  <2> QED
    BY <2>1, <2>2, <2>3, <2>4
<1>4. ASSUME NEW t \in Trade, exitPosition(t) PROVE TInv'
  <2>1. /\ UNCHANGED <<disk, backup, phase, restored, bounds, history>>
        /\ mem' = [mem EXCEPT !.open = mem.open \ {t}] /\ closing' = {t} /\ t \in mem.open
        /\ CycleFree
    BY <1>4 DEF exitPosition
  <2>2. MemoryOK' /\ DiskOK' /\ PhaseOK'
    BY <2>1 DEF MemoryOK, Memory, DiskOK, PhaseOK, bounds, history
  <2>3. mem'.open \cup mem'.booked \cup closing' \subseteq traded
    BY <2>1 DEF KnownOK, MemoryOK, Memory
  <2>4. CASE enqueue("cycle", [kind |-> "waiting"])
    <3>1. /\ QueueOK' /\ SaveOK' /\ QueuedOK' /\ WrittenOK' /\ KnownOK'
          /\ (disk = [f \in File |-> disk[f]])'
          /\ save'["cycle"] = [kind |-> "waiting"]
          /\ \A b \in Actor : b # "cycle" => save'[b] = save[b]
      BY <2>1, <2>3, <2>4, <1>1, <1>2, EnqueueKeepsSaves
    <3>2. PhasesOK'
      BY <2>1, <3>1, <1>1 DEF PhasesOK, Actor
    <3> QED
      BY <2>2, <3>1, <3>2
  <2>5. CASE UNCHANGED saving
    <3>1. QueueOK' /\ SaveOK' /\ QueuedOK' /\ WrittenOK' /\ KnownOK'
      BY <2>1, <2>3, <2>5 DEF QueueOK, SaveOK, QueuedOK, WrittenOK, KnownOK, Chained, Idle,
                              Holds, saving, history
    <3>2. PhasesOK'
      BY <2>1, <2>5, <1>1 DEF PhasesOK, saving
    <3> QED
      BY <2>1, <2>2, <3>1, <3>2
  <2> QED
    BY <1>4, <2>4, <2>5 DEF exitPosition, persistRuntimeOnly
<1>5. ASSUME BookTrade PROVE TInv'
  <2>1. PICK learned \in {closing, {}} :
          /\ mem' = [mem EXCEPT !.booked = mem.booked \cup closing,
                                !.learned = mem.learned \cup learned]
          /\ closing' = {}
          /\ UNCHANGED <<disk, backup, saving, phase, restored, bounds, history>>
    BY <1>5 DEF BookTrade
  <2>2. mem' \in Memory /\ mem'.open = mem.open /\ mem'.booked = mem.booked \cup closing
    BY <2>1 DEF MemoryOK, Memory
  <2>3. MemoryOK' /\ DiskOK' /\ PhaseOK' /\ PhasesOK'
    BY <2>1, <2>2 DEF MemoryOK, DiskOK, PhaseOK, PhasesOK, bounds, saving, history
  <2>4. QueueOK' /\ SaveOK' /\ QueuedOK' /\ WrittenOK'
    BY <2>1 DEF QueueOK, SaveOK, QueuedOK, WrittenOK, Chained, Idle, saving
  <2>5. KnownOK'
    BY <2>1, <2>2 DEF KnownOK, Holds, saving, history
  <2> QED
    BY <2>1, <2>3, <2>4, <2>5
<1>6. ASSUME FlushLedger \/ persist PROVE TInv'
  <2>1. PICK s \in Saving :
          /\ s = [kind |-> "waiting"] \/ s = [kind |-> "bundle", done |-> 0, v |-> Contents(mem)]
          /\ enqueue("cycle", s)
    BY <1>6, <1>2 DEF FlushLedger, persist, persistRuntimeOnly, persistSnapshotBundle
  <2>2. UNCHANGED <<mem, closing, disk, backup, phase, restored, bounds, history>> /\ CycleFree
    BY <1>6 DEF FlushLedger, persist
  <2>3. /\ s.kind = "waiting" \/ (s.kind = "bundle" /\ s.done = 0)
        /\ s.kind = "bundle" => s.v.runtime.open \cup s.v.journal \subseteq traded
    BY <2>1, <1>2 DEF KnownOK
  <2>4. mem'.open \cup mem'.booked \cup closing' \subseteq traded
    BY <2>2 DEF KnownOK
  <2>5. /\ QueueOK' /\ SaveOK' /\ QueuedOK' /\ WrittenOK' /\ KnownOK'
        /\ (disk = [f \in File |-> disk[f]])'
        /\ save'["cycle"] = s /\ \A b \in Actor : b # "cycle" => save'[b] = save[b]
    BY <2>1, <2>2, <2>3, <2>4, <1>1, EnqueueKeepsSaves
  <2>6. MemoryOK' /\ DiskOK' /\ PhaseOK'
    BY <2>2 DEF MemoryOK, DiskOK, PhaseOK, bounds, history
  <2>7. PhasesOK'
    BY <2>2, <2>3, <2>5, <1>1 DEF PhasesOK, Actor
  <2> QED
    BY <2>5, <2>6, <2>7
<1>7. ASSUME maybeBackup PROVE TInv'
  <2>1. /\ backup' = mem
        /\ UNCHANGED <<mem, closing, disk, saving, phase, restored, bounds, history>>
    BY <1>7 DEF maybeBackup
  <2>2. MemoryOK' /\ DiskOK' /\ PhaseOK' /\ PhasesOK'
    BY <2>1 DEF MemoryOK, DiskOK, PhaseOK, PhasesOK, bounds, saving, history
  <2>3. QueueOK' /\ SaveOK' /\ QueuedOK' /\ WrittenOK' /\ KnownOK'
    BY <2>1 DEF QueueOK, SaveOK, QueuedOK, WrittenOK, KnownOK, Chained, Idle, Holds, saving,
                history
  <2> QED
    BY <2>1, <2>2, <2>3
<1> QED
  BY <1>3, <1>4, <1>5, <1>6, <1>7

(* An acknowledged alert, saved by the operator's request.                 *)
LEMMA OperatorKeepsTypes == ASSUME TInv, acknowledgeAlert PROVE TInv'
<1> USE DEF TInv, TypeOK
<1>1. /\ phase = "up" /\ Idle("operator") /\ mem.acks < MaxAcks
      /\ mem' = [mem EXCEPT !.acks = mem.acks + 1]
      /\ enqueue("operator", [kind |-> "waiting"])
      /\ UNCHANGED <<closing, disk, backup, phase, restored, bounds, history>>
  BY DEF acknowledgeAlert, persistRuntimeOnly
<1>2. /\ [kind |-> "waiting"] \in Saving /\ "operator" \in Actor /\ ~Chained("operator")
      /\ "cycle" \in Actor
  BY <1>1 DEF Saving, Actor, Chained, Idle, NoSave
<1>3. MemoryOK' /\ mem'.open = mem.open /\ mem'.booked = mem.booked
  BY <1>1, PersistenceAssumption DEF MemoryOK, Memory
<1>4. /\ QueueOK' /\ SaveOK' /\ QueuedOK' /\ WrittenOK' /\ KnownOK'
      /\ (disk = [f \in File |-> disk[f]])'
      /\ save'["operator"] = [kind |-> "waiting"]
      /\ \A b \in Actor : b # "operator" => save'[b] = save[b]
  <2>1. mem'.open \cup mem'.booked \cup closing' \subseteq traded
    BY <1>1, <1>3 DEF KnownOK
  <2> QED
    BY <1>1, <1>2, <2>1, EnqueueKeepsSaves
<1>5. DiskOK' /\ PhaseOK'
  BY <1>1 DEF DiskOK, PhaseOK, bounds, history
<1>6. PhasesOK'
  BY <1>1, <1>2, <1>4 DEF PhasesOK
<1> QED
  BY <1>3, <1>4, <1>5, <1>6

(* A crash empties the memory and the chain; at most one file is damaged.  *)
LEMMA CrashKeepsTypes == ASSUME TInv, Crash PROVE TInv'
<1> USE DEF TInv, TypeOK
<1>1. PICK hurt \in {{}} \cup {{f} : f \in {g \in File : disk[g].st = "ok"}} :
        disk' = [f \in File |-> IF f \in hurt THEN [disk[f] EXCEPT !.st = Damaged] ELSE disk[f]]
        /\ damaged' = (damaged \/ hurt # {})
  BY DEF Crash
<1>2. /\ mem' = Nothing /\ closing' = {} /\ queue' = <<>> /\ save' = [a \in Actor |-> NoSave]
      /\ phase' = "down" /\ crashes' = crashes + 1 /\ crashes < MaxCrashes
      /\ torn' = (torn \/ (restored /\ phase \in {"restoring", "booting"}))
      /\ UNCHANGED <<backup, restored, failures, traded, recorded, acked>>
  BY DEF Crash
<1>3. MemoryOK'
  BY <1>2, PersistenceAssumption DEF MemoryOK, Memory, Nothing
<1>4. DiskOK' /\ \A f \in File : disk'[f].v = disk[f].v
  BY <1>1 DEF DiskOK, Damaged
<1>5. QueueOK' /\ SaveOK' /\ QueuedOK'
  BY <1>2 DEF QueueOK, SaveOK, QueuedOK, Chained, Idle, NoSave
<1>6. PhaseOK'
  BY <1>1, <1>2, PersistenceAssumption DEF PhaseOK
<1>7. \A a \in Actor : save'[a].kind = "none"
  BY <1>2 DEF NoSave
<1>8. PhasesOK' /\ WrittenOK'
  BY <1>2, <1>7 DEF PhasesOK, WrittenOK, Actor
<1>9. KnownOK'
  BY <1>2, <1>4, <1>7 DEF KnownOK, Holds, Nothing, File
<1> QED
  BY <1>1, <1>3, <1>4, <1>5, <1>6, <1>8, <1>9

(* A start from readable files.                                            *)
LEMMA LoadKeepsTypes == ASSUME TInv, LoadState PROVE TInv'
<1> USE DEF TInv, TypeOK
<1>1. /\ phase = "down" /\ mem' = Loaded /\ phase' = "booting" /\ restored' = FALSE
      /\ enqueue("cycle", [kind |-> "bundle", done |-> 0, v |-> Contents(Loaded)])
      /\ UNCHANGED <<closing, disk, backup, bounds, history>>
  BY DEF LoadState, persistSnapshotBundle
<1>2. /\ Loaded \in Memory /\ Loaded.open = disk["runtime"].v.open
      /\ Loaded.booked = disk["journal"].v
  BY DEF Loaded, Memory, DiskOK, File, FileValue, RuntimeFile
<1>3. /\ [kind |-> "bundle", done |-> 0, v |-> Contents(Loaded)] \in Saving
      /\ Contents(Loaded).runtime.open = Loaded.open /\ Contents(Loaded).journal = Loaded.booked
  BY <1>2, ContentsTyped DEF Saving, BundleOrder, Contents
<1>4. /\ "cycle" \in Actor /\ ~Chained("cycle") /\ closing = {}
      /\ save["operator"].kind = "none"
  BY <1>1 DEF PhasesOK, Chained, Actor
<1>5. mem'.open \cup mem'.booked \cup closing' \subseteq traded
  BY <1>1, <1>2, <1>4 DEF KnownOK
<1>6. /\ QueueOK' /\ SaveOK' /\ QueuedOK' /\ WrittenOK' /\ KnownOK' /\ DiskOK'
      /\ (disk = [f \in File |-> disk[f]])'
      /\ save'["cycle"] = [kind |-> "bundle", done |-> 0, v |-> Contents(Loaded)]
      /\ \A b \in Actor : b # "cycle" => save'[b] = save[b]
  BY <1>1, <1>2, <1>3, <1>4, <1>5, EnqueueKeepsSaves
<1>7. MemoryOK' /\ PhaseOK'
  BY <1>1, <1>2 DEF MemoryOK, PhaseOK, bounds, history
<1>8. PhasesOK'
  BY <1>1, <1>4, <1>6 DEF PhasesOK, Actor
<1> QED
  BY <1>6, <1>7, <1>8

(* A start from the backup.                                                *)
LEMMA BackupKeepsTypes == ASSUME TInv, RestoreBackup PROVE TInv'
<1> USE DEF TInv, TypeOK
<1> DEFINE s == [kind |-> "restore", done |-> 0, v |-> Contents(backup)]
<1>1. /\ phase = "quarantined" /\ mem' = backup /\ phase' = "restoring" /\ restored' = TRUE
      /\ save' = [save EXCEPT !["cycle"] = s]
      /\ recorded' = backup.open /\ acked' = Contents(backup) /\ backup # NoBackup
      /\ UNCHANGED <<closing, disk, backup, queue, bounds, traded, damaged, torn>>
  BY DEF RestoreBackup
<1>2. backup \in Memory /\ backup.open \subseteq Trade
  BY <1>1 DEF MemoryOK, Memory
<1>3. Contents(backup) \in Content
  BY <1>2, ContentsTyped
<1>4. s \in Saving
  BY <1>3 DEF Saving, BundleOrder
<1>5. /\ "cycle" \in Actor /\ save["cycle"].kind = "none" /\ save["operator"].kind = "none"
      /\ closing = {} /\ \A b \in Actor : ~Chained(b)
  BY <1>1 DEF PhasesOK, Chained, Actor
<1>6. SaveOK' /\ save'["cycle"] = s /\ save'["operator"] = save["operator"]
  BY <1>1, <1>4, <1>5 DEF SaveOK, Actor
<1> HIDE DEF s
<1>7. s.kind = "restore" /\ s.v = Contents(backup)
  BY DEF s
<1>8. QueueOK' /\ QueuedOK'
  <2>1. queue' = queue /\ \A i \in DOMAIN queue : FALSE
    BY <1>1, <1>5 DEF QueuedOK, QueueOK
  <2> QED
    BY <1>6, <1>7, <2>1, <1>5 DEF QueueOK, QueuedOK, Chained, Actor
<1>9. MemoryOK' /\ DiskOK' /\ (disk = [f \in File |-> disk[f]])'
  BY <1>1, <1>2 DEF MemoryOK, DiskOK
<1>10. PhaseOK'
  BY <1>1, <1>2, <1>3 DEF PhaseOK, bounds
<1>11. PhasesOK' /\ WrittenOK'
  BY <1>1, <1>5, <1>6, <1>7 DEF PhasesOK, WrittenOK, Actor
<1>12. KnownOK'
  <2>1. s.v.runtime.open \cup s.v.journal \subseteq traded
    BY <1>7 DEF KnownOK, Contents
  <2> QED
    BY <1>1, <1>5, <1>6, <2>1 DEF KnownOK, Holds, Actor
<1> QED
  BY <1>6, <1>8, <1>9, <1>10, <1>11, <1>12

(* The end of a restore, with or without an error.                         *)
LEMMA RestoredKeepsTypes == ASSUME TInv, RestoreDone PROVE TInv'
<1> USE DEF TInv, TypeOK
<1>1. /\ phase = "restoring" /\ phase' = "booting"
      /\ failures' = failures + (IF save["cycle"].done < Len(BundleOrder) THEN 1 ELSE 0)
      /\ save["cycle"].done < Len(BundleOrder) => failures < MaxFailures
      /\ enqueue("cycle", [kind |-> "bundle", done |-> 0, v |-> Contents(mem)])
      /\ UNCHANGED <<mem, closing, disk, backup, restored, crashes, history>>
  BY DEF RestoreDone, persistSnapshotBundle
<1>2. /\ [kind |-> "bundle", done |-> 0, v |-> Contents(mem)] \in Saving
      /\ Contents(mem).runtime.open = mem.open /\ Contents(mem).journal = mem.booked
  BY ContentsTyped DEF Saving, BundleOrder, Contents, MemoryOK
<1>3. /\ "cycle" \in Actor /\ ~Chained("cycle") /\ save["operator"].kind = "none"
      /\ closing = {}
  BY <1>1 DEF PhasesOK, Chained, Actor
<1>4. mem'.open \cup mem'.booked \cup closing' \subseteq traded
  BY <1>1 DEF KnownOK
<1>5. /\ QueueOK' /\ SaveOK' /\ QueuedOK' /\ WrittenOK' /\ KnownOK' /\ DiskOK'
      /\ (disk = [f \in File |-> disk[f]])'
      /\ save'["cycle"] = [kind |-> "bundle", done |-> 0, v |-> Contents(mem)]
      /\ \A b \in Actor : b # "cycle" => save'[b] = save[b]
  BY <1>1, <1>2, <1>3, <1>4, EnqueueKeepsSaves DEF KnownOK
<1>6. MemoryOK' /\ PhaseOK'
  BY <1>1, PersistenceAssumption DEF MemoryOK, PhaseOK, history
<1>7. PhasesOK'
  BY <1>1, <1>3, <1>5 DEF PhasesOK, Actor
<1> QED
  BY <1>5, <1>6, <1>7

(* Nothing is on disk before the first start.                              *)
LEMMA TypesInit == Init => TInv
<1> SUFFICES ASSUME Init PROVE TInv
  OBVIOUS
<1> USE DEF Init
<1>1. Nothing \in Memory
  BY PersistenceAssumption DEF Nothing, Memory
<1>2. Contents(Nothing) \in Content /\ Contents(Nothing).runtime.open = {}
      /\ Contents(Nothing).journal = {}
  BY <1>1, ContentsTyped DEF Contents, Nothing
<1>3. MemoryOK /\ PhaseOK
  <2>1. MemoryOK
    BY <1>1 DEF MemoryOK
  <2>2. crashes \in 0..MaxCrashes /\ failures \in 0..MaxFailures
    BY PersistenceAssumption
  <2>3. PhaseOK
    BY <1>2, <2>2 DEF PhaseOK
  <2> QED
    BY <2>1, <2>3
<1>4. DiskOK /\ disk = [f \in File |-> disk[f]]
  <2>1. \A f \in File : Contents(Nothing)[f] \in FileValue(f)
    BY <1>2 DEF Content, FileValue, File
  <2> QED
    BY <2>1 DEF DiskOK, Absent
<1>5. \A a \in Actor : save[a] = NoSave /\ save[a].kind = "none"
  BY DEF NoSave
<1>6. QueueOK /\ SaveOK /\ QueuedOK
  BY <1>5 DEF QueueOK, SaveOK, QueuedOK, Chained
<1>7. PhasesOK /\ WrittenOK
  BY <1>5 DEF PhasesOK, WrittenOK, Actor
<1>8. KnownOK
  BY <1>2, <1>5 DEF KnownOK, Holds, Nothing, NoBackup, Absent, File
<1> QED
  BY <1>3, <1>4, <1>6, <1>7, <1>8 DEF TInv, TypeOK

(* TInv is inductive.                                                      *)
LEMMA TypesStep == TInv /\ [Next]_vars => TInv'
<1> SUFFICES ASSUME TInv, [Next]_vars PROVE TInv'
  OBVIOUS
<1>1. ASSUME NEW a \in Actor, TakeRuntime(a) PROVE TInv'
  BY <1>1, TakeKeepsTypes
<1>2. ASSUME NEW a \in Actor, RenameFile(a) PROVE TInv'
  BY <1>2, RenameKeepsTypes
<1>3. ASSUME NEW a \in Actor, SaveDone(a) \/ SaveFails(a) PROVE TInv'
  BY <1>3, EndKeepsTypes
<1>4. ASSUME \/ \E t \in Trade : OpenPosition(t) \/ exitPosition(t)
             \/ BookTrade \/ FlushLedger \/ persist \/ maybeBackup
      PROVE  TInv'
  BY <1>4, CycleKeepsTypes
<1>5. CASE acknowledgeAlert
  BY <1>5, OperatorKeepsTypes
<1>6. CASE Crash
  BY <1>6, CrashKeepsTypes
<1>7. CASE LoadState
  BY <1>7, LoadKeepsTypes
<1>8. CASE quarantineCorruptFile
  BY <1>8, QuarantineKeepsTypes
<1>9. CASE RestoreBackup
  BY <1>9, BackupKeepsTypes
<1>10. CASE NothingToRestore
  <2>1. /\ UNCHANGED <<mem, closing, disk, backup, queue, save, restored, bounds, history>>
        /\ phase = "quarantined" /\ phase' = "down"
    BY <1>10 DEF NothingToRestore, saving
  <2> QED
    BY <2>1 DEF TInv, TypeOK, MemoryOK, DiskOK, QueueOK, SaveOK, PhaseOK, QueuedOK, PhasesOK,
                WrittenOK, KnownOK, Holds, Chained, Idle, bounds, history
<1>11. CASE RestoreFile
  BY <1>11, RestoreKeepsTypes
<1>12. CASE RestoreDone
  BY <1>12, RestoredKeepsTypes
<1>13. CASE UNCHANGED vars
  BY <1>13 DEF vars, saving, bounds, history, TInv, TypeOK, MemoryOK, DiskOK, QueueOK, SaveOK,
               PhaseOK, QueuedOK, PhasesOK, WrittenOK, KnownOK, Holds, Chained, Idle
<1> QED
  BY <1>1, <1>2, <1>3, <1>4, <1>5, <1>6, <1>7, <1>8, <1>9, <1>10, <1>11, <1>12, <1>13
     DEF Next, SaveStep, InitStep

(* TInv holds throughout.                                                  *)
LEMMA TypesInvariant == Spec => []TInv
  BY TypesInit, TypesStep, PTL DEF Spec

(* Every variable keeps its shape, for any finite set of trades and any    *)
(* number of changes, crashes and failing writes; no caller is queued      *)
(* twice (PersistenceCoordinator.enqueue).                                 *)
THEOREM TypeCorrect == Spec => []TypeOK
<1>1. TInv => TypeOK
  BY DEF TInv
<1> QED
  BY <1>1, TypesInvariant, PTL

-----------------------------------------------------------------------------
(* Before the first start nothing is open or booked.                       *)
LEMMA DisjointInit == Init => DInv
<1> SUFFICES ASSUME Init PROVE DInv
  OBVIOUS
<1>1. \A a \in Actor : ~Holds(a)
  BY DEF Init, Holds, NoSave
<1>2. disk["runtime"].v.open = {} /\ disk["journal"].v = {}
  BY DEF Init, Nothing, Contents, Absent, File
<1>3. mem.open = {} /\ mem.booked = {} /\ closing = {} /\ backup.open = {}
  BY DEF Init, Nothing, NoBackup
<1> QED
  BY <1>1, <1>2, <1>3 DEF DInv

(* Each rename of a bundle leaves files that agree: runtime.json first.    *)
LEMMA RenameKeepsDisjoint ==
    ASSUME TInv, DInv, NEW a \in Actor, RenameFile(a), ~torn' PROVE DInv'
<1> USE DEF TInv, TypeOK
<1>1. PICK f \in File :
         /\ disk' = [disk EXCEPT ![f] = Stored(save[a].v, f)]
         /\ save[a] \in [kind : {"runtime", "bundle"}, done : 0..2, v : Content]
         /\ save[a].kind = "runtime" => f = "runtime"
         /\ f = "runtime" <=> save[a].done = 0
         /\ f = "journal" <=> save[a].done = 1
         /\ f = "model" <=> save[a].done = 2
  BY Renamed
<1>2. /\ \A g \in File : g # f => disk'[g] = disk[g]
      /\ f = "runtime" => disk'["runtime"].v = save[a].v.runtime
      /\ f = "journal" => disk'["journal"].v = save[a].v.journal
  BY <1>1, StoredTyped
<1>3. /\ UNCHANGED <<mem, closing, backup, phase, restored, torn>> /\ Runs(a)
      /\ \A b \in Actor : save'[b].kind = save[b].kind /\ (Holds(b) => save'[b].v = save[b].v)
  BY <1>1 DEF RenameFile, SaveOK, Holds
<1>4. Holds(a) /\ Chained(a)
  BY <1>1 DEF Holds, Chained
<1>5. Alive
  <2>1. a \in Actor /\ save[a].kind \in {"runtime", "bundle"}
    BY <1>1
  <2> QED
    BY <2>1 DEF PhasesOK, Alive, Actor, PhaseOK
<1>6. ASSUME Settled PROVE disk'["runtime"].v.open \cap disk'["journal"].v = {}
  <2>1. CASE f = "runtime"
    BY <1>1, <1>2, <1>3, <1>4, <1>5, <1>6, <2>1 DEF DInv, File
  <2>2. CASE f = "journal"
    <3>1. disk["runtime"].v = save[a].v.runtime
      BY <1>1, <2>2 DEF WrittenOK
    <3> QED
      BY <1>1, <1>2, <1>3, <1>4, <2>2, <3>1 DEF DInv, File
  <2>3. CASE f = "model"
    BY <1>1, <1>2, <1>3, <1>6, <2>3 DEF DInv, File
  <2> QED
    BY <2>1, <2>2, <2>3 DEF File
<1>7. ASSUME Settled
      PROVE  /\ disk'["journal"].v \subseteq mem.booked
             /\ \A b \in Actor : Holds(b) => disk'["journal"].v \subseteq save[b].v.journal
  <2>1. CASE f = "journal"
    <3>1. \A b \in Actor : Holds(b) => b = a
      BY <1>1, <1>3, <1>5, <2>1, Behind
    <3> QED
      BY <1>2, <1>3, <1>4, <1>5, <2>1, <3>1 DEF DInv
  <2>2. CASE f # "journal"
    BY <1>2, <1>3, <1>5, <1>7, <2>2 DEF DInv, File
  <2> QED
    BY <2>1, <2>2
<1>8. \A b \in Actor : Holds(b)' => Holds(b) /\ save'[b].v = save[b].v
  BY <1>3 DEF Holds
<1>9. /\ mem'.open \cap mem'.booked = {}
      /\ closing' \cap (mem'.open \cup mem'.booked) = {}
      /\ backup'.open \cap backup'.booked = {}
      /\ \A b \in Actor : Holds(b)' => save'[b].v.runtime.open \cap save'[b].v.journal = {}
      /\ Alive' => \A b \in Actor : Holds(b)' => save'[b].v.journal \subseteq mem'.booked
  BY <1>3, <1>8 DEF DInv, Alive
<1>10. (Settled' <=> Settled) /\ Alive'
  BY <1>3, <1>5 DEF Settled, Alive
<1> QED
  BY <1>3, <1>6, <1>7, <1>8, <1>9, <1>10 DEF DInv

(* The save that ends a restored start leaves files that agree.            *)
LEMMA EndKeepsDisjoint ==
    ASSUME TInv, DInv, NEW a \in Actor, SaveDone(a) \/ SaveFails(a), ~torn' PROVE DInv'
<1> USE DEF TInv, TypeOK
<1>1. /\ save' = [save EXCEPT ![a] = NoSave] /\ Runs(a)
      /\ UNCHANGED <<mem, closing, disk, backup, restored>>
      /\ phase # "booting" => phase' = phase
      /\ a \in DOMAIN save
  BY DEF SaveDone, SaveFails, bounds, SaveOK
<1>0. ~torn
  BY DEF SaveDone, SaveFails, PhaseOK
<1>2. \A b \in Actor : Holds(b)' => Holds(b) /\ save'[b] = save[b] /\ b # a
  BY <1>1 DEF Holds, NoSave
<1>3. /\ mem'.open \cap mem'.booked = {}
      /\ closing' \cap (mem'.open \cup mem'.booked) = {}
      /\ backup'.open \cap backup'.booked = {}
      /\ \A b \in Actor : Holds(b)' => save'[b].v.runtime.open \cap save'[b].v.journal = {}
  BY <1>0, <1>1, <1>2 DEF DInv
<1>4. Chained(a)
  BY <1>1 DEF QueuedOK, Runs, QueueOK
<1>5. CASE phase # "booting"
  BY <1>0, <1>1, <1>2, <1>3, <1>5 DEF DInv, Alive, Settled
<1>6. CASE phase = "booting" /\ ~restored
  <2>1. Settled /\ Settled' /\ Alive
    BY <1>1, <1>6 DEF Settled, Alive
  <2> QED
    BY <1>0, <1>1, <1>2, <1>3, <2>1 DEF DInv
<1>7. CASE phase = "booting" /\ restored
  <2>1. SaveDone(a) /\ phase' = "up"
    BY <1>7 DEF SaveDone, SaveFails
  <2>2. a = "cycle" /\ save[a].kind = "bundle"
    BY <1>4, <1>7 DEF PhasesOK, Chained, Actor
  <2>3. save[a].done = 3 /\ Holds(a)
    BY <2>1, <2>2 DEF SaveDone, Files, BundleOrder, Holds
  <2>4. disk["runtime"].v = save[a].v.runtime /\ disk["journal"].v = save[a].v.journal
    BY <2>2, <2>3 DEF WrittenOK
  <2>5. \A b \in Actor : ~Holds(b)'
    BY <1>2, <1>7, <2>2 DEF PhasesOK, Actor, Holds
  <2>6. Alive
    BY <1>7 DEF Alive
  <2> QED
    BY <1>0, <1>1, <1>3, <2>3, <2>4, <2>5, <2>6 DEF DInv
<1> QED
  BY <1>5, <1>6, <1>7

(* A runtime-only save takes a memory that agrees with the journal.        *)
LEMMA TakeKeepsDisjoint ==
    ASSUME TInv, DInv, NEW a \in Actor, TakeRuntime(a), ~torn' PROVE DInv'
<1> USE DEF TInv, TypeOK
<1>1. /\ save'[a] = [kind |-> "runtime", done |-> 0, v |-> Contents(mem)]
      /\ \A b \in Actor : b # a => save'[b] = save[b]
      /\ UNCHANGED <<mem, closing, disk, backup, phase, restored, torn>>
  BY DEF TakeRuntime, SaveOK, history
<1>2. Contents(mem).runtime.open = mem.open /\ Contents(mem).journal = mem.booked
  BY DEF Contents
<1>3. ASSUME NEW b \in Actor, Holds(b)'
      PROVE  /\ save'[b].v.runtime.open \cap save'[b].v.journal = {}
             /\ Alive => save'[b].v.journal \subseteq mem.booked
             /\ Settled /\ Alive => disk["journal"].v \subseteq save'[b].v.journal
  <2>1. CASE b = a
    BY <1>1, <1>2, <2>1 DEF DInv
  <2>2. CASE b # a
    BY <1>1, <1>3, <2>2 DEF DInv, Holds
  <2> QED
    BY <2>1, <2>2
<1> QED
  BY <1>1, <1>3 DEF DInv, Alive, Settled

(* A step of the cycle or the operator: the memory changes, and the bundle *)
(* that may be enqueued is the memory's.                                   *)
LEMMA UpKeepsDisjoint ==
    ASSUME TInv, DInv, ~torn, ~torn', phase = "up", UNCHANGED <<disk, phase, restored>>,
           backup' \in {backup, mem}, mem.booked \subseteq mem'.booked,
           mem'.open \cap mem'.booked = {}, closing' \cap (mem'.open \cup mem'.booked) = {},
           \A b \in Actor : Holds(b)' => \/ Holds(b) /\ save'[b] = save[b]
                                         \/ save'[b].v = Contents(mem)
    PROVE  DInv'
<1>1. Contents(mem).runtime.open = mem.open /\ Contents(mem).journal = mem.booked
  BY DEF Contents
<1>2. Alive /\ Settled /\ Alive' /\ Settled'
  BY DEF Alive, Settled
<1>3. backup'.open \cap backup'.booked = {}
  BY DEF DInv
<1>4. /\ disk["runtime"].v.open \cap disk["journal"].v = {}
      /\ disk["journal"].v \subseteq mem.booked
  BY <1>2 DEF DInv
<1>5. ASSUME NEW b \in Actor, Holds(b)'
      PROVE  /\ save'[b].v.runtime.open \cap save'[b].v.journal = {}
             /\ save'[b].v.journal \subseteq mem'.booked
             /\ disk["journal"].v \subseteq save'[b].v.journal
  BY <1>1, <1>2, <1>4, <1>5 DEF DInv
<1> QED
  BY <1>3, <1>4, <1>5 DEF DInv

(* A trade is out of the positions before it is in the journal.            *)
LEMMA CycleKeepsDisjoint ==
    ASSUME TInv, DInv, ~torn',
           \/ \E t \in Trade : OpenPosition(t) \/ exitPosition(t)
           \/ BookTrade \/ FlushLedger \/ persist \/ maybeBackup \/ acknowledgeAlert
    PROVE  DInv'
<1> USE DEF TInv, TypeOK
<1>1. UNCHANGED <<disk, phase, restored, torn>> /\ phase = "up"
  BY DEF OpenPosition, exitPosition, BookTrade, FlushLedger, persist, maybeBackup,
         acknowledgeAlert, history, CycleFree
<1>2. ~torn
  BY <1>1
<1>3. /\ mem.open \cap mem.booked = {} /\ closing \cap (mem.open \cup mem.booked) = {}
      /\ mem \in Memory
  BY <1>2 DEF DInv, MemoryOK
<1>4. ASSUME saving' = saving PROVE \A b \in Actor : Holds(b)' => Holds(b) /\ save'[b] = save[b]
  BY <1>4 DEF saving, Holds
<1>5. ASSUME NEW a \in Actor, persistRuntimeOnly(a) \/ persistSnapshotBundle(a, mem)
      PROVE  \A b \in Actor : Holds(b)' => \/ Holds(b) /\ save'[b] = save[b]
                                           \/ save'[b].v = Contents(mem)
  BY <1>5 DEF persistRuntimeOnly, persistSnapshotBundle, enqueue, Holds, SaveOK
<1>6. ASSUME NEW t \in Trade, OpenPosition(t) PROVE DInv'
  <2>1. /\ saving' = saving /\ closing' = closing /\ backup' = backup /\ closing = {}
        /\ mem'.open = mem.open \cup {t} /\ mem'.booked = mem.booked /\ t \notin traded
    BY <1>6, <1>3 DEF OpenPosition, Memory
  <2>2. t \notin mem.booked
    BY <2>1 DEF KnownOK
  <2> QED
    BY <1>1, <1>2, <1>3, <1>4, <2>1, <2>2, UpKeepsDisjoint
<1>7. ASSUME NEW t \in Trade, exitPosition(t) PROVE DInv'
  <2>1. /\ closing' = {t} /\ backup' = backup /\ t \in mem.open
        /\ mem'.open = mem.open \ {t} /\ mem'.booked = mem.booked
        /\ persistRuntimeOnly("cycle") \/ saving' = saving
    BY <1>7, <1>3 DEF exitPosition, Memory
  <2>2. \A b \in Actor : Holds(b)' => \/ Holds(b) /\ save'[b] = save[b]
                                      \/ save'[b].v = Contents(mem)
    BY <1>4, <1>5, <2>1 DEF Actor
  <2> QED
    BY <1>1, <1>2, <1>3, <2>1, <2>2, UpKeepsDisjoint
<1>8. ASSUME BookTrade PROVE DInv'
  <2>1. /\ saving' = saving /\ closing' = {} /\ backup' = backup
        /\ mem'.open = mem.open /\ mem'.booked = mem.booked \cup closing
    BY <1>8, <1>3 DEF BookTrade, Memory
  <2> QED
    BY <1>1, <1>2, <1>3, <1>4, <2>1, UpKeepsDisjoint
<1>9. ASSUME FlushLedger \/ persist PROVE DInv'
  <2>1. /\ UNCHANGED <<mem, closing, backup>>
        /\ persistRuntimeOnly("cycle") \/ persistSnapshotBundle("cycle", mem)
    BY <1>9 DEF FlushLedger, persist
  <2>2. \A b \in Actor : Holds(b)' => \/ Holds(b) /\ save'[b] = save[b]
                                      \/ save'[b].v = Contents(mem)
    BY <1>5, <2>1 DEF Actor
  <2> QED
    BY <1>1, <1>2, <1>3, <2>1, <2>2, UpKeepsDisjoint
<1>10. ASSUME maybeBackup PROVE DInv'
  <2>1. UNCHANGED <<mem, closing, saving>> /\ backup' = mem
    BY <1>10 DEF maybeBackup
  <2> QED
    BY <1>1, <1>2, <1>3, <1>4, <2>1, UpKeepsDisjoint
<1>11. ASSUME acknowledgeAlert PROVE DInv'
  <2>1. /\ closing' = closing /\ backup' = backup /\ persistRuntimeOnly("operator")
        /\ mem'.open = mem.open /\ mem'.booked = mem.booked
    BY <1>11, <1>3 DEF acknowledgeAlert, Memory
  <2>2. \A b \in Actor : Holds(b)' => \/ Holds(b) /\ save'[b] = save[b]
                                      \/ save'[b].v = Contents(mem)
    BY <1>5, <2>1 DEF Actor
  <2> QED
    BY <1>1, <1>2, <1>3, <2>1, <2>2, UpKeepsDisjoint
<1> QED
  BY <1>6, <1>7, <1>8, <1>9, <1>10, <1>11

(* A crash leaves what is on disk, which agrees unless it tore a restore.  *)
LEMMA CrashKeepsDisjoint == ASSUME TInv, DInv, Crash, ~torn' PROVE DInv'
<1> USE DEF TInv, TypeOK
<1>1. /\ mem' = Nothing /\ closing' = {} /\ save' = [a \in Actor |-> NoSave]
      /\ phase' = "down" /\ backup' = backup
      /\ torn' = (torn \/ (restored /\ phase \in {"restoring", "booting"}))
  BY DEF Crash
<1>2. \A f \in File : disk'[f].v = disk[f].v
  BY DEF Crash, DiskOK, Damaged
<1>3. ~torn /\ Settled
  BY <1>1 DEF PhaseOK, Settled
<1>4. \A b \in Actor : ~Holds(b)'
  BY <1>1 DEF Holds, NoSave
<1> QED
  BY <1>1, <1>2, <1>3, <1>4 DEF DInv, Nothing, Alive, File

(* Loading, quarantine and restore: what is loaded agrees.                 *)
LEMMA InitKeepsDisjoint == ASSUME TInv, DInv, InitStep, ~torn' PROVE DInv'
<1> USE DEF TInv, TypeOK
<1>1. torn' = torn /\ ~torn
  BY DEF InitStep, LoadState, quarantineCorruptFile, RestoreBackup, NothingToRestore,
         RestoreFile, RestoreDone, history
<1>2. \A b \in Actor : b = "cycle" \/ b = "operator"
  BY DEF Actor
<1>3. CASE LoadState
  <2>1. /\ phase = "down" /\ mem' = Loaded /\ phase' = "booting" /\ restored' = FALSE
        /\ UNCHANGED <<closing, disk, backup>>
        /\ save' = [save EXCEPT !["cycle"] = [kind |-> "bundle", done |-> 0, v |-> Contents(Loaded)]]
    BY <1>3 DEF LoadState, persistSnapshotBundle, enqueue
  <2>2. Loaded.open = disk["runtime"].v.open /\ Loaded.booked = disk["journal"].v
    BY DEF Loaded
  <2>3. Contents(Loaded).runtime.open = Loaded.open /\ Contents(Loaded).journal = Loaded.booked
    BY DEF Contents
  <2>4. \A b \in Actor : Holds(b)' => save'[b].v = Contents(Loaded)
    BY <1>2, <2>1 DEF Holds, PhasesOK, SaveOK
  <2>5. disk["runtime"].v.open \cap disk["journal"].v = {} /\ closing = {}
    BY <1>1, <2>1 DEF DInv, Settled, PhasesOK
  <2> QED
    BY <1>1, <2>1, <2>2, <2>3, <2>4, <2>5 DEF DInv
<1>4. CASE quarantineCorruptFile
  <2>1. /\ phase = "down" /\ phase' = "quarantined"
        /\ UNCHANGED <<mem, closing, backup, save, restored>>
    BY <1>4 DEF quarantineCorruptFile, saving
  <2>2. PICK f \in File : disk' = [disk EXCEPT ![f] = Absent(f)] \/ disk' = disk
    BY <1>4, LoadOrderFiles DEF quarantineCorruptFile
  <2>3. Contents(Nothing)["journal"] = {} /\ Contents(Nothing)["runtime"].open = {}
    BY DEF Contents, Nothing
  <2>4. /\ disk'["runtime"].v.open \in {{}, disk["runtime"].v.open}
        /\ disk'["journal"].v \in {{}, disk["journal"].v}
    BY <2>2, <2>3 DEF Absent, File
  <2> QED
    BY <1>1, <2>1, <2>4 DEF DInv, Settled, Alive, Holds
<1>5. CASE RestoreBackup
  <2>1. /\ mem' = backup /\ phase = "quarantined" /\ phase' = "restoring" /\ restored' = TRUE
        /\ UNCHANGED <<closing, disk, backup>>
        /\ save' = [save EXCEPT !["cycle"] = [kind |-> "restore", done |-> 0, v |-> Contents(backup)]]
    BY <1>5 DEF RestoreBackup
  <2>2. Contents(backup).runtime.open = backup.open /\ Contents(backup).journal = backup.booked
    BY DEF Contents
  <2>3. \A b \in Actor : Holds(b)' => save'[b].v = Contents(backup)
    BY <1>2, <2>1 DEF Holds, PhasesOK, SaveOK
  <2>4. closing = {}
    BY <2>1 DEF PhasesOK
  <2> QED
    BY <1>1, <2>1, <2>2, <2>3, <2>4 DEF DInv, Settled, Alive
<1>6. CASE NothingToRestore
  BY <1>1, <1>6 DEF NothingToRestore, DInv, Settled, Alive, Holds, saving
<1>7. CASE RestoreFile
  <2>1. /\ phase = "restoring" /\ UNCHANGED <<mem, closing, backup, phase, restored>>
        /\ save' = [save EXCEPT !["cycle"].done = save["cycle"].done + 1]
    BY <1>7 DEF RestoreFile
  <2>2. \A b \in Actor : Holds(b)' => Holds(b) /\ save'[b].v = save[b].v
    BY <1>2, <2>1 DEF Holds, SaveOK, Actor, PhasesOK
  <2>3. restored
    BY <2>1 DEF PhasesOK
  <2> QED
    BY <1>1, <2>1, <2>2, <2>3 DEF DInv, Settled, Alive
<1>8. CASE RestoreDone
  <2>1. /\ phase = "restoring" /\ phase' = "booting"
        /\ UNCHANGED <<mem, closing, disk, backup, restored>>
        /\ save' = [save EXCEPT !["cycle"] = [kind |-> "bundle", done |-> 0, v |-> Contents(mem)]]
    BY <1>8 DEF RestoreDone, persistSnapshotBundle, enqueue
  <2>2. Contents(mem).runtime.open = mem.open /\ Contents(mem).journal = mem.booked
    BY DEF Contents
  <2>3. \A b \in Actor : Holds(b)' => save'[b].v = Contents(mem)
    BY <1>2, <2>1 DEF Holds, PhasesOK, SaveOK
  <2>4. restored
    BY <2>1 DEF PhasesOK
  <2> QED
    BY <1>1, <2>1, <2>2, <2>3, <2>4 DEF DInv, Settled, Alive
<1> QED
  BY <1>3, <1>4, <1>5, <1>6, <1>7, <1>8 DEF InitStep

(* DInv is inductive relative to TInv.                                     *)
LEMMA DisjointStep == TInv /\ DInv /\ [Next]_vars => DInv'
<1> SUFFICES ASSUME TInv, DInv, [Next]_vars, ~torn' PROVE DInv'
  BY DEF DInv
<1>1. ASSUME NEW a \in Actor, TakeRuntime(a) PROVE DInv'
  BY <1>1, TakeKeepsDisjoint
<1>2. ASSUME NEW a \in Actor, RenameFile(a) PROVE DInv'
  BY <1>2, RenameKeepsDisjoint
<1>3. ASSUME NEW a \in Actor, SaveDone(a) \/ SaveFails(a) PROVE DInv'
  BY <1>3, EndKeepsDisjoint
<1>4. ASSUME \/ \E t \in Trade : OpenPosition(t) \/ exitPosition(t)
             \/ BookTrade \/ FlushLedger \/ persist \/ maybeBackup \/ acknowledgeAlert
      PROVE  DInv'
  BY <1>4, CycleKeepsDisjoint
<1>5. CASE Crash
  BY <1>5, CrashKeepsDisjoint
<1>6. CASE InitStep
  BY <1>6, InitKeepsDisjoint
<1>7. CASE UNCHANGED vars
  BY <1>7 DEF vars, saving, bounds, history, DInv, Holds, Alive, Settled
<1> QED
  BY <1>1, <1>2, <1>3, <1>4, <1>5, <1>6, <1>7 DEF Next, SaveStep

(* TInv and DInv hold throughout.                                          *)
LEMMA DisjointInvariant == Spec => [](TInv /\ DInv)
<1>1. Init => TInv /\ DInv
  BY TypesInit, DisjointInit
<1>2. TInv /\ DInv /\ [Next]_vars => (TInv /\ DInv)'
  BY TypesStep, DisjointStep
<1> QED
  BY <1>1, <1>2, PTL DEF Spec

(* However saves fail and wherever the process dies, no trade is a         *)
(* position and booked at once, unless a restore was cut short             *)
(* (saveSnapshotBundle renames runtime.json first).                        *)
THEOREM NoDoubleBooking == Spec => []NeverBookedAndOpen
<1>1. DInv => NeverBookedAndOpen
  BY DEF DInv, NeverBookedAndOpen
<1> QED
  BY <1>1, DisjointInvariant, PTL

-----------------------------------------------------------------------------
(* Before the first start nothing has been promised.                       *)
LEMMA AckInit == Init => AInv
<1> SUFFICES ASSUME Init PROVE AInv
  OBVIOUS
<1>1. disk["runtime"].v = Contents(Nothing).runtime /\ disk["journal"].v = {} /\ disk["model"].v = {}
  BY DEF Init, Nothing, Contents, Absent, File
<1>2. \A f \in File : disk[f].st # Damaged
  BY DEF Init, Absent, Damaged
<1>3. acked = Contents(Nothing) /\ Contents(Nothing).runtime.acks = 0
      /\ acked.journal = {} /\ acked.model = {}
  BY DEF Init, Contents, Nothing
<1>4. ~torn /\ ~restored /\ phase = "down" /\ queue = <<>>
  BY DEF Init
<1> QED
  BY <1>1, <1>2, <1>3, <1>4 DEF AInv, Alive

(* A rename never puts older content over newer content.                   *)
LEMMA RenameKeepsAck ==
    ASSUME TInv, DInv, AInv, NEW a \in Actor, RenameFile(a), ~damaged' PROVE AInv'
<1> USE DEF TInv, TypeOK
<1>1. PICK f \in File :
         /\ disk' = [disk EXCEPT ![f] = Stored(save[a].v, f)]
         /\ save[a] \in [kind : {"runtime", "bundle"}, done : 0..2, v : Content]
         /\ save[a].kind = "runtime" => f = "runtime"
         /\ f = "runtime" <=> save[a].done = 0
         /\ f = "journal" <=> save[a].done = 1
         /\ f = "model" <=> save[a].done = 2
  BY Renamed
<1>2. /\ \A g \in File : g # f => disk'[g] = disk[g]
      /\ disk'[f].st = "ok"
      /\ f = "runtime" => disk'["runtime"].v = save[a].v.runtime
      /\ f = "journal" => disk'["journal"].v = save[a].v.journal
      /\ f = "model" => disk'["model"].v = save[a].v.model
  <2>1. save[a].v \in Content
    BY <1>1
  <2>2. /\ disk'[f] = [st |-> "ok", v |-> save[a].v[f]]
        /\ \A g \in File : g # f => disk'[g] = disk[g]
        /\ f = "runtime" => disk'["runtime"].v = save[a].v.runtime
        /\ f = "journal" => disk'["journal"].v = save[a].v.journal
        /\ f = "model" => disk'["model"].v = save[a].v.model
    BY <1>1, <2>1, StoredTyped
  <2> QED
    BY <2>2
<1>3. /\ UNCHANGED <<mem, queue, phase, restored, torn, acked, damaged>> /\ Runs(a) /\ ~damaged
      /\ \A b \in Actor : save'[b].kind = save[b].kind /\ (Holds(b) => save'[b].v = save[b].v)
  BY <1>1 DEF RenameFile, SaveOK, Holds
<1>4. Holds(a) /\ Chained(a)
  BY <1>1 DEF Holds, Chained
<1>5. Alive
  <2>1. a \in Actor /\ save[a].kind \in {"runtime", "bundle"}
    BY <1>1
  <2> QED
    BY <2>1 DEF PhasesOK, Alive, Actor, PhaseOK
<1>6. ~torn /\ Settled
  BY <1>3 DEF AInv, Settled
<1>7. \A g \in File : disk'[g].st # Damaged
  BY <1>2, <1>3 DEF AInv, Damaged
(* The other save is a bundle behind the operator's, cloned after the      *)
(* operator's change.                                                      *)
<1>8. ASSUME NEW b \in Actor, Holds(b), b # a
      PROVE  f = "runtime" /\ save[b].v.runtime.acks = mem.acks
  <2>1. b = "cycle" /\ save[b].kind = "bundle" /\ save[a].kind \in {"waiting", "runtime"}
    BY <1>3, <1>5, <1>8, Behind
  <2>2. Chained(b)
    BY <2>1 DEF Chained
  <2>3. PICK i \in DOMAIN queue : queue[i] = b
    BY <2>2 DEF QueuedOK
  <2>4. i # 1
    BY <1>3, <1>8, <2>3 DEF Runs
  <2> QED
    BY <1>1, <1>3, <2>1, <2>3, <2>4 DEF AInv
<1>9. /\ acked.runtime.acks <= disk'["runtime"].v.acks
      /\ disk'["runtime"].v.acks <= mem.acks
      /\ \A b \in Actor : Holds(b) => disk'["runtime"].v.acks <= save[b].v.runtime.acks
  <2>1. CASE f = "runtime"
    <3>1. /\ acked.runtime.acks \in Nat /\ disk["runtime"].v.acks \in Nat
          /\ save[a].v.runtime.acks \in Nat
      BY <1>1 DEF PhaseOK, DiskOK, FileValue, Content, RuntimeFile, File
    <3>2. save[a].v.runtime.acks <= mem.acks /\ acked.runtime.acks <= save[a].v.runtime.acks
      BY <1>3, <1>4, <1>5, <3>1 DEF AInv
    <3> QED
      BY <1>2, <1>8, <2>1, <3>1, <3>2
  <2>2. CASE f # "runtime"
    BY <1>2, <1>3, <1>5, <2>2 DEF AInv, File
  <2> QED
    BY <2>1, <2>2
<1>10. acked.journal \subseteq disk'["journal"].v
  <2>1. disk["journal"].v \subseteq save[a].v.journal /\ acked.journal \subseteq disk["journal"].v
    BY <1>3, <1>4, <1>5, <1>6 DEF AInv, DInv
  <2> QED
    BY <1>2, <2>1 DEF File
<1>11. /\ acked.model \subseteq disk'["model"].v /\ disk'["model"].v \subseteq mem.learned
       /\ \A b \in Actor : Holds(b) => disk'["model"].v \subseteq save[b].v.model
  <2>1. CASE f = "model"
    <3>1. \A b \in Actor : Holds(b) => b = a
      BY <1>8, <2>1
    <3>2. /\ disk["model"].v \subseteq save[a].v.model /\ save[a].v.model \subseteq mem.learned
          /\ acked.model \subseteq disk["model"].v
      BY <1>3, <1>4, <1>5 DEF AInv
    <3> QED
      BY <1>2, <2>1, <3>1, <3>2
  <2>2. CASE f # "model"
    BY <1>2, <1>3, <1>5, <2>2 DEF AInv, File
  <2> QED
    BY <2>1, <2>2
<1>12. \A b \in Actor : Holds(b)' => Holds(b) /\ save'[b].v = save[b].v
  BY <1>3 DEF Holds
<1>13. \A i \in DOMAIN queue : i # 1 /\ save'[queue[i]].kind = "bundle"
         => save'[queue[i]].v.runtime.acks = mem.acks
  BY <1>3 DEF AInv, QueueOK, Holds
<1>14. \A b \in Actor : Holds(b)' => save'[b].v.runtime.acks <= mem.acks
                                     /\ save'[b].v.model \subseteq mem.learned
  BY <1>3, <1>5, <1>12 DEF AInv
<1> QED
  BY <1>3, <1>6, <1>7, <1>9, <1>10, <1>11, <1>12, <1>13, <1>14 DEF AInv

(* When a save ends, what it promises is on disk.                          *)
LEMMA EndKeepsAck ==
    ASSUME TInv, DInv, AInv, NEW a \in Actor, SaveDone(a) \/ SaveFails(a), ~damaged' PROVE AInv'
<1> USE DEF TInv, TypeOK
<1>1. /\ save' = [save EXCEPT ![a] = NoSave] /\ Runs(a) /\ queue' = Tail(queue)
      /\ UNCHANGED <<mem, disk, restored, damaged>> /\ ~damaged
      /\ phase' \in {phase, "up", "down"}
      /\ phase # "booting" => phase' = phase
  BY DEF SaveDone, SaveFails, bounds
<1>2. /\ ~torn' /\ ~restored' /\ phase' \notin {"quarantined", "restoring"}
      /\ \A f \in File : disk'[f].st # Damaged
  <2>1. ~torn /\ ~restored /\ phase \notin {"quarantined", "restoring"}
        /\ \A f \in File : disk[f].st # Damaged
    BY <1>1 DEF AInv
  <2>2. torn' => torn \/ restored
    BY DEF SaveDone, SaveFails
  <2>3. ~torn' /\ ~restored'
    BY <1>1, <2>1, <2>2
  <2> QED
    BY <1>1, <2>1, <2>3
<1>3. \A b \in Actor : Holds(b)' => Holds(b) /\ save'[b] = save[b]
  BY <1>1 DEF Holds, NoSave, SaveOK
<1>4. /\ acked'.runtime.acks <= disk["runtime"].v.acks
      /\ acked'.journal \subseteq disk["journal"].v
      /\ acked'.model \subseteq disk["model"].v
  <2>1. CASE SaveFails(a)
    BY <1>1, <2>1 DEF SaveFails, AInv
  <2>2. CASE SaveDone(a)
    <3>1. /\ save[a] \in [kind : {"runtime", "bundle"}, done : 0..3, v : Content]
          /\ acked' = Promised(save[a]) /\ acked \in Content
      BY <2>2 DEF SaveDone, SaveOK, Saving, NoSave, BundleOrder, PhaseOK
    <3>2. /\ acked'.runtime.acks = save[a].v.runtime.acks
          /\ save[a].kind = "bundle" => /\ acked'.journal = acked.journal \cup save[a].v.journal
                                        /\ acked'.model = acked.model \cup save[a].v.model
          /\ save[a].kind = "runtime" => acked'.journal = acked.journal /\ acked'.model = acked.model
      BY <3>1 DEF Promised, Content, RuntimeFile
    <3>3. /\ save[a].kind = "bundle" => save[a].done = 3
          /\ save[a].kind = "runtime" => save[a].done = 1
      BY <2>2, <3>1 DEF SaveDone, Files, BundleOrder
    <3>4. /\ disk["runtime"].v = save[a].v.runtime
          /\ save[a].kind = "bundle" => /\ disk["journal"].v = save[a].v.journal
                                        /\ disk["model"].v = save[a].v.model
      BY <3>1, <3>3 DEF WrittenOK
    <3>5. disk["runtime"].v.acks \in Nat
      BY DEF DiskOK, FileValue, RuntimeFile, File
    <3>6. acked.journal \subseteq disk["journal"].v /\ acked.model \subseteq disk["model"].v
      BY <1>1 DEF AInv
    <3> QED
      BY <3>1, <3>2, <3>4, <3>5, <3>6
  <2> QED
    BY <2>1, <2>2
<1>5. \A i \in DOMAIN queue' : i # 1 /\ save'[queue'[i]].kind = "bundle"
        => save'[queue'[i]].v.runtime.acks = mem.acks
  <2>1. \A i \in DOMAIN queue' : i + 1 \in DOMAIN queue /\ queue'[i] = queue[i + 1] /\ i + 1 # 1
                                 /\ queue'[i] # a
    BY <1>1 DEF QueueOK, Runs
  <2>2. \A i \in DOMAIN queue' : save'[queue'[i]] = save[queue'[i]]
    BY <1>1, <2>1 DEF SaveOK
  <2> QED
    BY <1>1, <2>1, <2>2 DEF AInv
<1>6. Alive' => Alive
  BY <1>1 DEF Alive
<1> QED
  BY <1>1, <1>2, <1>3, <1>4, <1>5, <1>6 DEF AInv

(* A runtime-only save is at least as new as the disk.                     *)
LEMMA TakeKeepsAck ==
    ASSUME TInv, AInv, NEW a \in Actor, TakeRuntime(a), ~damaged' PROVE AInv'
<1> USE DEF TInv, TypeOK
<1>1. /\ save'[a] = [kind |-> "runtime", done |-> 0, v |-> Contents(mem)]
      /\ \A b \in Actor : b # a => save'[b] = save[b]
      /\ UNCHANGED <<mem, closing, disk, backup, queue, phase, restored, torn, acked, damaged>>
      /\ a = queue[1]
  BY DEF TakeRuntime, SaveOK, history, Runs
<1>2. /\ Contents(mem).runtime.acks = mem.acks /\ Contents(mem).model = mem.learned
      /\ mem.acks \in Nat /\ disk["runtime"].v.acks \in Nat
  BY DEF Contents, MemoryOK, Memory, DiskOK, File, FileValue, RuntimeFile
<1>3. ASSUME NEW b \in Actor, Holds(b)', Alive
      PROVE  /\ disk["runtime"].v.acks <= save'[b].v.runtime.acks
             /\ save'[b].v.runtime.acks <= mem.acks
             /\ disk["model"].v \subseteq save'[b].v.model
             /\ save'[b].v.model \subseteq mem.learned
  <2>1. CASE b = a
    BY <1>1, <1>2, <1>3, <2>1 DEF AInv
  <2>2. CASE b # a
    BY <1>1, <1>3, <2>2 DEF AInv, Holds
  <2> QED
    BY <2>1, <2>2
<1>4. \A i \in DOMAIN queue : i # 1 /\ save'[queue[i]].kind = "bundle"
        => save'[queue[i]].v.runtime.acks = mem.acks
  <2>1. \A i \in DOMAIN queue : i # 1 => queue[i] # a /\ queue[i] \in Actor
    BY <1>1 DEF QueueOK, TakeRuntime, Runs
  <2> QED
    BY <1>1, <2>1 DEF AInv
<1> QED
  BY <1>1, <1>3, <1>4 DEF AInv, Alive

(* A step of the cycle or the operator that enqueues nothing or a save.    *)
LEMMA UpKeepsAck ==
    ASSUME TInv, TInv', AInv, ~damaged, ~damaged', phase = "up",
           UNCHANGED <<disk, phase, restored, torn, acked>>,
           mem.learned \subseteq mem'.learned, mem.acks <= mem'.acks,
           \/ saving' = saving /\ mem'.acks = mem.acks
           \/ /\ mem'.acks = mem.acks
              /\ persistRuntimeOnly("cycle") \/ persistSnapshotBundle("cycle", mem)
           \/ /\ persistRuntimeOnly("operator") /\ Idle("operator")
    PROVE  AInv'
<1> USE DEF TInv, TypeOK
<1>1. Alive /\ Alive'
  BY DEF Alive
<1>2. mem.acks \in Nat /\ mem'.acks \in Nat /\ disk["runtime"].v.acks \in Nat
      /\ \A a \in Actor : Holds(a) => save[a].v.runtime.acks \in Nat
  <2>1. mem.acks \in Nat /\ mem'.acks \in Nat /\ disk["runtime"].v.acks \in Nat
    BY DEF MemoryOK, Memory, DiskOK, File, FileValue, RuntimeFile
  <2>2. \A a \in Actor : Holds(a) => save[a].v \in Content
    BY DEF Holds, SaveOK, Saving, NoSave
  <2> QED
    BY <2>1, <2>2 DEF Content, RuntimeFile
<1>3. disk["runtime"].v.acks <= mem.acks /\ disk["model"].v \subseteq mem.learned
  BY <1>1 DEF AInv
<1>4. disk["runtime"].v.acks <= mem'.acks /\ disk["model"].v \subseteq mem'.learned
  BY <1>2, <1>3
<1>5. Contents(mem).runtime.acks = mem.acks /\ Contents(mem).model = mem.learned
  BY DEF Contents
<1>6. \A b \in Actor : Holds(b)' => \/ Holds(b) /\ save'[b] = save[b]
                                    \/ save'[b].v = Contents(mem)
  BY DEF persistRuntimeOnly, persistSnapshotBundle, enqueue, Holds, SaveOK, saving, Actor
<1>7. ASSUME NEW b \in Actor, Holds(b)'
      PROVE  /\ disk["runtime"].v.acks <= save'[b].v.runtime.acks
             /\ save'[b].v.runtime.acks <= mem'.acks
             /\ disk["model"].v \subseteq save'[b].v.model
             /\ save'[b].v.model \subseteq mem'.learned
  <2>1. CASE Holds(b) /\ save'[b] = save[b]
    <3>1. /\ disk["runtime"].v.acks <= save[b].v.runtime.acks
          /\ save[b].v.runtime.acks <= mem.acks
          /\ disk["model"].v \subseteq save[b].v.model /\ save[b].v.model \subseteq mem.learned
          /\ save[b].v.runtime.acks \in Nat
      BY <1>1, <1>2, <2>1 DEF AInv
    <3> QED
      BY <1>2, <2>1, <3>1
  <2>2. CASE save'[b].v = Contents(mem)
    BY <1>2, <1>3, <1>5, <2>2
  <2> QED
    BY <1>6, <1>7, <2>1, <2>2
<1>8. ASSUME NEW i \in DOMAIN queue', i # 1, save'[queue'[i]].kind = "bundle"
      PROVE  save'[queue'[i]].v.runtime.acks = mem'.acks
  <2>1. CASE saving' = saving /\ mem'.acks = mem.acks
    BY <1>8, <2>1 DEF AInv, saving
  <2>2. ASSUME NEW a \in Actor, NEW s, enqueue(a, s)
        PROVE  /\ DOMAIN queue' = 1..(Len(queue) + 1) /\ DOMAIN queue = 1..Len(queue)
               /\ Len(queue) \in Nat /\ queue'[Len(queue) + 1] = a
               /\ \A j \in DOMAIN queue : queue'[j] = queue[j]
               /\ save'[a] = s /\ \A b \in Actor : b # a => save'[b] = save[b]
    BY <2>2 DEF enqueue, QueueOK, SaveOK
  <2>3. CASE mem'.acks = mem.acks /\ (persistRuntimeOnly("cycle") \/ persistSnapshotBundle("cycle", mem))
    <3>1. PICK s \in {[kind |-> "waiting"], [kind |-> "bundle", done |-> 0, v |-> Contents(mem)]} :
             enqueue("cycle", s)
      BY <2>3 DEF persistRuntimeOnly, persistSnapshotBundle
    <3>2. "cycle" \in Actor
      BY DEF Actor
    <3>3. CASE queue'[i] = "cycle"
      BY <1>5, <1>8, <2>2, <2>3, <3>1, <3>2, <3>3
    <3>4. CASE queue'[i] # "cycle"
      <4>1. i \in DOMAIN queue /\ queue'[i] = queue[i] /\ queue[i] \in Actor
        BY <1>8, <2>2, <3>1, <3>2, <3>4 DEF QueueOK
      <4>2. save'[queue[i]] = save[queue[i]]
        BY <2>2, <3>1, <3>2, <3>4, <4>1
      <4> QED
        BY <1>8, <2>3, <4>1, <4>2 DEF AInv
    <3> QED
      BY <3>3, <3>4
  <2>4. CASE persistRuntimeOnly("operator") /\ Idle("operator")
    <3>1. enqueue("operator", [kind |-> "waiting"]) /\ "operator" \in Actor
      BY <2>4 DEF persistRuntimeOnly, Actor
    <3>2. queue'[i] = "cycle"
      <4>1. queue'[i] \in Actor
        BY <1>8 DEF QueueOK
      <4>2. queue'[i] # "operator"
        BY <1>8, <2>2, <3>1
      <4> QED
        BY <4>1, <4>2 DEF Actor
    <3>3. i \in DOMAIN queue /\ queue[i] = "cycle" /\ 1 \in DOMAIN queue
      BY <1>8, <2>2, <3>1, <3>2
    <3>4. queue[1] # "cycle" /\ queue[1] \in Actor /\ Chained(queue[1])
      BY <1>8, <3>3 DEF QueueOK, QueuedOK
    <3>5. FALSE
      BY <2>4, <3>4 DEF Actor, Idle, Chained, NoSave
    <3> QED
      BY <3>5
  <2> QED
    BY <2>1, <2>3, <2>4
<1> QED
  BY <1>4, <1>7, <1>8 DEF AInv

(* Steps of the cycle and the operator only make the memory newer.         *)
LEMMA CycleKeepsAck ==
    ASSUME TInv, TInv', AInv, ~damaged',
           \/ \E t \in Trade : OpenPosition(t) \/ exitPosition(t)
           \/ BookTrade \/ FlushLedger \/ persist \/ maybeBackup \/ acknowledgeAlert
    PROVE  AInv'
<1> USE DEF TInv, TypeOK
<1>1. UNCHANGED <<disk, phase, restored, torn, acked, damaged>> /\ phase = "up"
  BY DEF OpenPosition, exitPosition, BookTrade, FlushLedger, persist, maybeBackup,
         acknowledgeAlert, history, CycleFree
<1>2. mem \in Memory /\ mem.acks \in Nat
  BY DEF MemoryOK, Memory
<1>3. CASE acknowledgeAlert
  <2>1. mem'.acks = mem.acks + 1 /\ mem'.learned = mem.learned
        /\ persistRuntimeOnly("operator") /\ Idle("operator")
    BY <1>2, <1>3 DEF acknowledgeAlert, Memory
  <2> QED
    BY <1>1, <1>2, <2>1, UpKeepsAck
<1>4. CASE \/ \E t \in Trade : OpenPosition(t) \/ exitPosition(t)
           \/ BookTrade \/ FlushLedger \/ persist \/ maybeBackup
  <2>1. mem'.acks = mem.acks /\ mem.learned \subseteq mem'.learned
    BY <1>2, <1>4 DEF OpenPosition, exitPosition, BookTrade, FlushLedger, persist, maybeBackup,
                      Memory
  <2>2. \/ saving' = saving
        \/ persistRuntimeOnly("cycle") \/ persistSnapshotBundle("cycle", mem)
    BY <1>4 DEF OpenPosition, exitPosition, BookTrade, FlushLedger, persist, maybeBackup
  <2> QED
    BY <1>1, <1>2, <2>1, <2>2, UpKeepsAck
<1> QED
  BY <1>3, <1>4

(* Without damage a crash takes nothing from the disk.                     *)
LEMMA CrashKeepsAck == ASSUME TInv, AInv, Crash, ~damaged' PROVE AInv'
<1> USE DEF TInv, TypeOK
<1>1. PICK hurt \in {{}} \cup {{f} : f \in {g \in File : disk[g].st = "ok"}} :
        disk' = [f \in File |-> IF f \in hurt THEN [disk[f] EXCEPT !.st = Damaged] ELSE disk[f]]
        /\ damaged' = (damaged \/ hurt # {})
  BY DEF Crash
<1>2. hurt = {} /\ ~damaged
  BY <1>1 DEF PhaseOK
<1>3. \A f \in File : disk'[f] = disk[f]
  BY <1>1, <1>2
<1>4. /\ queue' = <<>> /\ phase' = "down" /\ UNCHANGED <<restored, acked>>
      /\ torn' = (torn \/ (restored /\ phase \in {"restoring", "booting"}))
  BY DEF Crash
<1>5. /\ ~torn /\ ~restored /\ \A f \in File : disk[f].st # Damaged
      /\ acked.runtime.acks <= disk["runtime"].v.acks
      /\ acked.journal \subseteq disk["journal"].v
      /\ acked.model \subseteq disk["model"].v
  BY <1>2 DEF AInv
<1>6. ~torn' /\ ~restored'
  BY <1>4, <1>5
<1> QED
  BY <1>3, <1>4, <1>5, <1>6 DEF AInv, Alive, File

(* Without damage a start only ever loads.                                 *)
LEMMA InitKeepsAck == ASSUME TInv, AInv, InitStep, ~damaged' PROVE AInv'
<1> USE DEF TInv, TypeOK
<1>1. damaged' = damaged /\ ~damaged
  BY DEF InitStep, LoadState, quarantineCorruptFile, RestoreBackup, NothingToRestore,
         RestoreFile, RestoreDone, history
<1>2. LoadState
  <2>1. phase \notin {"quarantined", "restoring"} /\ \A f \in File : disk[f].st # Damaged
    BY <1>1 DEF AInv
  <2>2. ~quarantineCorruptFile
    BY <2>1, LoadOrderFiles DEF quarantineCorruptFile, FirstUnreadable, Unreadable
  <2> QED
    BY <2>1, <2>2 DEF InitStep, RestoreBackup, NothingToRestore, RestoreFile, RestoreDone
<1>3. /\ phase = "down" /\ mem' = Loaded /\ phase' = "booting" /\ restored' = FALSE
      /\ enqueue("cycle", [kind |-> "bundle", done |-> 0, v |-> Contents(Loaded)])
      /\ UNCHANGED <<disk, torn, acked>>
  BY <1>2 DEF LoadState, persistSnapshotBundle, history
<1>4. /\ Loaded.acks = disk["runtime"].v.acks /\ Loaded.learned = disk["model"].v
      /\ Contents(Loaded).runtime.acks = Loaded.acks /\ Contents(Loaded).model = Loaded.learned
      /\ disk["runtime"].v.acks \in Nat
  BY DEF Loaded, Contents, DiskOK, FileValue, RuntimeFile, File
<1>5. \A b \in Actor : Holds(b)' => save'[b].v = Contents(Loaded)
  BY <1>3 DEF Holds, PhasesOK, SaveOK, Actor, enqueue
<1>6. \A i \in DOMAIN queue' : i = 1
  <2>1. \A i \in DOMAIN queue : FALSE
    BY <1>3 DEF PhasesOK, QueuedOK, QueueOK, Chained, Actor
  <2> QED
    BY <1>3, <2>1 DEF enqueue, QueueOK
<1> QED
  BY <1>1, <1>3, <1>4, <1>5, <1>6 DEF AInv

(* AInv is inductive relative to TInv and DInv.                            *)
LEMMA AckStep == TInv /\ TInv' /\ DInv /\ AInv /\ [Next]_vars => AInv'
<1> SUFFICES ASSUME TInv, TInv', DInv, AInv, [Next]_vars, ~damaged' PROVE AInv'
  BY DEF AInv
<1>1. ASSUME NEW a \in Actor, TakeRuntime(a) PROVE AInv'
  BY <1>1, TakeKeepsAck
<1>2. ASSUME NEW a \in Actor, RenameFile(a) PROVE AInv'
  BY <1>2, RenameKeepsAck
<1>3. ASSUME NEW a \in Actor, SaveDone(a) \/ SaveFails(a) PROVE AInv'
  BY <1>3, EndKeepsAck
<1>4. ASSUME \/ \E t \in Trade : OpenPosition(t) \/ exitPosition(t)
             \/ BookTrade \/ FlushLedger \/ persist \/ maybeBackup \/ acknowledgeAlert
      PROVE  AInv'
  BY <1>4, CycleKeepsAck
<1>5. CASE Crash
  BY <1>5, CrashKeepsAck
<1>6. CASE InitStep
  BY <1>6, InitKeepsAck
<1>7. CASE UNCHANGED vars
  BY <1>7 DEF vars, saving, bounds, history, AInv, Holds, Alive
<1> QED
  BY <1>1, <1>2, <1>3, <1>4, <1>5, <1>6, <1>7 DEF Next, SaveStep

(* As long as no file is damaged, what a finished save promised is on disk *)
(* (persistPromise chains the saves, and persist clones what it saves).    *)
THEOREM AcknowledgedStays == Spec => []AcknowledgedSurvives
<1>1. Init => AInv
  BY AckInit
<1>2. AInv => AcknowledgedSurvives
  BY DEF AInv, AcknowledgedSurvives
<1>3. TInv /\ TInv' /\ DInv /\ AInv /\ [Next]_vars => AInv'
  BY AckStep
<1> QED
  BY <1>1, <1>2, <1>3, DisjointInvariant, PTL DEF Spec
-----------------------------------------------------------------------------
(* While nothing is damaged no rename puts less on disk than there was:    *)
(* a step of DurableStore that writes.                                     *)
LEMMA RenameIsWrite ==
    ASSUME TInv, DInv, AInv, NEW a \in Actor, RenameFile(a), ~damaged
    PROVE  Store!Write
<1> USE DEF TInv, TypeOK
<1>1. PICK f \in File :
         /\ disk' = [disk EXCEPT ![f] = Stored(save[a].v, f)]
         /\ save[a] \in [kind : {"runtime", "bundle"}, done : 0..2, v : Content]
  BY Renamed
<1>2. /\ f = "runtime" => disk'["runtime"].v = save[a].v.runtime
      /\ f = "journal" => disk'["journal"].v = save[a].v.journal
      /\ f = "model" => disk'["model"].v = save[a].v.model
      /\ \A g \in File : g # f => disk'[g] = disk[g]
  <2>1. save[a].v \in Content
    BY <1>1
  <2> QED
    BY <1>1, <2>1, StoredTyped
<1>3. Holds(a) /\ Alive
  <2>1. a \in Actor /\ save[a].kind \in {"runtime", "bundle"}
    BY <1>1
  <2> QED
    BY <2>1 DEF PhasesOK, Alive, Actor, PhaseOK, Holds
<1>4. ~torn /\ Settled
  BY DEF AInv, Settled
<1>5. /\ disk["runtime"].v.acks <= save[a].v.runtime.acks
      /\ disk["journal"].v \subseteq save[a].v.journal
      /\ disk["model"].v \subseteq save[a].v.model
  BY <1>3, <1>4 DEF AInv, DInv
<1>6. disk["runtime"].v.acks \in Nat
  BY DEF DiskOK, FileValue, RuntimeFile, File
<1>7. /\ disk["runtime"].v.acks <= disk'["runtime"].v.acks
      /\ disk["journal"].v \subseteq disk'["journal"].v
      /\ disk["model"].v \subseteq disk'["model"].v
  BY <1>2, <1>5, <1>6 DEF File
<1>8. acked' = acked
  BY DEF RenameFile
<1> QED
  BY <1>7, <1>8 DEF Store!Write, Store!Within, OnDisk, Acknowledged

(* A save that is done promises what is on disk and takes no promise back. *)
LEMMA DoneIsPromise ==
    ASSUME TInv, AInv, AInv', NEW a \in Actor, SaveDone(a), ~damaged
    PROVE  Store!Promise
<1> USE DEF TInv, TypeOK
<1>1. /\ disk' = disk /\ damaged' = damaged /\ acked' = Promised(save[a])
      /\ save[a].done = Len(Files(a)) /\ save[a].kind \in {"runtime", "bundle"}
  BY DEF SaveDone
<1>2. save[a] \in [kind : {"runtime", "bundle"}, done : 0..3, v : Content] /\ acked \in Content
  BY <1>1 DEF SaveOK, Saving, NoSave, BundleOrder, PhaseOK
<1>3. /\ acked'.runtime.acks = save[a].v.runtime.acks
      /\ acked.journal \subseteq acked'.journal /\ acked.model \subseteq acked'.model
  BY <1>1, <1>2 DEF Promised, Content, RuntimeFile
<1>4. save[a].done >= 1
  BY <1>1, <1>2 DEF Files, BundleOrder
<1>5. disk["runtime"].v = save[a].v.runtime
  BY <1>1, <1>4 DEF WrittenOK
<1>6. acked.runtime.acks <= disk["runtime"].v.acks
  BY DEF AInv
<1>7. /\ acked'.runtime.acks <= disk["runtime"].v.acks
      /\ acked'.journal \subseteq disk["journal"].v
      /\ acked'.model \subseteq disk["model"].v
  BY <1>1 DEF AInv
<1> QED
  BY <1>1, <1>3, <1>5, <1>6, <1>7 DEF Store!Promise, Store!Within, OnDisk, Acknowledged

(* Every other step leaves the store alone or damages it.                  *)
LEMMA OthersAreStutters ==
    ASSUME TInv, AInv, [Next]_vars, ~damaged, ~damaged',
           \A a \in Actor : ~RenameFile(a) /\ ~SaveDone(a)
    PROVE  UNCHANGED <<OnDisk, Acknowledged>>
<1>1. CASE Crash
  <2>1. PICK hurt \in {{}} \cup {{f} : f \in {g \in File : disk[g].st = "ok"}} :
          disk' = [f \in File |-> IF f \in hurt THEN [disk[f] EXCEPT !.st = Damaged] ELSE disk[f]]
          /\ damaged' = (damaged \/ hurt # {})
    BY <1>1 DEF Crash
  <2>2. \A f \in File : disk'[f] = disk[f]
    BY <2>1
  <2>3. acked' = acked
    BY <1>1 DEF Crash
  <2> QED
    BY <2>2, <2>3 DEF OnDisk, Acknowledged, File
<1>2. CASE InitStep
  <2>1. phase \notin {"quarantined", "restoring"} /\ \A f \in File : disk[f].st # Damaged
    BY DEF AInv
  <2>2. ~quarantineCorruptFile
    BY <2>1, LoadOrderFiles DEF quarantineCorruptFile, FirstUnreadable, Unreadable
  <2>3. LoadState
    BY <1>2, <2>1, <2>2 DEF InitStep, RestoreBackup, NothingToRestore, RestoreFile, RestoreDone
  <2> QED
    BY <2>3 DEF LoadState, history, OnDisk, Acknowledged
<1>3. CASE UNCHANGED vars
  BY <1>3 DEF vars, history, OnDisk, Acknowledged
<1>4. ASSUME NEW a \in Actor, TakeRuntime(a) \/ SaveFails(a)
      PROVE  UNCHANGED <<OnDisk, Acknowledged>>
  BY <1>4 DEF TakeRuntime, SaveFails, history, OnDisk, Acknowledged
<1>5. ASSUME \/ \E t \in Trade : OpenPosition(t) \/ exitPosition(t)
             \/ BookTrade \/ FlushLedger \/ persist \/ maybeBackup \/ acknowledgeAlert
      PROVE  UNCHANGED <<OnDisk, Acknowledged>>
  BY <1>5 DEF OpenPosition, exitPosition, BookTrade, FlushLedger, persist, maybeBackup,
              acknowledgeAlert, history, OnDisk, Acknowledged
<1> QED
  BY <1>1, <1>2, <1>3, <1>4, <1>5 DEF Next, SaveStep

(* A file that was once damaged stays in the record.                       *)
LEMMA DamageIsKept == [Next]_vars => (damaged => damaged')
  BY DEF Next, SaveStep, InitStep, TakeRuntime, RenameFile, SaveDone, SaveFails, OpenPosition,
         exitPosition, BookTrade, FlushLedger, persist, maybeBackup, acknowledgeAlert, Crash,
         LoadState, quarantineCorruptFile, RestoreBackup, NothingToRestore, RestoreFile,
         RestoreDone, vars, history

(* The files, their saves and their loading implement DurableStore.        *)
THEOREM StoreImplemented == Spec => StoreKept
<1>1. Init => Store!Init
  <2> SUFFICES ASSUME Init PROVE Store!Init
    OBVIOUS
  <2>1. \A f \in File : disk[f].v = Contents(Nothing)[f]
    BY DEF Init, Absent
  <2>2. /\ Contents(Nothing)["runtime"].acks = 0
        /\ Contents(Nothing)["journal"] = {} /\ Contents(Nothing)["model"] = {}
    BY DEF Contents, Nothing
  <2>3. disk["runtime"].v.acks = 0 /\ disk["journal"].v = {} /\ disk["model"].v = {}
    BY <2>1, <2>2 DEF File
  <2>4. acked.runtime.acks = 0 /\ acked.journal = {} /\ acked.model = {} /\ ~damaged
    BY <2>2 DEF Init
  <2> QED
    BY <2>3, <2>4 DEF Store!Init, Store!Nothing, OnDisk, Acknowledged
<1>2. TInv /\ DInv /\ AInv /\ (TInv /\ DInv /\ AInv)' /\ [Next]_vars
      => [Store!Next]_(Store!store)
  <2> SUFFICES ASSUME TInv, DInv, AInv, TInv', AInv', [Next]_vars
               PROVE  Store!Next \/ UNCHANGED Store!store
    OBVIOUS
  <2>1. damaged \in BOOLEAN /\ damaged' \in BOOLEAN
    BY DEF TInv, TypeOK, PhaseOK
  <2>2. CASE damaged'
    BY <2>2 DEF Store!Next, Store!Damage
  <2>3. CASE ~damaged'
    <3>1. ~damaged
      BY <2>3, DamageIsKept
    <3>2. ASSUME Store!Write \/ Store!Promise PROVE Store!Next
      BY <2>3, <3>1, <3>2 DEF Store!Next
    <3>3. CASE \E a \in Actor : RenameFile(a) \/ SaveDone(a)
      BY <3>1, <3>2, <3>3, RenameIsWrite, DoneIsPromise
    <3>4. CASE \A a \in Actor : ~RenameFile(a) /\ ~SaveDone(a)
      BY <2>1, <2>3, <3>1, <3>4, OthersAreStutters DEF Store!store
    <3> QED
      BY <3>3, <3>4
  <2> QED
    BY <2>1, <2>2, <2>3
<1>3. Init => AInv
  BY AckInit
<1>4. TInv /\ TInv' /\ DInv /\ AInv /\ [Next]_vars => AInv'
  BY AckStep
<1> QED
  BY <1>1, <1>2, <1>3, <1>4, DisjointInvariant, PTL DEF Spec, StoreKept, Store!Spec
=============================================================================
