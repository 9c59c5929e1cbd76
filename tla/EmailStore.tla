----------------------------- MODULE EmailStore -----------------------------
(***************************************************************************)
(* EmailStorage (storage.py): one document of independent sections, read    *)
(* and replaced copy-on-write under one asyncio lock; the copy is published *)
(* once its write is confirmed.  Tariffs and the access policy are edited   *)
(* against a revision.  The first load migrates the legacy SMTP file.  Card *)
(* status is projected by worker threads that outlive a cancelled caller.   *)
(*                                                                          *)
(* An edit is a number; a section holds the last edit made to it.  A        *)
(* cancelled caller releases the lock while its file write goes on.         *)
(***************************************************************************)
EXTENDS Integers, FiniteSets

CONSTANTS
  Editors,     \* open settings dialogs
  Readers,     \* cards that ask for the status of reports
  None,
  MaxStatus,   \* admitted status requests (4 in the code)
  MaxEdit,     \* bound: edits
  MaxRestart,  \* bound: restarts
  MaxCancel    \* bound: saves whose caller is cancelled

ASSUME StoreAssumption ==
  /\ IsFiniteSet(Editors) /\ IsFiniteSet(Readers)
  /\ {MaxStatus, MaxEdit, MaxRestart, MaxCancel} \subseteq Nat

Revised == {"tariff", "policy"}
Sections == Revised \cup {"smtp", "lists"}

Unset == 0         \* a section that was never written
Migrated == -1     \* the SMTP settings of the legacy file

DocType == [edit : [Sections -> Int], rev : [Revised -> Int]]

ASSUME NoneAssumption == None \notin DocType

VARIABLES
  data,      \* the published document, or None before the first load
  disk,      \* the durable one
  op,        \* the operation that holds the lock
  orphans,   \* documents whose file write outlived its caller
  legacy,    \* the legacy SMTP file: never there, present or removed
  known,     \* what an editor last read: section, revision and edit
  edits,     \* edits begun
  acked,     \* history: the last edit of each section confirmed to its author
  cancels,   \* saves whose caller was cancelled
  restarts,
  readers,   \* cards waiting for the lock or for their worker
  workers,   \* cards whose worker thread runs
  pending    \* _report_status_pending

docVars == <<data, disk, op, orphans, legacy>>
editVars == <<known, edits, acked, cancels, restarts>>
statusVars == <<readers, workers, pending>>
vars == <<docVars, editVars, statusVars>>

Empty == [edit |-> [s \in Sections |-> Unset], rev |-> [s \in Revised |-> 0]]

NoOp == [pc |-> "free"]
Free == op = NoOp

With(doc, s, edit) ==
  [doc EXCEPT !.edit[s] = edit, !.rev = [r \in Revised |-> IF r = s THEN doc.rev[r] + 1 ELSE doc.rev[r]]]

(***************************************************************************)
(* async_load: the storage is published to the others once it has loaded.   *)
(***************************************************************************)
LoadBegins ==
  /\ Free /\ data = None
  /\ IF legacy = "present" /\ disk.edit["smtp"] = Unset
     THEN op' = [pc |-> "migrating", cand |-> With(disk, "smtp", Migrated)] /\ UNCHANGED data
     ELSE op' = [pc |-> "removing"] /\ data' = disk
  /\ UNCHANGED <<disk, orphans, legacy, editVars, statusVars>>

MigrationEnds(ok, durable) ==
  /\ op.pc = "migrating" /\ (ok => durable)
  /\ disk' = IF durable THEN op.cand ELSE disk
  /\ IF ok THEN data' = op.cand /\ op' = [pc |-> "removing"] ELSE op' = NoOp /\ UNCHANGED data
  /\ UNCHANGED <<orphans, legacy, editVars, statusVars>>

RemovesEarly_Mutant == op.pc \in {"migrating", "removing"}

(* The plaintext file goes after the Store has its settings. *)
RemovesEarly == op.pc = "removing"

LegacyRemoved ==
  /\ RemovesEarly
  /\ legacy' \in {legacy, IF legacy = "present" THEN "removed" ELSE legacy}
  /\ op' = IF op.pc = "removing" THEN NoOp ELSE op
  /\ UNCHANGED <<data, disk, orphans, editVars, statusVars>>

(***************************************************************************)
(* Edits.                                                                   *)
(***************************************************************************)
Ready == Free /\ data # None

EditorReads(e, s) ==
  /\ Ready
  /\ known' = [known EXCEPT ![e] = [section |-> s, rev |-> data.rev[s], edit |-> data.edit[s]]]
  /\ UNCHANGED <<docVars, edits, acked, cancels, restarts, statusVars>>

SaveBegins(s, seen) ==
  /\ Ready /\ edits < MaxEdit
  /\ edits' = edits + 1
  /\ op' = [pc |-> "saving", section |-> s, seen |-> seen, cand |-> With(data, s, edits + 1)]
  /\ UNCHANGED <<data, disk, orphans, legacy, known, acked, cancels, restarts, statusVars>>

RevisionMatches_Mutant(e) == TRUE

RevisionMatches(e) == known[e].rev = data.rev[known[e].section]

(* The expected revision is compared under the lock, then access is checked *)
(* again; a conflict or a refusal changes nothing.                          *)
EditorSaves(e, s) ==
  /\ known[e] # None /\ known[e].section = s
  /\ data # None /\ RevisionMatches(e)
  /\ SaveBegins(s, known[e].edit)

PolicySaves(e) == EditorSaves(e, "policy")

TariffSaves(e) == EditorSaves(e, "tariff")

SmtpSaves == data # None /\ SaveBegins("smtp", data.edit["smtp"])

(* Schedules, their state, digests and the attempt history. *)
ListsSave == data # None /\ SaveBegins("lists", data.edit["lists"])

Confirmed_Mutant(ok, durable) == TRUE

(* The lower write has completed without an error. *)
Confirmed(ok, durable) == ok /\ durable

SaveEnds(ok, durable) ==
  /\ op.pc = "saving" /\ (ok => durable)
  /\ disk' = IF durable THEN op.cand ELSE disk
  /\ IF Confirmed(ok, durable)
     THEN data' = op.cand /\ acked' = [acked EXCEPT ![op.section] = op.cand.edit[op.section]]
     ELSE UNCHANGED <<data, acked>>
  /\ op' = NoOp
  /\ UNCHANGED <<orphans, legacy, known, edits, cancels, restarts, statusVars>>

(* The caller is cancelled while the executor writes the file. *)
SaveCancelled ==
  /\ op.pc = "saving" /\ cancels < MaxCancel
  /\ cancels' = cancels + 1
  /\ orphans' = orphans \cup {op.cand}
  /\ op' = NoOp
  /\ UNCHANGED <<data, disk, legacy, known, edits, acked, restarts, statusVars>>

OrphanLands(doc) ==
  /\ doc \in orphans
  /\ orphans' = orphans \ {doc}
  /\ disk' \in {disk, doc}
  /\ UNCHANGED <<data, op, legacy, editVars, statusVars>>

(***************************************************************************)
(* async_get_report_status                                                  *)
(***************************************************************************)
Admits == pending < MaxStatus

StatusBegins(r) ==
  /\ r \notin readers /\ data # None /\ Admits
  /\ readers' = readers \cup {r}
  /\ pending' = pending + 1
  /\ UNCHANGED <<docVars, editVars, workers>>

(* The reader keeps the lock until its worker has ended. *)
StatusLocks(r) ==
  /\ Ready /\ r \in readers /\ r \notin workers
  /\ op' = [pc |-> "status", reader |-> r]
  /\ workers' = workers \cup {r}
  /\ UNCHANGED <<data, disk, orphans, legacy, editVars, readers, pending>>

Holds(r) == op.pc = "status" /\ op.reader = r

(* The done callback gives the admission back; the caller, if it is still there, *)
(* answers and releases the lock.                                                *)
WorkerEnds(r) ==
  /\ r \in workers
  /\ workers' = workers \ {r}
  /\ pending' = pending - 1
  /\ readers' = readers \ {r}
  /\ op' = IF Holds(r) THEN NoOp ELSE op
  /\ UNCHANGED <<data, disk, orphans, legacy, editVars>>

(* Without a worker; otherwise the worker keeps the admission. *)
GivesBack(r) == r \notin workers

StatusCancelled(r) ==
  /\ r \in readers /\ (r \in workers => Holds(r))
  /\ pending' = IF GivesBack(r) THEN pending - 1 ELSE pending
  /\ readers' = IF r \in workers THEN readers ELSE readers \ {r}
  /\ op' = IF Holds(r) THEN NoOp ELSE op
  /\ UNCHANGED <<data, disk, orphans, legacy, editVars, workers>>

(* Writes under way may or may not have reached the disk. *)
Restart ==
  /\ restarts < MaxRestart
  /\ restarts' = restarts + 1
  /\ disk' \in {disk} \cup orphans \cup (IF op.pc \in {"saving", "migrating"} THEN {op.cand} ELSE {})
  /\ data' = None /\ op' = NoOp /\ orphans' = {}
  /\ readers' = {} /\ workers' = {} /\ pending' = 0
  /\ UNCHANGED <<legacy, known, edits, acked, cancels>>

Init ==
  /\ data = None /\ disk = Empty /\ op = NoOp /\ orphans = {}
  /\ legacy \in {"none", "present"}
  /\ known = [e \in Editors |-> None]
  /\ edits = 0 /\ acked = [s \in Sections |-> Migrated] /\ cancels = 0 /\ restarts = 0
  /\ readers = {} /\ workers = {} /\ pending = 0

LoadSteps == LoadBegins \/ LegacyRemoved \/ \E ok, durable \in BOOLEAN : MigrationEnds(ok, durable)

EditSteps ==
  \/ \E e \in Editors : PolicySaves(e) \/ TariffSaves(e) \/ \E s \in Revised : EditorReads(e, s)
  \/ SmtpSaves \/ ListsSave \/ SaveCancelled
  \/ \E ok, durable \in BOOLEAN : SaveEnds(ok, durable)
  \/ \E doc \in orphans : OrphanLands(doc)

StatusSteps ==
  \E r \in Readers : StatusBegins(r) \/ StatusLocks(r) \/ WorkerEnds(r) \/ StatusCancelled(r)

Next == LoadSteps \/ EditSteps \/ StatusSteps \/ Restart

Spec == Init /\ [][Next]_vars

(***************************************************************************)
(* Correctness.                                                             *)
(***************************************************************************)
Documents == [edit : [Sections -> Migrated .. MaxEdit], rev : [Revised -> 0 .. MaxEdit]]

(* Besides the types: no more status requests are admitted than the limit, and *)
(* each one is counted exactly once until it answered or its worker ended.     *)
TypeOK ==
  /\ data \in {None} \cup Documents /\ disk \in Documents /\ orphans \subseteq Documents
  /\ op.pc \in {"free", "migrating", "removing", "saving", "status"}
  /\ legacy \in {"none", "present", "removed"}
  /\ known \in [Editors -> {None} \cup [section : Revised, rev : 0 .. MaxEdit, edit : Unset .. MaxEdit]]
  /\ acked \in [Sections -> Migrated .. edits]
  /\ readers \subseteq Readers /\ workers \subseteq readers
  /\ pending = Cardinality(readers) /\ pending \in 0 .. MaxStatus

Durable == \A s \in Sections : disk.edit[s] >= acked[s]

(* "publish only after atomic persistence" (async_append_attempt), as long as no *)
(* caller is cancelled during its write: whatever was confirmed to its author, in *)
(* any section, is on disk, across failed writes of other sections and restarts. *)
AckedIsDurable == cancels = 0 => Durable

(* "serialized Store save; publish only after atomic persistence": the same       *)
(* without the condition.                                                         *)
SerializedSaves == Durable

(* "a stale editor must explicitly reload" (async_save_tariff): an edit of a      *)
(* tariff or the policy replaces exactly the edit its author was looking at, even *)
(* when the dialog stayed open across a restart after an unconfirmed write.       *)
NoLostUpdate ==
  cancels = 0 /\ op.pc = "saving" /\ op.section \in Revised => op.seen = data.edit[op.section]

(* "Remove the plaintext legacy file after Store persistence succeeds": the       *)
(* settings are never in neither place, at whatever step the migration stops.     *)
LegacyKept == legacy = "removed" => disk.edit["smtp"] # Unset

(***************************************************************************)
(* The inductive invariant behind AckedIsDurable, NoLostUpdate, LegacyKept. *)
(***************************************************************************)
VarTypes ==
  /\ disk \in DocType /\ orphans \subseteq DocType
  /\ data = None \/ data \in DocType
  /\ edits \in Nat /\ cancels \in Nat
  /\ acked \in [Sections -> Int]
  /\ \A e \in Editors : known[e] = None \/ known[e] \in [section : Revised, rev : Int, edit : Int]
  /\ legacy \in {"none", "present", "removed"}

(* What each step of a load or a save has established. *)
Stages ==
  /\ op.pc \in {"free", "migrating", "removing", "saving", "status"}
  /\ data = None => orphans = {} /\ op.pc \in {"free", "migrating"}
  /\ op.pc = "migrating" =>
       /\ data = None /\ disk.edit["smtp"] = Unset
       /\ op.cand = With(disk, "smtp", Migrated)
  /\ op.pc = "removing" =>
       /\ orphans = {} /\ data = disk
       /\ legacy = "present" => disk.edit["smtp"] # Unset
  /\ op.pc = "saving" =>
       /\ op.section \in Sections /\ edits >= 1
       /\ op.cand = With(data, op.section, edits)

(* Documents that may become the durable one without an orphan. *)
InUse ==
  {disk} \cup (IF data = None THEN {} ELSE {data})
         \cup (IF op.pc \in {"saving", "migrating"} THEN {op.cand} ELSE {})

SettingsInUse == legacy = "removed" => \A d \in InUse \cup orphans : d.edit["smtp"] # Unset

AckedInUse ==
  /\ \A s \in Sections : acked[s] <= edits /\ acked[s] >= Migrated /\ acked[s] # Unset
  /\ \A d \in InUse, s \in Sections : d.edit[s] >= acked[s]

(* No document holds, under a revision an editor knows, anything but its edit. *)
KnownInUse ==
  \A e \in Editors, d \in InUse : known[e] # None =>
    /\ known[e].rev <= d.rev[known[e].section]
    /\ known[e].rev = d.rev[known[e].section] => known[e].edit = d.edit[known[e].section]

(* The durable document is the published one, or a failed save left it ahead. *)
DiskAhead ==
  data # None => \A r \in Revised :
    /\ data.rev[r] <= disk.rev[r]
    /\ data.rev[r] = disk.rev[r] => data.edit[r] = disk.edit[r]

StoreInv ==
  /\ VarTypes /\ Stages /\ SettingsInUse
  /\ cancels = 0 => orphans = {} /\ AckedInUse /\ KnownInUse /\ DiskAhead /\ NoLostUpdate
=============================================================================
