------------------------- MODULE StatisticsSharing -------------------------
(***************************************************************************)
(* The publisher of hourly cost statistics: an administrator's consent, a   *)
(* durable ledger of facts with a write-ahead intent, deterministic jobs    *)
(* for the Recorder, a readback before the intent is dropped, and the       *)
(* durable cursor of automatic updates (energy_statistics_publisher.py,     *)
(* energy_statistics_ledger.py, energy_statistics_recorder.py).             *)
(*                                                                          *)
(* All operations of all publisher instances of a config entry share one    *)
(* lock, so at most one is in progress.  The Recorder runs its own queue;   *)
(* a crash loses the queue, never the rows.  Permissions, busy lanes and    *)
(* exceptions of collaborators are an operation that gives up (OpAborts).   *)
(***************************************************************************)
EXTENDS Integers, Sequences, SequencesExt

CONSTANTS
  Series,      \* series of one consent epoch
  Always,      \* series that every projection supplies (unassigned, unmeasured)
  Costs,       \* measured hourly costs
  Unknown,     \* a fact without a known cost
  Absent,      \* no fact
  Datasets,    \* source, tariff and currency bindings
  Authors,     \* administrators
  None,
  MaxLag,      \* hours after which automatic updates pause (168 in the code)
  MaxHour,     \* bound: hours that pass
  MaxRevision, \* bound: enables and disables
  MaxEpoch,    \* bound: epochs
  MaxQueue,    \* bound: jobs in the Recorder's queue
  MaxPub,      \* bound: reloads and restarts
  MaxRemoved   \* bound: series removed from the Recorder by someone else

ASSUME SharingAssumption ==
  /\ IsFiniteSet(Series) /\ Always \subseteq Series
  /\ Costs \subseteq Nat
  /\ Unknown \notin Costs /\ Absent \notin Costs /\ Unknown # Absent
  /\ None \notin Datasets
  /\ {MaxLag, MaxHour, MaxRevision, MaxEpoch, MaxQueue, MaxPub, MaxRemoved} \subseteq Nat
  /\ MaxHour >= 1

Hours == 1 .. MaxHour

(* An epoch is a fresh uuid; every enable that does not keep one takes the next. *)
Epochs == 1 .. MaxEpoch

Cells == Costs \cup {Unknown, Absent}

VARIABLES
  now,       \* the latest completed hour
  dataset,   \* the binding the sources have now
  pub,       \* the publisher instance in use
  cache,     \* its _state
  disk,      \* the durable document
  op,        \* the operation that holds the lock
  queue,     \* Recorder jobs; the first one may be dequeued already
  rows,      \* imported rows, by epoch and series
  epochs,    \* epochs taken
  removed    \* history: series tampered with outside the integration

vars == <<now, dataset, pub, cache, disk, op, queue, rows, epochs, removed>>
worldVars == <<now, dataset, rows, epochs, removed>>

(***************************************************************************)
(* The document.                                                            *)
(***************************************************************************)
EmptyState ==
  [revision |-> 0, share |-> None, pending |-> None, cursor |-> None, archived |-> <<>>,
   points |-> [e \in Epochs |-> [s \in Series |-> [h \in Hours |-> Absent]]]]

Shares == [enabled : BOOLEAN, author : Authors, epoch : Epochs, dataset : Datasets]
Intents == [series : SUBSET Series, clear : SUBSET Series]
Archives == [epoch : Epochs, series : SUBSET Series]
Cursors == [next : 1 .. MaxHour + 1, last : 0 .. MaxHour, paused : BOOLEAN]
Points == [Epochs -> [Series -> [Hours -> Cells]]]

ASSUME NoneAssumption == None \notin Shares /\ None \notin Intents /\ None \notin Cursors

Documents ==
  [revision : 0 .. MaxRevision, share : {None} \cup Shares, pending : {None} \cup Intents,
   cursor : {None} \cup Cursors, archived : Seq(Archives), points : Points]

Enabled(d) == d.share # None /\ d.share.enabled

(* merge_facts: new facts of an hour replace older ones; a series that lost its *)
(* fact for a supplied hour becomes unknown instead of keeping a stale cost.    *)
MergedPoints(old, facts) ==
  [s \in Series |-> [h \in Hours |->
     IF h \notin DOMAIN facts THEN old[s][h]
     ELSE IF facts[h][s] # Absent THEN facts[h][s]
     ELSE IF old[s][h] \in Costs THEN Unknown ELSE old[s][h]]]

Touched(old, new) == {s \in Series : new[s] # old[s]}

(* Imports never delete rows: a cost that became unknown needs a clear first. *)
Cleared(old, new) == {s \in Series : \E h \in Hours : old[s][h] \in Costs /\ new[s][h] \notin Costs}

Intended(d) == IF d.pending = None THEN [series |-> {}, clear |-> {}] ELSE d.pending

MergeFacts(d, facts) ==
  LET old == d.points[d.share.epoch]
      new == MergedPoints(old, facts)
      series == Intended(d).series \cup Touched(old, new)
      clear == Intended(d).clear \cup Cleared(old, new)
  IN [d EXCEPT !.points[d.share.epoch] = new,
               !.pending = IF series = {} THEN None ELSE [series |-> series, clear |-> clear]]

(* make_plan: the cumulative sums of every known hour. *)
Sums(points) ==
  LET total[h \in 0 .. MaxHour] ==
        IF h = 0 THEN 0 ELSE total[h - 1] + (IF points[h] \in Costs THEN points[h] ELSE 0)
  IN [h \in {k \in Hours : points[k] \in Costs} |-> total[h]]

Jobs(d) ==
  LET e == d.share.epoch
      clears == IF d.pending.clear = {} THEN <<>>
                ELSE << [do |-> "clear", epoch |-> e, series |-> d.pending.clear] >>
      order == SetToSeq(d.pending.series)
  IN clears \o [i \in 1 .. Len(order) |->
       [do |-> "import", epoch |-> e, series |-> {order[i]}, rows |-> Sums(d.points[e][order[i]])]]

(***************************************************************************)
(* The lock, the cache and the confirmed write.                             *)
(***************************************************************************)
NoOp == [pc |-> "idle"]

After == [savingCursor |-> "cursor", savingPause |-> "idle", savingIntent |-> "enqueue",
          savingConfirmed |-> "complete", savingCompleted |-> "idle",
          savingShare |-> "idle", savingDisable |-> "idle"]

Saving == DOMAIN After

Begin(pc, runtime, window, cand) ==
  op' = [pc |-> pc, runtime |-> runtime, pub |-> pub, now |-> now, window |-> window, cand |-> cand]

Goto(pc, cand) == op' = [op EXCEPT !.pc = pc, !.cand = cand]

End == op' = NoOp

(* The operation belongs to the publisher in use. *)
Live == op.pub = pub

(* _guard: the service runs and the dataset is the consented one. *)
Guard_Mutant == Live

Guard == Live /\ dataset = disk.share.dataset

(* _load: the lock is free, and the document is read once per instance. *)
Loads == op = NoOp /\ cache' = disk

(* A write that fails, or whose caller was cancelled, drops the cache; it may  *)
(* have reached the disk.                                                      *)
CacheAfterFailure_Mutant == cache

CacheAfterFailure == None

SaveEnds(ok, durable) ==
  /\ op.pc \in Saving
  /\ ok => durable
  /\ disk' = IF durable THEN op.cand ELSE disk
  /\ cache' = IF ~Live THEN cache ELSE IF ok THEN op.cand ELSE CacheAfterFailure
  /\ IF ok /\ After[op.pc] # "idle" THEN Goto(After[op.pc], None) ELSE End
  /\ UNCHANGED <<worldVars, pub, queue>>

opFrame == <<worldVars, pub, disk, queue>>

(***************************************************************************)
(* Consent: async_enable and async_disable.                                 *)
(***************************************************************************)
KeepsEpoch_Mutant(d) == d.share # None /\ d.share.dataset = dataset

(* The consent is extended, not replaced. *)
KeepsEpoch(d) == d.share # None /\ d.share.enabled /\ d.share.dataset = dataset

Enable(a) ==
  /\ disk.revision < MaxRevision
  /\ Loads
  /\ disk.pending # None => KeepsEpoch(disk) /\ disk.share.author = a
  /\ LET epoch == IF KeepsEpoch(disk) THEN disk.share.epoch ELSE epochs + 1
     IN /\ epoch \in Epochs
        /\ epochs' = IF KeepsEpoch(disk) THEN epochs ELSE epoch
        /\ Begin("savingShare", FALSE, {},
             [disk EXCEPT !.share = [enabled |-> TRUE, author |-> a, epoch |-> epoch, dataset |-> dataset],
                          !.revision = @ + 1, !.cursor = None])
  /\ UNCHANGED <<now, dataset, rows, removed, pub, disk, queue>>

Archived_Mutant(d) == d.archived

(* The intent that was never confirmed is kept for reference. *)
Archived(d) ==
  IF d.pending = None THEN d.archived
  ELSE Append(d.archived, [epoch |-> d.share.epoch, series |-> d.pending.series])

Disable ==
  /\ disk.revision < MaxRevision
  /\ Loads
  /\ Begin("savingDisable", FALSE, {},
       [disk EXCEPT !.share = IF @ = None THEN None ELSE [@ EXCEPT !.enabled = FALSE],
                    !.archived = Archived(disk),
                    !.pending = None, !.cursor = None, !.revision = @ + 1])
  /\ UNCHANGED opFrame

(* async_status: nothing but the cached document. *)
StatusReads ==
  /\ Loads
  /\ UNCHANGED <<opFrame, op>>

(***************************************************************************)
(* async_refresh: by an administrator, or by the hourly runtime.            *)
(***************************************************************************)

(* The last completed hour, or a backfill of the hours so far. *)
RefreshBegins ==
  /\ Loads
  /\ Enabled(disk)
  /\ \E window \in {{now}, 1 .. now} : Begin("facts", FALSE, window, None)
  /\ UNCHANGED opFrame

(* The cursor is durable before any source is read. *)
RuntimeBegins ==
  /\ Loads
  /\ Enabled(disk)
  /\ IF disk.cursor = None
     THEN Begin("savingCursor", TRUE, {},
            [disk EXCEPT !.cursor = [next |-> now, last |-> 0, paused |-> FALSE]])
     ELSE Begin("cursor", TRUE, {}, None)
  /\ UNCHANGED opFrame

RuntimePauses ==
  /\ op.pc = "cursor" /\ Live
  /\ op.now - disk.cursor.next >= MaxLag
  /\ ~disk.cursor.paused
  /\ Goto("savingPause", [disk EXCEPT !.cursor.paused = TRUE])
  /\ UNCHANGED <<opFrame, cache>>

(* The hour that the cursor waits for is over. *)
Due == disk.cursor.next <= op.now

RuntimeWaits ==
  /\ op.pc = "cursor" /\ Live
  /\ disk.cursor.paused \/ ~Due
  /\ End
  /\ UNCHANGED <<opFrame, cache>>

RuntimeReads ==
  /\ op.pc = "cursor" /\ Live
  /\ ~disk.cursor.paused /\ Due /\ op.now - disk.cursor.next < MaxLag
  /\ op' = [op EXCEPT !.pc = "facts", !.window = {disk.cursor.next}]
  /\ UNCHANGED <<opFrame, cache>>

Facts(window) ==
  {f \in [window -> [Series -> Cells]] : \A h \in window, s \in Always : f[h][s] # Absent}

(* A late meter: automatic updates retry the same hour. *)
SourcePending ==
  /\ op.pc = "facts" /\ op.runtime /\ Guard
  /\ End
  /\ UNCHANGED <<opFrame, cache>>

FactsMerge ==
  /\ op.pc = "facts" /\ Guard
  /\ \E facts \in Facts(op.window) :
       LET cand == MergeFacts(disk, facts) IN
       IF cand.pending = None THEN Goto("probe", None) ELSE Goto("merged", cand)
  /\ UNCHANGED <<opFrame, cache>>

(* A series that the Recorder does not have. *)
NoRows == << >>

(* The barrier returns once the queue is empty; a dequeued job may still run. *)
Barrier == Len(queue) <= 1

(* async_verify: between the first and the last fact of the hours asked for, the *)
(* rows are exactly the expected ones.                                          *)
Matches(e, s, hours) ==
  LET facts == {h \in hours : disk.points[e][s][h] # Absent}
      sums == Sums(disk.points[e][s])
  IN /\ rows[e][s] # NoRows
     /\ facts # {}
     /\ \A h \in Hours :
          (\E a, b \in facts : a <= h /\ h <= b) =>
            rows[e][s][h] = (IF h \in DOMAIN sums THEN sums[h] ELSE Absent)

(* Nothing changed: only the hours asked for are verified. *)
ViewSeries == {s \in Series : \E h \in op.window : disk.points[disk.share.epoch][s][h] # Absent}

ViewMatches == \A s \in ViewSeries : Matches(disk.share.epoch, s, op.window)

Advance_Mutant(d) == [d EXCEPT !.cursor.last = op.now, !.cursor.next = op.now + 1]

(* The very next hour, however late this one was. *)
Advance(d) == [d EXCEPT !.cursor.last = d.cursor.next, !.cursor.next = @ + 1]

(* _complete_runtime *)
Completes == IF op.runtime THEN Goto("savingCompleted", Advance(disk)) ELSE End

ProbeMatches ==
  /\ op.pc = "probe" /\ Guard
  /\ Barrier \/ ViewSeries = {}
  /\ ViewMatches
  /\ Completes
  /\ UNCHANGED <<opFrame, cache>>

(* Rows were removed or changed: clear and import them again from the ledger. *)
ProbeDiffers ==
  /\ op.pc = "probe" /\ Guard /\ Barrier
  /\ ~ViewMatches
  /\ Goto("merged", [disk EXCEPT !.pending = [series |-> ViewSeries, clear |-> ViewSeries]])
  /\ UNCHANGED <<opFrame, cache>>

(* Exact facts and intent are durable before any job. *)
SavesIntent ==
  /\ op.pc = "merged" /\ Guard
  /\ Goto("savingIntent", op.cand)
  /\ UNCHANGED <<opFrame, cache>>

(* No await between the guard and the jobs. *)
Enqueues ==
  /\ op.pc = "enqueue" /\ Guard
  /\ Len(queue \o Jobs(disk)) <= MaxQueue
  /\ queue' = queue \o Jobs(disk)
  /\ Goto("verify", None)
  /\ UNCHANGED <<worldVars, pub, disk, cache>>

Verifies ==
  /\ op.pc = "verify" /\ Guard /\ Barrier
  /\ \A s \in disk.pending.series : Matches(disk.share.epoch, s, Hours)
  /\ Goto("savingConfirmed", [disk EXCEPT !.pending = None])
  /\ UNCHANGED <<opFrame, cache>>

Confirmed ==
  /\ op.pc = "complete" /\ Guard
  /\ Completes
  /\ UNCHANGED <<opFrame, cache>>

(* A guard, a lane, the readback or a collaborator raised, or the caller was *)
(* cancelled.                                                                *)
OpAborts ==
  /\ op # NoOp /\ op.pc \notin Saving
  /\ End
  /\ UNCHANGED <<opFrame, cache>>

(***************************************************************************)
(* The Recorder, the sources and the process.                               *)
(***************************************************************************)
Applied(job, old) ==
  IF job.do = "clear" THEN NoRows
  ELSE [h \in Hours |-> IF h \in DOMAIN job.rows THEN job.rows[h]
                        ELSE IF old = NoRows THEN Absent ELSE old[h]]

RecorderApplies ==
  /\ queue # <<>>
  /\ LET job == Head(queue) IN
     rows' = [rows EXCEPT ![job.epoch] =
                [s \in Series |-> IF s \in job.series THEN Applied(job, @[s]) ELSE @[s]]]
  /\ queue' = Tail(queue)
  /\ UNCHANGED <<now, dataset, epochs, removed, pub, cache, disk, op>>

(* A job fails inside the Recorder. *)
RecorderDrops ==
  /\ queue # <<>>
  /\ queue' = Tail(queue)
  /\ UNCHANGED <<worldVars, pub, cache, disk, op>>

(* Somebody removes a series with the tools of Home Assistant. *)
SeriesRemoved(e, s) ==
  /\ Cardinality(removed) < MaxRemoved
  /\ rows[e][s] # NoRows
  /\ rows' = [rows EXCEPT ![e][s] = NoRows]
  /\ removed' = removed \cup {<<e, s>>}
  /\ UNCHANGED <<now, dataset, epochs, pub, cache, disk, op, queue>>

HourPasses ==
  /\ now < MaxHour
  /\ now' = now + 1
  /\ UNCHANGED <<dataset, rows, epochs, removed, pub, cache, disk, op, queue>>

SourceChanges ==
  /\ dataset' \in Datasets \ {dataset}
  /\ UNCHANGED <<now, rows, epochs, removed, pub, cache, disk, op, queue>>

(* The service is replaced: its publisher is stopped, an operation in progress *)
(* keeps the lock until its write has ended.                                   *)
Reload ==
  /\ pub < MaxPub
  /\ pub' = pub + 1
  /\ cache' = None
  /\ UNCHANGED <<worldVars, disk, op, queue>>

Restart ==
  /\ pub < MaxPub
  /\ pub' = pub + 1
  /\ cache' = None
  /\ disk' \in {disk} \cup (IF op.pc \in Saving THEN {op.cand} ELSE {})
  /\ op' = NoOp
  /\ queue' = <<>>
  /\ UNCHANGED worldVars

Init ==
  /\ now = 1
  /\ dataset \in Datasets
  /\ pub = 0
  /\ cache = None
  /\ disk = EmptyState
  /\ op = NoOp
  /\ queue = <<>>
  /\ rows = [e \in Epochs |-> [s \in Series |-> NoRows]]
  /\ epochs = 0
  /\ removed = {}

ConsentSteps == StatusReads \/ Disable \/ \E a \in Authors : Enable(a)

RefreshSteps ==
  \/ RefreshBegins \/ RuntimeBegins \/ RuntimePauses \/ RuntimeWaits \/ RuntimeReads
  \/ SourcePending \/ FactsMerge \/ ProbeMatches \/ ProbeDiffers \/ SavesIntent
  \/ Enqueues \/ Verifies \/ Confirmed \/ OpAborts

RecorderSteps == RecorderApplies \/ RecorderDrops \/ \E e \in Epochs, s \in Series : SeriesRemoved(e, s)

Next ==
  \/ ConsentSteps \/ RefreshSteps \/ RecorderSteps
  \/ \E ok, durable \in BOOLEAN : SaveEnds(ok, durable)
  \/ HourPasses \/ SourceChanges \/ Reload \/ Restart

Spec == Init /\ [][Next]_vars

(***************************************************************************)
(* Correctness.                                                             *)
(***************************************************************************)
JobType(job) ==
  /\ job.epoch \in Epochs /\ job.series \subseteq Series
  /\ job.do = "import" => Cardinality(job.series) = 1 /\ DOMAIN job.rows \subseteq Hours

OpType ==
  \/ op = NoOp
  \/ /\ op.pc \in Saving \cup {"cursor", "facts", "probe", "merged", "enqueue", "verify", "complete"}
     /\ op.pub \in 0 .. pub /\ op.now \in 1 .. now /\ op.window \subseteq 1 .. now
     /\ IF op.pc \in Saving \cup {"merged"} THEN op.cand \in Documents ELSE op.cand = None

(* Every document, in memory, durable or about to be written, is well formed, and *)
(* no operation looks at an hour that is not over yet.                            *)
TypeOK ==
  /\ now \in Hours /\ dataset \in Datasets /\ pub \in 0 .. MaxPub /\ epochs \in 0 .. MaxEpoch
  /\ cache # None => cache \in Documents
  /\ disk \in Documents
  /\ OpType
  /\ \A i \in 1 .. Len(queue) : JobType(queue[i])
  /\ rows \in [Epochs -> [Series -> {NoRows} \cup [Hours -> {Absent} \cup Nat]]]
  /\ removed \subseteq Epochs \X Series

(* validate_state accepts the document: the integration refuses to load any *)
(* other one.                                                               *)
ValidState(d) ==
  /\ d.pending # None =>
       /\ d.share # None
       /\ d.pending.clear \subseteq d.pending.series
       /\ \A s \in d.pending.series : \E h \in Hours : d.points[d.share.epoch][s][h] # Absent
  /\ \A i, j \in 1 .. Len(d.archived) :
       /\ d.archived[i].epoch = d.archived[j].epoch => i = j
       /\ Enabled(d) => d.share.epoch # d.archived[i].epoch
  /\ d.cursor # None => d.share # None /\ (d.cursor.last # 0 => d.cursor.next = d.cursor.last + 1)

(* Every document that a write, confirmed or not, may leave behind loads again: *)
(* energy_statistics_ledger.py validate_state raises on all others.             *)
DurableStateLoads == ValidState(disk) /\ (op.pc \in Saving => ValidState(op.cand))

(* No publisher ever acts on a consent or an intent that is not the durable one, *)
(* whatever write failed, was cancelled, or ended after a reload.                *)
CacheIsDurable == cache \in {None, disk}

IntentOf(d, e) ==
  (IF d.share # None /\ d.share.epoch = e THEN Intended(d).series ELSE {})
    \cup UNION {d.archived[i].series : i \in {i \in 1 .. Len(d.archived) : d.archived[i].epoch = e}}

(* The Recorder holds exactly the known facts of a document. *)
Holds(d, e, s) ==
  LET sums == Sums(d.points[e][s]) IN
  IF \A h \in Hours : d.points[e][s][h] = Absent THEN rows[e][s] = NoRows
  ELSE /\ rows[e][s] # NoRows
       /\ \A h \in Hours : rows[e][s][h] = (IF h \in DOMAIN sums THEN sums[h] ELSE Absent)

(* A job under way repeats what the Recorder holds already: the readback may race *)
(* the last job of its own plan.                                                 *)
Repeats(job, d, e, s) == job.do = "import" /\ job.rows = Sums(d.points[e][s])

(* The rows of a series without an intent in the document are exactly its facts,  *)
(* and no job under way changes them.                                            *)
Covered(d, e, s) ==
  s \notin IntentOf(d, e) /\ <<e, s>> \notin removed =>
    /\ Holds(d, e, s)
    /\ \A i \in 1 .. Len(queue) : queue[i].epoch = e /\ s \in queue[i].series => Repeats(queue[i], d, e, s)

(* "Persist exact facts + intent before any enqueue": every series without a       *)
(* durable intent, pending or archived, is covered, after any crash, failed job,  *)
(* reload or new consent.                                                         *)
IntentCoversRecorder == \A e \in Epochs, s \in Series : Covered(disk, e, s)

(* "Disabling sharing stops future writes", and "each dataset needs its own      *)
(* explicit consent": jobs are enqueued only for the durable, enabled consent of *)
(* the dataset the sources have at that moment.                                  *)
OnlyConsentedJobs ==
  [][\A i \in 1 .. Len(queue') :
       i > Len(queue) =>
         /\ Enabled(disk) /\ disk.share.dataset = dataset
         /\ queue'[i].epoch = disk.share.epoch]_vars

RecordedHours(d) ==
  IF d.share = None THEN {}
  ELSE {h \in Hours : \A s \in Always : d.points[d.share.epoch][s][h] # Absent}

Hourly == INSTANCE HourlyUpdates
            WITH consent <- disk.revision,
                 hour <- IF disk.cursor = None THEN None ELSE disk.cursor.next,
                 recorded <- RecordedHours(disk)

(* "It remembers the waiting hour across restarts": under one consent no hour is *)
(* skipped, and an hour is completed only with its facts in the ledger.          *)
ImplementsHourlyUpdates == Hourly!Spec
=============================================================================
