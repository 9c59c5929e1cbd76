---------------------------- MODULE SchedulerInv ----------------------------
(***************************************************************************)
(* The inductive invariants of Scheduler: IInv behind OncePerPeriodInv and  *)
(* ImplementsOncePerPeriod, LogInv behind LogIsTruthful, TrackerInv behind  *)
(* ArmedMatchesStore and EnergySilentWhenStopped.  SchedulerProofs proves    *)
(* them for every value of the constants.                                   *)
(***************************************************************************)
EXTENDS Scheduler

(* Every document a restart, or the end of the write in flight, may publish. *)
Docs == {data, disk} \cup (IF saving = Idle THEN {} ELSE {saving.cand})

(* Minutes a callback can still act for. *)
FireTimes == {clock} \cup {w.t : w \in waiting} \cup (IF job = IdleJob THEN {} ELSE {job.fire.t})

(* A stamp or report of period k is not ahead of minute t. *)
NotAhead(k, t) == k.n <= PeriodKey(k.cadence, t).n

(* Reported periods were computed from their callback's minute. *)
HandoffsKeyed == \A h \in handoffs : h.key = PeriodKey(h.key.cadence, h.fire.t)

(* Callbacks act in the order of their minutes. *)
InOrder ==
  /\ \A t \in FireTimes :
       /\ t <= clock
       /\ \A h \in handoffs : h.fire.t <= t
       /\ \A D \in Docs, s \in Sids : D.last[s] # None => NotAhead(D.last[s], t)
  /\ job # IdleJob => \A w \in waiting : job.fire.t <= w.t

(* Generations only grow, so a callback of the current one saw every edit. *)
GenerationsBounded ==
  /\ \A a \in armed : a.gen <= generation
  /\ \A g \in reloads : g <= generation
  /\ \A w \in waiting : w.gen <= generation
  /\ job # IdleJob => job.fire.gen <= generation

(* Eras and edits only grow, on the disk first; an edit number names one row.  *)
ErasGrow ==
  /\ \A D \in Docs, s \in Sids :
       /\ data.era[s] <= D.era[s]
       /\ data.edited[s] <= D.edited[s]
       /\ D.edited[s] = data.edited[s] /\ D.sched[s] # None =>
            D.sched[s] = data.sched[s] /\ D.era[s] = data.era[s]
  /\ \A h \in handoffs : h.era <= data.era[h.fire.sid]

(* A document of the era of a report holds its schedule, under the same basis, *)
(* and a stamp at least as late.                                              *)
Remembers(D, h) ==
  h.era = D.era[h.fire.sid] =>
    LET s == h.fire.sid IN
    /\ D.sched[s] # None
    /\ D.sched[s].cadence = h.key.cadence
    /\ D.last[s] # None
    /\ D.last[s].cadence = h.key.cadence
    /\ h.key.n <= D.last[s].n

Remembered == \A D \in Docs, h \in handoffs : Remembers(D, h)

(* A document that is not published yet differs from the published one only in *)
(* a period that was not reported.                                            *)
Unreported ==
  \A D \in Docs, s \in Sids :
    D.era[s] = data.era[s] =>
      D.last[s] = data.last[s] \/ (D.last[s] \in Keys /\ D.last[s] \notin Reported(s))

(* What the callback that holds the fire lock knows. *)
Matched == job # IdleJob /\ job.pc # "match"
BeforeHandoff == Matched /\ job.pc \in {"reserve", "reserving", "recheck", "reread", "prepare"}
Stamped == Matched /\ job.pc \in {"recheck", "reread", "prepare"}

JobKeyed == Matched => job.key = PeriodKey(job.cur.cadence, job.fire.t)

(* It matched an earlier edit, and a revision that is not outdated proves that *)
(* nothing was published since the re-read.                                    *)
JobSees ==
  /\ Matched => job.edited <= data.edited[job.fire.sid] /\ job.sendRev <= scheduleRevision
  /\ Matched /\ job.pc = "prepare" /\ job.sendRev = scheduleRevision => Unedited

(* Reports of its own era are of its basis, and not later than its period. *)
JobFollows ==
  Matched /\ job.pc \in {"last", "reserve", "reserving"} =>
    \A h \in handoffs :
      h.fire.sid = job.fire.sid /\ h.era = data.era[job.fire.sid] =>
        h.key.cadence = job.key.cadence /\ h.key.n <= job.key.n

JobNew ==
  BeforeHandoff =>
    \A h \in handoffs :
      h.fire.sid = job.fire.sid /\ h.era = data.era[job.fire.sid] => h.key # job.key

(* Once its stamp is published, every document of the era carries it. *)
JobStamped ==
  Stamped /\ Unedited =>
    \A D \in Docs :
      LET s == job.fire.sid IN
      D.era[s] = data.era[s] =>
        /\ D.last[s] = job.key
        /\ D.sched[s] # None
        /\ D.sched[s].cadence = job.cur.cadence

(* The write of a callback is its own, and changes one section. *)
JobWrites ==
  /\ saving.by = "fire" <=> job.pc \in {"reserving", "recording", "digesting"}
  /\ saving.by = "fire" =>
       /\ saving.cand.sched = data.sched
       /\ saving.cand.edited = data.edited
       /\ saving.cand.era = data.era
       /\ saving.cand.last = IF job.pc = "reserving"
                             THEN [data.last EXCEPT ![job.fire.sid] = job.key]
                             ELSE data.last

StoreInv == HandoffsKeyed /\ InOrder /\ GenerationsBounded /\ ErasGrow /\ Remembered /\ Unreported

JobInv == JobKeyed /\ JobSees /\ JobFollows /\ JobNew /\ JobStamped /\ JobWrites

(* The inductive invariant: what the stamps, the documents and the callback   *)
(* in progress remember of the messages already handed over.                  *)
IInv == TypeOK /\ StoreInv /\ JobInv /\ OncePerPeriodInv

(***************************************************************************)
(* The attempt log.                                                         *)
(***************************************************************************)

(* Every record that is published, that a restart would load or that is being  *)
(* written.                                                                    *)
Records == data.log \cup disk.log \cup (IF saving = Idle THEN {} ELSE saving.cand.log)

Recorded == {a.fire : a \in Records}

HandedOver == {h.fire : h \in handoffs}

(* A callback is named by its schedule, generation and minute, and the minute  *)
(* has passed: the next minute's callbacks are new.                            *)
NothingAhead ==
  /\ \A f \in waiting \cup Recorded \cup HandedOver : f.t <= clock
  /\ job # IdleJob => job.fire.t <= clock

(* A queued callback has left no trace yet. *)
WaitingIsNew ==
  /\ \A w \in waiting : w \notin Recorded /\ w \notin HandedOver
  /\ job # IdleJob => job.fire \notin waiting

(* One record for a callback, and it tells whether a message was handed over.  *)
RecordsTell ==
  \A a \in Records :
    /\ (a.outcome = "preparation_failed") <=> (a.fire \notin HandedOver)
    /\ \A b \in Records : a.fire = b.fire => a = b

(* The callback is recorded last, with what it did. *)
JobTells ==
  job # IdleJob =>
    /\ job.pc \notin {"recording", "digest", "digesting"} => job.fire \notin Recorded
    /\ job.pc \in {"match", "last", "reserve", "reserving", "recheck", "reread", "prepare"} =>
         job.fire \notin HandedOver
    /\ job.pc = "sending" => job.fire \in HandedOver
    /\ job.pc \in {"last", "reserve", "reserving", "recheck", "reread", "prepare"} =>
         job.outcome = "preparation_failed"
    /\ job.pc = "record" =>
         ((job.outcome = "preparation_failed") <=> (job.fire \notin HandedOver))

LogInv == TypeOK /\ NothingAhead /\ WaitingIsNew /\ RecordsTell /\ JobTells

(***************************************************************************)
(* The trackers.                                                            *)
(***************************************************************************)

(* No tracker or reload is of a generation to come; while the newest reload    *)
(* awaits its listing it is wanted, and has armed nothing.                     *)
ReloadsArmOnce ==
  /\ \A a \in armed : a.gen <= generation
  /\ \A g \in reloads : g <= generation
  /\ generation \in reloads =>
       scheduler = "running" /\ \A a \in armed : a.gen # generation

(* A callback's write leaves the schedules as they are. *)
FireKeepsSchedules == saving.by = "fire" => saving.cand.sched = data.sched

(* The analysis service never outlives a stop. *)
StoppedIsUnloaded == scheduler = "stopped" => entry = "unloaded"

TrackerInv ==
  TypeOK /\ ReloadsArmOnce /\ FireKeepsSchedules /\ StoppedIsUnloaded /\ ArmedMatchesStore
=============================================================================
