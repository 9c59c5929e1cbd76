----------------------------- MODULE Scheduler -----------------------------
(***************************************************************************)
(* The schedule dispatcher of ha_tools_email: minute callbacks (_fire in    *)
(* scheduler.py), the fire lock they share, the reload and stop of the      *)
(* trackers, the administrator's edits (websocket_api.py) and the confirmed *)
(* Store writes they all go through (storage.py), up to the moment a        *)
(* message is handed to the SMTP executor job.                              *)
(*                                                                          *)
(* Time is a minute counter.  A period basis (cadence and zone) maps a      *)
(* minute to a period number; the calendar arithmetic itself is not here.   *)
(* `generation' is never reset: a restart of the process is one more        *)
(* generation, which names its callbacks apart from the ones that died.     *)
(***************************************************************************)
EXTENDS Integers, FiniteSets

CONSTANTS
  Sids,        \* schedule ids
  Cadences,    \* period bases
  PeriodLen,   \* minutes in a period, per basis
  Drafts,      \* the schedules an administrator may save
  None,        \* no schedule, no stamp
  MaxClock,    \* bound: minutes that pass
  MaxGen       \* bound: reloads, stops and restarts

Kinds == {"log_digest", "energy_report"}
Outcomes == {"preparation_failed", "accepted_by_smtp", "send_failed"}

ASSUME ConstantsAssumption ==
  /\ PeriodLen \in [Cadences -> Nat \ {0}]
  /\ Drafts \subseteq [cadence : Cadences, offset : Nat, kind : Kinds, enabled : BOOLEAN]
  /\ MaxClock \in Nat
  /\ MaxGen \in Nat

Keys == [cadence : Cadences, n : Nat]

ASSUME NoneAssumption == None \notin Drafts /\ None \notin Keys

VARIABLES
  clock,             \* the current minute
  data,              \* EmailStorage._data: the published state
  disk,              \* the state a restart would load
  saving,            \* the write in flight under EmailStorage._lock, or Idle
  generation,        \* bucket["schedule_generation"]
  scheduleRevision,  \* EmailStorage._schedule_revision
  consumed,          \* bucket["schedule_consumed_periods"]
  armed,             \* bucket[DATA_SCHEDULER_UNSUBS]: live minute trackers
  reloads,           \* generations whose reload still awaits its listing
  entry,             \* where async_setup_entry is
  waiting,           \* _fire callbacks queued on the fire lock
  job,               \* the _fire callback that holds the fire lock
  handoffs,          \* history: messages handed to the SMTP executor job
  scheduler          \* history: "stopped" until something reloads

vars == <<clock, data, disk, saving, generation, scheduleRevision, consumed, armed,
          reloads, entry, waiting, job, handoffs, scheduler>>
storeVars == <<data, disk, saving>>
trackerVars == <<generation, armed, reloads, scheduler>>

(***************************************************************************)
(* Values.                                                                  *)
(***************************************************************************)
Fires == [sid : Sids, gen : Nat, t : Nat]

Attempts == [fire : Fires, outcome : Outcomes]

(* The sections of the Store document.  `edited' stands for updated_at, new *)
(* on every upsert.  `era' is a history counter: it tells apart the lives of *)
(* a schedule id, and its period bases.                                      *)
Data == [sched  : [Sids -> Drafts \cup {None}],
         edited : [Sids -> Nat],
         last   : [Sids -> Keys \cup {None}],
         era    : [Sids -> Nat],
         log    : SUBSET Attempts,
         digest : [Cadences -> Nat]]

IdleJob == [pc |-> "idle"]

Matching == [pc : {"match"}, fire : Fires]

Pcs == {"last", "reserve", "reserving", "recheck", "reread", "prepare", "sending",
        "record", "recording", "digest", "digesting"}

(* cur, edited: the schedule as matched; key: its period; sendGen, sendRev: the *)
(* generation and revision that async_send_report froze.                       *)
Jobs == [pc : Pcs, fire : Fires, cur : Drafts, edited : Nat, key : Keys,
         sendGen : Nat, sendRev : Nat, outcome : Outcomes]

Phases == {"unloaded", "setup", "published", "loaded"}

Idle == [by |-> "none"]

PeriodKey(c, t) == [cadence |-> c, n |-> t \div PeriodLen[c]]

Due(d, t) == d.enabled /\ t % PeriodLen[d.cadence] = d.offset

(* bucket["energy_analysis"] is there. *)
HasAnalysis == entry \in {"published", "loaded"}

Armable(d) == d # None /\ d.enabled /\ (d.kind = "energy_report" => HasAnalysis)

StoreFree == saving = Idle

(* A generation is left for the reload that a pending edit will start. *)
Budget == generation + (IF saving.by = "admin" THEN 1 ELSE 0) < MaxGen

Init ==
  /\ clock = 0
  /\ \E stored \in [Sids -> Drafts \cup {None}] :
       data = [sched |-> stored, edited |-> [s \in Sids |-> 0],
               last |-> [s \in Sids |-> None], era |-> [s \in Sids |-> 0], log |-> {}, digest |-> [c \in Cadences |-> 0]]
  /\ disk = data
  /\ saving = Idle
  /\ generation = 1
  /\ scheduleRevision = 0
  /\ consumed = [s \in Sids |-> None]
  /\ armed = {}
  /\ reloads = {1}
  /\ entry = "setup"
  /\ waiting = {}
  /\ job = IdleJob
  /\ handoffs = {}
  /\ scheduler = "running"

(***************************************************************************)
(* Trackers: reload, stop, minute callbacks.                                *)
(***************************************************************************)

NextGeneration == generation + 1

(* The synchronous prefix of async_reload_schedules: a new generation, every *)
(* tracker released; the listing is awaited.                                 *)
ReloadBegins ==
  /\ generation' = NextGeneration
  /\ armed' = {}
  /\ reloads' = reloads \cup {NextGeneration}
  /\ scheduler' = "running"

(* A tracker carries the generation its reload captured before the listing. *)
TrackerGeneration_Mutant(g) == generation

TrackerGeneration(g) == g

(* The listing answered: prune, then arm one tracker per active schedule. A  *)
(* reload overtaken by a newer one still arms, with its own old generation.  *)
ReloadFinishes(g) ==
  /\ g \in reloads
  /\ StoreFree
  /\ reloads' = reloads \ {g}
  /\ consumed' = [s \in Sids |-> IF data.sched[s] = None THEN None ELSE consumed[s]]
  /\ armed' = armed \cup {[sid |-> s, gen |-> TrackerGeneration(g)] :
                             s \in {s \in Sids : Armable(data.sched[s])}}
  /\ UNCHANGED <<clock, storeVars, generation, scheduleRevision, entry, waiting, job,
                 handoffs, scheduler>>

(* One minute passes: every armed tracker queues a callback. *)
Tick ==
  /\ clock < MaxClock
  /\ clock' = clock + 1
  /\ waiting' = waiting \cup {[sid |-> a.sid, gen |-> a.gen, t |-> clock + 1] : a \in armed}
  /\ UNCHANGED <<storeVars, scheduleRevision, consumed, trackerVars, entry, job, handoffs>>

(***************************************************************************)
(* The callback.  The fire lock is held from FireStarts to FireEnds, and    *)
(* asyncio serves its waiters in order, so the earliest minute goes first.  *)
(***************************************************************************)
fireFrame == <<clock, scheduleRevision, trackerVars, entry>>

FireEnds == job' = IdleJob

Goto(pc) == job' = [job EXCEPT !.pc = pc]

FireStarts(f) ==
  /\ job = IdleJob
  /\ f \in waiting
  /\ \A w \in waiting : f.t <= w.t
  /\ waiting' = waiting \ {f}
  /\ IF f.gen = generation THEN job' = [pc |-> "match", fire |-> f] ELSE FireEnds
  /\ UNCHANGED <<fireFrame, storeVars, consumed, handoffs>>

(* async_get_schedule answered: match the minute and read the memory fence. *)
FireMatches ==
  /\ job.pc = "match"
  /\ StoreFree
  /\ LET cur == data.sched[job.fire.sid]
         key == PeriodKey(cur.cadence, job.fire.t)
     IN IF cur = None
        THEN FireEnds
        ELSE IF ~Due(cur, job.fire.t) \/ consumed[job.fire.sid] = key
             THEN FireEnds
             ELSE job' = [pc |-> "last", fire |-> job.fire, cur |-> cur,
                          edited |-> data.edited[job.fire.sid], key |-> key,
                          sendGen |-> 0, sendRev |-> 0, outcome |-> "preparation_failed"]
  /\ UNCHANGED <<fireFrame, storeVars, consumed, waiting, handoffs>>

AlreadyStamped_Mutant(f, key) == FALSE

AlreadyStamped(f, key) == data.last[f.sid] = key

(* async_get_last_fired answered: the durable fence, then the memory one is set. *)
FireReserves ==
  /\ job.pc = "last"
  /\ StoreFree
  /\ IF AlreadyStamped(job.fire, job.key) \/ job.fire.gen # generation
     THEN FireEnds /\ UNCHANGED consumed
     ELSE /\ consumed' = [consumed EXCEPT ![job.fire.sid] = job.key]
          /\ Goto("reserve")
  /\ UNCHANGED <<fireFrame, storeVars, waiting, handoffs>>

(* A write of the callback starts under the store lock. *)
FireSaves(from, to, cand) ==
  /\ job.pc = from
  /\ StoreFree
  /\ saving' = [by |-> "fire", cand |-> cand]
  /\ Goto(to)
  /\ UNCHANGED <<fireFrame, data, disk, consumed, waiting, handoffs>>

FireSavesStamp ==
  FireSaves("reserve", "reserving", [data EXCEPT !.last[job.fire.sid] = job.key])

(* The stamp is published: the generation is compared first, then the schedule *)
(* is read again, which awaits.                                               *)
FireRechecks ==
  /\ job.pc = "recheck"
  /\ IF job.fire.gen = generation THEN Goto("reread") ELSE FireEnds
  /\ UNCHANGED <<fireFrame, storeVars, consumed, waiting, handoffs>>

Unedited_Mutant == data.sched[job.fire.sid] # None

(* The schedule the callback matched, with its updated_at, is the published one. *)
Unedited == data.sched[job.fire.sid] = job.cur /\ data.edited[job.fire.sid] = job.edited

(* The re-read answered.  async_send_report freezes the generation and the     *)
(* revision it finds now; an energy report needs its service and an actor.     *)
FireRereads ==
  /\ job.pc = "reread"
  /\ StoreFree
  /\ \/ /\ Unedited
        /\ job.cur.kind = "energy_report" => HasAnalysis
        /\ job' = [job EXCEPT !.pc = "prepare", !.sendGen = generation,
                              !.sendRev = scheduleRevision]
     \/ /\ ~Unedited \/ job.cur.kind = "energy_report"
        /\ FireEnds
  /\ UNCHANGED <<fireFrame, storeVars, consumed, waiting, handoffs>>

(* Configuration, composition or authorization fails, or the schedule changed. *)
PreparationFails ==
  /\ job.pc = "prepare"
  /\ Goto("record")
  /\ UNCHANGED <<fireFrame, storeVars, consumed, waiting, handoffs>>

HandoffFence_Mutant ==
  IF job.cur.kind = "log_digest"
  THEN StoreFree /\ Unedited
  ELSE scheduleRevision = job.sendRev

(* The last fence before the executor job: a log digest re-reads the schedule  *)
(* and the generation; an energy report compares generation, revision and      *)
(* service after its final authorization await.                               *)
HandoffFence ==
  /\ job.sendGen = generation
  /\ IF job.cur.kind = "log_digest"
     THEN StoreFree /\ Unedited
     ELSE scheduleRevision = job.sendRev /\ HasAnalysis

HandsOff ==
  /\ job.pc = "prepare"
  /\ HandoffFence
  /\ handoffs' = handoffs \cup {[fire |-> job.fire, key |-> job.key,
                                 era |-> data.era[job.fire.sid]]}
  /\ Goto("sending")
  /\ UNCHANGED <<fireFrame, storeVars, consumed, waiting>>

SmtpOutcomes_Mutant == {"accepted_by_smtp", "preparation_failed"}

SmtpOutcomes == {"accepted_by_smtp", "send_failed"}

(* The executor job answered or raised. *)
SmtpAnswers ==
  /\ job.pc = "sending"
  /\ \E o \in SmtpOutcomes :
       job' = [job EXCEPT !.pc = "record", !.outcome = o]
  /\ UNCHANGED <<fireFrame, storeVars, consumed, waiting, handoffs>>

(* The `finally' of async_dispatch_attempt. *)
FireSavesAttempt ==
  FireSaves("record", "recording",
    [data EXCEPT !.log = @ \cup {[fire |-> job.fire, outcome |-> job.outcome]}])

(* After an accepted log digest: the digest state of its cadence. *)
FireSavesDigest ==
  FireSaves("digest", "digesting", [data EXCEPT !.digest[job.cur.cadence] = job.fire.t])

(***************************************************************************)
(* Store writes end.  `durable': the lower write reached the disk; `ok': it *)
(* was also confirmed to the caller.  A write may be durable and still raise.*)
(***************************************************************************)
Published(ok, durable) == IF ok THEN saving.cand ELSE data

WriteEnds(ok, durable) ==
  /\ saving # Idle
  /\ ok => durable
  /\ saving' = Idle
  /\ disk' = IF durable THEN saving.cand ELSE disk
  /\ data' = Published(ok, durable)

StampUnconfirmed_Mutant == Goto("reserve")

StampUnconfirmed == FireEnds

(* What _fire does with the answer: only an unconfirmed stamp raises; a failed *)
(* attempt record or digest state is swallowed.                               *)
FireWriteEnds(ok, durable) ==
  /\ saving.by = "fire"
  /\ WriteEnds(ok, durable)
  /\ \/ /\ job.pc = "reserving"
        /\ IF ok THEN Goto("recheck") ELSE StampUnconfirmed
     \/ /\ job.pc = "recording"
        /\ IF job.outcome = "accepted_by_smtp" /\ job.cur.kind = "log_digest"
           THEN Goto("digest") ELSE FireEnds
     \/ /\ job.pc = "digesting"
        /\ FireEnds
  /\ UNCHANGED <<fireFrame, consumed, waiting, handoffs>>

(***************************************************************************)
(* The administrator: set_schedule.                                         *)
(***************************************************************************)
adminFrame == <<clock, consumed, entry, waiting, job, handoffs>>

AdminSaves(cand) ==
  /\ StoreFree
  /\ Budget
  /\ saving' = [by |-> "admin", cand |-> cand]
  /\ UNCHANGED <<adminFrame, data, disk, scheduleRevision, trackerVars>>

Edited_Mutant(s) == data.edited[s]

(* updated_at *)
Edited(s) == data.edited[s] + 1

(* A change of the period basis opens a new era. *)
Upsert(s, d) ==
  AdminSaves([data EXCEPT !.sched[s] = d, !.edited[s] = Edited(s),
    !.era[s] = IF data.sched[s] # None /\ data.sched[s].cadence # d.cadence THEN @ + 1 ELSE @])

Delete(s) ==
  /\ data.sched[s] # None
  /\ AdminSaves([data EXCEPT !.sched[s] = None, !.last[s] = None, !.era[s] = @ + 1])

(* Nothing to delete: nothing is written, but the trackers are reloaded. *)
DeleteMissing(s) ==
  /\ StoreFree /\ Budget
  /\ data.sched[s] = None
  /\ ReloadBegins
  /\ UNCHANGED <<adminFrame, storeVars, scheduleRevision>>

(* Publish, bump the revision and start the reload, with no await between. *)
AdminWriteEnds(ok, durable) ==
  /\ saving.by = "admin"
  /\ WriteEnds(ok, durable)
  /\ IF ok
     THEN scheduleRevision' = scheduleRevision + 1 /\ ReloadBegins
     ELSE UNCHANGED <<scheduleRevision, trackerVars>>
  /\ UNCHANGED adminFrame

(***************************************************************************)
(* The config entry and the process.                                        *)
(***************************************************************************)

(* async_setup_entry: _async_ensure_setup reloads, the analysis service is      *)
(* published, and the schedules are reloaded at the end.                       *)
EntrySetsUp ==
  /\ Budget
  /\ entry = "unloaded"
  /\ entry' = "setup"
  /\ ReloadBegins
  /\ UNCHANGED <<clock, storeVars, scheduleRevision, consumed, waiting, job, handoffs>>

EntryPublishes ==
  /\ entry = "setup"
  /\ entry' = "published"
  /\ UNCHANGED <<clock, storeVars, scheduleRevision, consumed, trackerVars, waiting, job, handoffs>>

EntryReloads ==
  /\ Budget
  /\ entry = "published"
  /\ entry' = "loaded"
  /\ ReloadBegins
  /\ UNCHANGED <<clock, storeVars, scheduleRevision, consumed, waiting, job, handoffs>>

(* A platform or the association fails: the service goes, the trackers stay. *)
EntrySetupFails ==
  /\ entry = "published"
  /\ entry' = "unloaded"
  /\ UNCHANGED <<clock, storeVars, scheduleRevision, consumed, trackerVars, waiting, job, handoffs>>

(* async_unload_entry: the service goes, then async_stop_scheduler. *)
EntryUnloads ==
  /\ Budget
  /\ entry = "loaded"
  /\ entry' = "unloaded"
  /\ generation' = NextGeneration
  /\ armed' = {}
  /\ scheduler' = "stopped"
  /\ UNCHANGED <<clock, storeVars, scheduleRevision, consumed, reloads, waiting, job, handoffs>>

EntrySteps == EntrySetsUp \/ EntryPublishes \/ EntryReloads \/ EntrySetupFails \/ EntryUnloads

(* The process dies and starts again: memory is gone, a write in flight may  *)
(* have reached the disk, and the new process loads and arms.                *)
Restart ==
  /\ Budget
  /\ disk' \in {disk} \cup (IF saving = Idle THEN {} ELSE {saving.cand})
  /\ data' = disk'
  /\ saving' = Idle
  /\ generation' = NextGeneration
  /\ reloads' = {NextGeneration}
  /\ armed' = {}
  /\ scheduler' = "running"
  /\ scheduleRevision' = 0
  /\ consumed' = [s \in Sids |-> None]
  /\ entry' = "setup"
  /\ waiting' = {}
  /\ job' = IdleJob
  /\ UNCHANGED <<clock, handoffs>>

FireSteps ==
  \/ \E f \in waiting : FireStarts(f)
  \/ FireMatches \/ FireReserves \/ FireSavesStamp \/ FireRechecks \/ FireRereads
  \/ PreparationFails \/ HandsOff \/ SmtpAnswers \/ FireSavesAttempt \/ FireSavesDigest

WritesEnd == \E ok, durable \in BOOLEAN : FireWriteEnds(ok, durable) \/ AdminWriteEnds(ok, durable)

AdminSteps ==
  \E s \in Sids : Delete(s) \/ DeleteMissing(s) \/ \E d \in Drafts : Upsert(s, d)

Reloads == \E g \in reloads : ReloadFinishes(g)

(* Nothing is left to do within the bounds. *)
Rest ==
  /\ clock = MaxClock /\ job = IdleJob /\ waiting = {} /\ reloads = {} /\ StoreFree
  /\ UNCHANGED vars

Next ==
  \/ Tick \/ FireSteps \/ WritesEnd \/ Reloads \/ AdminSteps
  \/ EntrySteps \/ Restart \/ Rest

(* Executor jobs end (the SMTP socket has a timeout, a Store write returns or *)
(* raises); a coroutine waiting for the fair store lock is served in turn.    *)
Fairness == WF_vars(WritesEnd) /\ SF_vars(Reloads) /\ SF_vars(FireSteps)

Spec == Init /\ [][Next]_vars

FairSpec == Spec /\ Fairness

(***************************************************************************)
(* Correctness.                                                             *)
(***************************************************************************)
TypeOK ==
  /\ clock \in Nat /\ generation \in Nat /\ scheduleRevision \in Nat
  /\ data \in Data /\ disk \in Data
  /\ saving \in {Idle} \cup [by : {"fire", "admin"}, cand : Data]
  /\ consumed \in [Sids -> Keys \cup {None}]
  /\ armed \subseteq [sid : Sids, gen : Nat]
  /\ reloads \subseteq Nat
  /\ entry \in Phases /\ scheduler \in {"running", "stopped"}
  /\ waiting \subseteq Fires
  /\ job \in {IdleJob} \cup Matching \cup Jobs
  /\ handoffs \subseteq [fire : Fires, key : Keys, era : Nat]

(* README "Per-period duplicate-fire guard across normal callbacks and        *)
(* restarts": while a schedule lives and keeps its period basis, no period is *)
(* handed to SMTP twice, whatever edits, reloads, failed or durable-but-raised *)
(* writes and restarts come between.                                          *)
OncePerPeriodInv ==
  \A g, h \in handoffs :
    g.fire.sid = h.fire.sid /\ g.era = h.era /\ g.key = h.key => g = h

Reported(s) == {h.key : h \in {h \in handoffs : h.fire.sid = s /\ h.era = data.era[s]}}

Once == INSTANCE OncePerPeriod
          WITH Periods <- Keys, stamp <- data.last, reported <- [s \in Sids |-> Reported(s)]

(* The machine implements the abstract promise: the published stamp precedes   *)
(* the handoff, which happens once per stamp, across edits and restarts.       *)
ImplementsOncePerPeriod == Once!Spec

(* A message leaves only for the schedule that is published: no edit, delete or *)
(* re-creation slipped in since its callback matched, even one that was undone. *)
NoEditBehindHandoff ==
  [][handoffs' # handoffs => /\ data.sched[job.fire.sid] = job.cur
                             /\ data.edited[job.fire.sid] = job.edited]_vars

(* async_stop_scheduler "Cancel callbacks and invalidate jobs already queued by *)
(* HA": after it no message leaves until something reloads.                    *)
SilentWhenStopped == [][handoffs' # handoffs => scheduler = "running"]_vars

(* What the code keeps of it: no energy report leaves a stopped scheduler.  Its *)
(* service must be the one of the frozen generation, and a new service comes    *)
(* only after a reload.                                                        *)
EnergySilentWhenStopped ==
  [][handoffs' # handoffs /\ job.cur.kind = "energy_report" => scheduler = "running"]_vars

(* The attempt log tells the truth: one record per callback, and a record says *)
(* "preparation_failed" exactly when nothing was handed to SMTP.               *)
LogIsTruthful ==
  \A a \in data.log \cup disk.log :
    /\ (a.outcome = "preparation_failed") <=> (\A h \in handoffs : h.fire # a.fire)
    /\ \A b \in data.log \cup disk.log : a.fire = b.fire => a = b

Current(s) == [sid |-> s, gen |-> generation] \in armed

(* Once the newest reload has finished, the trackers of the current generation *)
(* are those of published active schedules, whatever reloads overlapped; every  *)
(* active log digest has one, and a stopped scheduler has none.                *)
ArmedMatchesStore ==
  generation \notin reloads =>
    \A s \in Sids :
      LET d == data.sched[s]
          active == scheduler = "running" /\ d # None /\ d.enabled
      IN /\ Current(s) => active
         /\ active /\ d.kind = "log_digest" => Current(s)

(* The fire lock is always released again: no callback can block the others. *)
FireLockReleased == []<>(job = IdleJob)
=============================================================================
