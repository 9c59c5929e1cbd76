-------------------------- MODULE SchedulerProofs --------------------------
(***************************************************************************)
(* The dispatcher's proofs: type correctness and the two invariants that    *)
(* need nothing else (the attempt log tells the truth, the armed trackers   *)
(* are those of the published schedules); then IInv is inductive, and what   *)
(* follows from it: no period is handed to SMTP twice, no edit slips in      *)
(* behind a handoff, and the scheduler implements OncePerPeriod.             *)
(***************************************************************************)
EXTENDS SchedulerInv, TLAPS

(***************************************************************************)
(* Type correctness.                                                        *)
(***************************************************************************)
LEMMA PeriodKeyType ==
  ASSUME NEW c \in Cadences, NEW t \in Nat
  PROVE  PeriodKey(c, t) \in Keys
  BY ConstantsAssumption DEF PeriodKey, Keys

LEMMA InitType == Init => TypeOK
<1> SUFFICES ASSUME Init PROVE TypeOK
  OBVIOUS
<1>1. data \in Data
  BY DEF Init, Data
<1>2. consumed \in [Sids -> Keys \cup {None}]
  BY DEF Init
<1>3. QED
  BY <1>1, <1>2 DEF Init, TypeOK, Phases

LEMMA NextType == TypeOK /\ [Next]_vars => TypeOK'
<1> SUFFICES ASSUME TypeOK, [Next]_vars PROVE TypeOK'
  OBVIOUS
<1> USE DEF TypeOK
<1>1. CASE Tick
  <2>1. waiting' \subseteq Fires /\ clock' \in Nat
    BY <1>1 DEF Tick, storeVars, trackerVars, Fires
  <2>2. QED
    BY <1>1, <2>1 DEF Tick, storeVars, trackerVars
<1>2. ASSUME NEW f \in waiting, FireStarts(f) PROVE TypeOK'
  BY <1>2 DEF FireStarts, FireEnds, fireFrame, trackerVars, storeVars, Matching
<1>3. CASE FireMatches
  <2> DEFINE cur == data.sched[job.fire.sid]
  <2>1. /\ job.fire \in Fires /\ cur \in Drafts \cup {None}
        /\ data.edited[job.fire.sid] \in Nat
    BY <1>3 DEF FireMatches, IdleJob, Matching, Jobs, Pcs, Fires, Data
  <2>2. cur # None => PeriodKey(cur.cadence, job.fire.t) \in Keys
    BY <2>1, PeriodKeyType, ConstantsAssumption DEF Fires
  <2>3. job' \in {IdleJob} \cup Jobs
    BY <1>3, <2>1, <2>2 DEF FireMatches, FireEnds, Jobs, Pcs, Outcomes
  <2>4. QED
    BY <1>3, <2>3 DEF FireMatches, fireFrame, trackerVars, storeVars
<1>4. CASE FireReserves
  <2>1. job \in Jobs
    BY <1>4 DEF FireReserves, IdleJob, Matching
  <2>2. QED
    BY <1>4, <2>1 DEF FireReserves, FireEnds, Goto, fireFrame, trackerVars, storeVars, Jobs, Pcs, IdleJob, Fires
<1>5. CASE FireSavesStamp
  <2>1. job \in Jobs
    BY <1>5 DEF FireSavesStamp, FireSaves, IdleJob, Matching
  <2>2. [data EXCEPT !.last[job.fire.sid] = job.key] \in Data
    BY <2>1 DEF Data, Jobs
  <2>3. QED
    BY <1>5, <2>1, <2>2 DEF FireSavesStamp, FireSaves, Goto, fireFrame, trackerVars, Jobs, Pcs
<1>6. CASE FireRechecks
  <2>1. job \in Jobs
    BY <1>6 DEF FireRechecks, IdleJob, Matching
  <2>2. QED
    BY <1>6, <2>1 DEF FireRechecks, FireEnds, Goto, fireFrame, trackerVars, storeVars, Jobs, Pcs
<1>7. CASE FireRereads
  <2>1. job \in Jobs
    BY <1>7 DEF FireRereads, IdleJob, Matching
  <2>2. QED
    BY <1>7, <2>1 DEF FireRereads, FireEnds, fireFrame, trackerVars, storeVars, Jobs, Pcs
<1>8. CASE PreparationFails
  BY <1>8 DEF PreparationFails, Goto, fireFrame, trackerVars, storeVars, Jobs, Pcs, IdleJob, Matching
<1>9. CASE HandsOff
  <2>1. job \in Jobs
    BY <1>9 DEF HandsOff, IdleJob, Matching
  <2>2. handoffs' \subseteq [fire : Fires, key : Keys, era : Nat]
    BY <1>9, <2>1 DEF HandsOff, Jobs, Data, Fires
  <2>3. QED
    BY <1>9, <2>1, <2>2 DEF HandsOff, Goto, fireFrame, trackerVars, storeVars, Jobs, Pcs
<1>10. CASE SmtpAnswers
  <2>1. job \in Jobs
    BY <1>10 DEF SmtpAnswers, IdleJob, Matching
  <2>2. QED
    BY <1>10, <2>1 DEF SmtpAnswers, SmtpOutcomes, fireFrame, trackerVars, storeVars, Jobs, Pcs, Outcomes
<1>11. CASE FireSavesAttempt
  <2>1. job \in Jobs
    BY <1>11 DEF FireSavesAttempt, FireSaves, IdleJob, Matching
  <2>2. [data EXCEPT !.log = @ \cup {[fire |-> job.fire, outcome |-> job.outcome]}] \in Data
    BY <2>1 DEF Data, Jobs, Attempts
  <2>3. QED
    BY <1>11, <2>1, <2>2 DEF FireSavesAttempt, FireSaves, Goto, fireFrame, trackerVars, Jobs, Pcs
<1>12. CASE FireSavesDigest
  <2>1. job \in Jobs
    BY <1>12 DEF FireSavesDigest, FireSaves, IdleJob, Matching
  <2>2. [data EXCEPT !.digest[job.cur.cadence] = job.fire.t] \in Data
    BY <2>1, ConstantsAssumption DEF Data, Jobs, Fires
  <2>3. QED
    BY <1>12, <2>1, <2>2 DEF FireSavesDigest, FireSaves, Goto, fireFrame, trackerVars, Jobs, Pcs
<1>13. ASSUME NEW ok \in BOOLEAN, NEW durable \in BOOLEAN, FireWriteEnds(ok, durable) PROVE TypeOK'
  <2>1. job \in Jobs /\ saving.cand \in Data
    BY <1>13 DEF FireWriteEnds, Idle, IdleJob, Matching
  <2>2. job' \in {IdleJob} \cup Jobs
    BY <1>13, <2>1 DEF FireWriteEnds, FireEnds, StampUnconfirmed, Goto, Jobs, Pcs
  <2>3. QED
    BY <1>13, <2>1, <2>2 DEF FireWriteEnds, WriteEnds, Published, fireFrame, trackerVars
<1>14. ASSUME NEW ok \in BOOLEAN, NEW durable \in BOOLEAN, AdminWriteEnds(ok, durable) PROVE TypeOK'
  <2>1. saving.by = "admin"
    BY <1>14 DEF AdminWriteEnds
  <2>2. saving.cand \in Data
    BY <2>1 DEF Idle
  <2>3. saving' = Idle /\ data' \in Data /\ disk' \in Data
    BY <1>14, <2>2 DEF AdminWriteEnds, WriteEnds, Published
  <2>4. CASE ok
    <3>1. scheduleRevision' = scheduleRevision + 1 /\ ReloadBegins /\ UNCHANGED adminFrame
      BY <1>14, <2>4, Zenon DEF AdminWriteEnds
    <3>2. QED
      BY <3>1, <2>3 DEF ReloadBegins, NextGeneration, adminFrame
  <2>5. CASE ~ok
    BY <1>14, <2>3, <2>5 DEF AdminWriteEnds, adminFrame, trackerVars
  <2>6. QED
    BY <2>4, <2>5
<1>15. ASSUME NEW g \in reloads, ReloadFinishes(g) PROVE TypeOK'
  <2>1. armed' \subseteq [sid : Sids, gen : Nat]
    <3> DEFINE active == {x \in Sids : Armable(data.sched[x])}
    <3>1. armed' = armed \cup {[sid |-> x, gen |-> g] : x \in active} /\ active \subseteq Sids
      BY <1>15, Zenon DEF ReloadFinishes, TrackerGeneration
    <3>2. g \in Nat
      OBVIOUS
    <3> HIDE DEF active
    <3>3. ASSUME NEW a \in armed' PROVE a \in [sid : Sids, gen : Nat]
      BY <3>1, <3>2
    <3>4. QED
      BY <3>3
  <2>2. QED
    BY <1>15, <2>1 DEF ReloadFinishes, storeVars
<1>16. ASSUME NEW s \in Sids, Delete(s) PROVE TypeOK'
  <2> DEFINE cand == [data EXCEPT !.sched[s] = None, !.last[s] = None, !.era[s] = @ + 1]
  <2>1. cand \in Data
    <3>1. /\ [data.sched EXCEPT ![s] = None] \in [Sids -> Drafts \cup {None}]
          /\ [data.last EXCEPT ![s] = None] \in [Sids -> Keys \cup {None}]
          /\ [data.era EXCEPT ![s] = @ + 1] \in [Sids -> Nat]
      BY DEF Data
    <3>2. QED
      BY <3>1 DEF Data
  <2>2. QED
    BY <1>16, <2>1 DEF Delete, AdminSaves, adminFrame, trackerVars
<1>17. ASSUME NEW s \in Sids, DeleteMissing(s) PROVE TypeOK'
  BY <1>17 DEF DeleteMissing, ReloadBegins, NextGeneration, adminFrame, storeVars
<1>18. ASSUME NEW s \in Sids, NEW d \in Drafts, Upsert(s, d) PROVE TypeOK'
  <2> DEFINE cand == [data EXCEPT !.sched[s] = d, !.edited[s] = Edited(s),
           !.era[s] = IF data.sched[s] # None /\ data.sched[s].cadence # d.cadence
                      THEN @ + 1 ELSE @]
  <2>1. cand \in Data
    <3>1. /\ [data.sched EXCEPT ![s] = d] \in [Sids -> Drafts \cup {None}]
          /\ [data.edited EXCEPT ![s] = data.edited[s] + 1] \in [Sids -> Nat]
          /\ [data.era EXCEPT ![s] = @ + 1] \in [Sids -> Nat]
          /\ [data.era EXCEPT ![s] = @] \in [Sids -> Nat]
      BY DEF Data
    <3>2. QED
      BY <3>1 DEF Data, Edited
  <2>2. QED
    BY <1>18, <2>1 DEF Upsert, AdminSaves, adminFrame, trackerVars
<1>19. CASE EntryPublishes
  BY <1>19 DEF EntryPublishes, storeVars, trackerVars, Phases
<1>20. CASE EntrySetupFails
  BY <1>20 DEF EntrySetupFails, storeVars, trackerVars, Phases
<1>21. CASE EntryReloads
  BY <1>21 DEF EntryReloads, ReloadBegins, NextGeneration, storeVars, Phases
<1>22. CASE EntrySetsUp
  BY <1>22 DEF EntrySetsUp, ReloadBegins, NextGeneration, storeVars, Phases
<1>23. CASE EntryUnloads
  BY <1>23 DEF EntryUnloads, NextGeneration, storeVars, Phases
<1>24. CASE Restart
  <2>1. disk' \in Data
    BY <1>24 DEF Restart, Idle
  <2>2. QED
    BY <1>24, <2>1 DEF Restart, NextGeneration, Phases
<1>25. CASE UNCHANGED vars
  BY <1>25 DEF vars, storeVars, trackerVars
<1>26. QED
  BY <1>1, <1>2, <1>3, <1>4, <1>5, <1>6, <1>7, <1>8, <1>9, <1>10, <1>11, <1>12, <1>13, <1>14,
     <1>15, <1>16, <1>17, <1>18, <1>19, <1>20, <1>21, <1>22, <1>23, <1>24, <1>25
     DEF Next, FireSteps, WritesEnd, AdminSteps, EntrySteps, Reloads, Rest

(* Every variable keeps its type, for any number of schedules, minutes and reloads. *)
THEOREM TypeCorrect == Spec => []TypeOK
<1>1. QED
  BY InitType, NextType, PTL DEF Spec

(***************************************************************************)
(* The attempt log.                                                         *)
(***************************************************************************)

(* A callback past its match keeps its fire and its outcome when it moves on.  *)
LEMMA JobMoves ==
  ASSUME NEW pc \in Pcs, job \in Jobs, Goto(pc)
  PROVE  /\ job # IdleJob /\ job' # IdleJob
         /\ job'.pc = pc /\ job'.fire = job.fire /\ job'.outcome = job.outcome
<1>1. job' = [job EXCEPT !.pc = pc]
  BY DEF Goto
<1>2. job'.pc = pc /\ job'.fire = job.fire /\ job'.outcome = job.outcome
  BY <1>1 DEF Jobs
<1>3. job.pc # "idle" /\ job'.pc # "idle"
  BY <1>2 DEF Jobs, Pcs
<1>4. QED
  BY <1>2, <1>3 DEF IdleJob

(* The callback that holds the fire lock beyond its match is a full record. *)
LEMMA JobIsMatched ==
  ASSUME TypeOK, job.pc \in Pcs
  PROVE  job \in Jobs
  BY DEF TypeOK, IdleJob, Matching, Pcs

(* No record appears while the store is left alone.                           *)
LEMMA RecordsUnchanged ==
  ASSUME UNCHANGED storeVars
  PROVE  Records' = Records
  BY DEF Records, storeVars

(* Nor by starting a write that keeps the log. *)
LEMMA WriteKeepsRecords ==
  ASSUME StoreFree, UNCHANGED <<data, disk>>, saving' # Idle, saving'.cand.log = data.log
  PROVE  Records' = Records
  BY DEF Records, StoreFree

(* Nor by the end of a write, whatever was published or reached the disk. *)
LEMMA WriteEndKeepsRecords ==
  ASSUME NEW ok \in BOOLEAN, NEW durable \in BOOLEAN, WriteEnds(ok, durable)
  PROVE  Records' \subseteq Records
  BY DEF Records, WriteEnds, Published

(* What is said of the log survives a step that adds no record, no handoff and *)
(* no callback.                                                                *)
LEMMA LogKept ==
  ASSUME NothingAhead, WaitingIsNew, RecordsTell,
         clock' = clock, handoffs' = handoffs, waiting' \subseteq waiting,
         Records' \subseteq Records,
         job' # IdleJob => job # IdleJob /\ job'.fire = job.fire
  PROVE  NothingAhead' /\ WaitingIsNew' /\ RecordsTell'
<1>1. Recorded' \subseteq Recorded /\ HandedOver' = HandedOver
  BY DEF Recorded, HandedOver
<1>2. NothingAhead'
  BY <1>1 DEF NothingAhead
<1>3. WaitingIsNew'
  BY <1>1 DEF WaitingIsNew
<1>4. RecordsTell'
  BY <1>1 DEF RecordsTell
<1>5. QED
  BY <1>2, <1>3, <1>4

(* So the whole invariant does, when the callback that holds the lock stays or *)
(* leaves.                                                                     *)
LEMMA LogKeptByOthers ==
  ASSUME NothingAhead, WaitingIsNew, RecordsTell, JobTells,
         clock' = clock, handoffs' = handoffs, waiting' \subseteq waiting,
         Records' \subseteq Records, job' \in {job, IdleJob}
  PROVE  NothingAhead' /\ WaitingIsNew' /\ RecordsTell' /\ JobTells'
<1>1. NothingAhead' /\ WaitingIsNew' /\ RecordsTell'
  BY LogKept
<1>2. Recorded' \subseteq Recorded /\ HandedOver' = HandedOver
  BY DEF Recorded, HandedOver
<1>3. JobTells'
  <2>1. CASE job' = IdleJob
    BY <2>1 DEF JobTells
  <2>2. CASE job' = job
    BY <2>2, <1>2 DEF JobTells
  <2>3. QED
    BY <2>1, <2>2
<1>4. QED
  BY <1>1, <1>3

(* And when it moves on without a trace: its next place must allow its outcome. *)
LEMMA LogKeptByMove ==
  ASSUME NothingAhead, WaitingIsNew, RecordsTell, JobTells,
         NEW from \in Pcs, NEW to \in Pcs,
         job.pc = from, job # IdleJob, job' # IdleJob, job'.pc = to, job'.fire = job.fire,
         clock' = clock, handoffs' = handoffs, waiting' = waiting, Records' \subseteq Records,
         \/ /\ {from, to} \subseteq {"last", "reserve", "reserving", "recheck", "reread", "prepare", "record"}
            /\ from # "record"
            /\ job'.outcome = job.outcome
         \/ from = "sending" /\ to = "record" /\ job'.outcome # "preparation_failed"
         \/ to \in {"recording", "digest", "digesting"}
  PROVE  NothingAhead' /\ WaitingIsNew' /\ RecordsTell' /\ JobTells'
<1>1. NothingAhead' /\ WaitingIsNew' /\ RecordsTell'
  BY LogKept
<1>2. Recorded' \subseteq Recorded /\ HandedOver' = HandedOver
  BY DEF Recorded, HandedOver
<1>3. JobTells'
  BY <1>2 DEF JobTells
<1>4. QED
  BY <1>1, <1>3

LEMMA LogInitially == Init => LogInv
<1> SUFFICES ASSUME Init PROVE LogInv
  OBVIOUS
<1>1. TypeOK
  BY InitType
<1>2. data.log = {} /\ disk.log = {} /\ saving = Idle
  BY DEF Init
<1>3. Records = {} /\ Recorded = {} /\ HandedOver = {} /\ waiting = {} /\ job = IdleJob
  BY <1>2 DEF Init, Records, Recorded, HandedOver
<1>4. QED
  BY <1>1, <1>3 DEF LogInv, NothingAhead, WaitingIsNew, RecordsTell, JobTells

LEMMA TickKeepsLog ==
  ASSUME LogInv, Tick
  PROVE  NothingAhead' /\ WaitingIsNew' /\ RecordsTell' /\ JobTells'
<1> DEFINE new == {[sid |-> a.sid, gen |-> a.gen, t |-> clock + 1] : a \in armed}
<1>1. /\ clock \in Nat /\ clock' = clock + 1 /\ waiting' = waiting \cup new
      /\ job' = job /\ handoffs' = handoffs
  BY DEF LogInv, TypeOK, Tick
<1>2. \A f \in new : f.t = clock + 1
  OBVIOUS
<1> HIDE DEF new
<1>3. Records' = Records
  BY RecordsUnchanged DEF Tick
<1>4. Recorded' = Recorded /\ HandedOver' = HandedOver
  BY <1>1, <1>3 DEF Recorded, HandedOver
<1>5. /\ \A f \in waiting \cup Recorded \cup HandedOver : f.t \in Int /\ f.t <= clock
      /\ job # IdleJob => job.fire.t \in Int /\ job.fire.t <= clock
  <2>1. /\ \A f \in waiting : f.t \in Int
        /\ job # IdleJob => job.fire.t \in Int
        /\ \A h \in handoffs : h.fire.t \in Int
    BY DEF LogInv, TypeOK, Matching, Jobs, Fires
  <2>2. \A a \in Records : a.fire.t \in Int
    BY DEF LogInv, TypeOK, Records, Data, Attempts, Fires
  <2>3. QED
    BY <2>1, <2>2 DEF LogInv, NothingAhead, Recorded, HandedOver
<1>6. NothingAhead'
  BY <1>1, <1>2, <1>4, <1>5 DEF NothingAhead
<1>7. WaitingIsNew'
  <2>1. \A w \in new : w \notin Recorded /\ w \notin HandedOver /\ (job # IdleJob => job.fire # w)
    BY <1>1, <1>2, <1>5
  <2>2. QED
    BY <1>1, <1>4, <2>1 DEF LogInv, WaitingIsNew
<1>8. RecordsTell' /\ JobTells'
  BY <1>1, <1>3, <1>4 DEF LogInv, RecordsTell, JobTells
<1>9. QED
  BY <1>6, <1>7, <1>8

LEMMA StartKeepsLog ==
  ASSUME LogInv, NEW f \in waiting, FireStarts(f)
  PROVE  NothingAhead' /\ WaitingIsNew' /\ RecordsTell' /\ JobTells'
<1>1. /\ clock' = clock /\ handoffs' = handoffs /\ waiting' = waiting \ {f}
      /\ job' \in {IdleJob, [pc |-> "match", fire |-> f]}
  BY DEF FireStarts, FireEnds, fireFrame
<1>2. Records' = Records
  BY RecordsUnchanged DEF FireStarts
<1>3. Recorded' = Recorded /\ HandedOver' = HandedOver
  BY <1>1, <1>2 DEF Recorded, HandedOver
<1>4. job' # IdleJob => job'.fire = f /\ job'.pc = "match"
  BY <1>1
<1>5. NothingAhead'
  BY <1>1, <1>3, <1>4 DEF LogInv, NothingAhead
<1>6. WaitingIsNew'
  BY <1>1, <1>3, <1>4 DEF LogInv, WaitingIsNew
<1>7. RecordsTell'
  BY <1>2, <1>3 DEF LogInv, RecordsTell
<1>8. JobTells'
  BY <1>3, <1>4 DEF LogInv, WaitingIsNew, JobTells
<1>9. QED
  BY <1>5, <1>6, <1>7, <1>8

LEMMA HandsOffKeepsLog ==
  ASSUME LogInv, HandsOff
  PROVE  NothingAhead' /\ WaitingIsNew' /\ RecordsTell' /\ JobTells'
<1>1. job.pc = "prepare" /\ "prepare" \in Pcs /\ "sending" \in Pcs
  BY DEF HandsOff, Pcs
<1>2. job \in Jobs /\ job # IdleJob
  BY <1>1, JobIsMatched DEF LogInv, IdleJob
<1>3. job' # IdleJob /\ job'.pc = "sending" /\ job'.fire = job.fire
  BY <1>1, <1>2, JobMoves DEF HandsOff
<1>4. clock' = clock /\ waiting' = waiting
  BY DEF HandsOff, fireFrame
<1>5. Records' = Records
  BY RecordsUnchanged DEF HandsOff
<1>6. Recorded' = Recorded
  BY <1>5 DEF Recorded
<1>7. HandedOver' = HandedOver \cup {job.fire}
  <2> DEFINE h == [fire |-> job.fire, key |-> job.key, era |-> data.era[job.fire.sid]]
  <2>1. handoffs' = handoffs \cup {h} /\ h.fire = job.fire
    BY DEF HandsOff
  <2> HIDE DEF h
  <2>2. QED
    BY <2>1 DEF HandedOver
<1>8. NothingAhead'
  BY <1>2, <1>3, <1>4, <1>6, <1>7 DEF LogInv, NothingAhead
<1>9. WaitingIsNew'
  BY <1>2, <1>3, <1>4, <1>6, <1>7 DEF LogInv, WaitingIsNew
<1>10. job.fire \notin Recorded
  BY <1>1, <1>2 DEF LogInv, JobTells
<1>11. RecordsTell'
  BY <1>5, <1>7, <1>10 DEF LogInv, RecordsTell, Recorded
<1>12. JobTells'
  BY <1>3, <1>6, <1>7, <1>10 DEF JobTells
<1>13. QED
  BY <1>8, <1>9, <1>11, <1>12

LEMMA AttemptKeepsLog ==
  ASSUME LogInv, FireSavesAttempt
  PROVE  NothingAhead' /\ WaitingIsNew' /\ RecordsTell' /\ JobTells'
<1> DEFINE r == [fire |-> job.fire, outcome |-> job.outcome]
           cand == [data EXCEPT !.log = @ \cup {r}]
<1>1. job.pc = "record" /\ "record" \in Pcs /\ "recording" \in Pcs /\ StoreFree
  BY DEF FireSavesAttempt, FireSaves, Pcs
<1>2. job \in Jobs /\ job # IdleJob
  BY <1>1, JobIsMatched DEF LogInv, IdleJob
<1>3. job' # IdleJob /\ job'.pc = "recording" /\ job'.fire = job.fire
  BY <1>1, <1>2, JobMoves DEF FireSavesAttempt, FireSaves
<1>4. /\ clock' = clock /\ waiting' = waiting /\ handoffs' = handoffs
      /\ data' = data /\ disk' = disk
  BY DEF FireSavesAttempt, FireSaves, fireFrame
<1>5. saving' = [by |-> "fire", cand |-> cand]
  BY DEF FireSavesAttempt, FireSaves
<1>6. cand.log = data.log \cup {r}
  BY DEF LogInv, TypeOK, Data
<1>7. saving' # Idle /\ saving'.cand.log = data.log \cup {r} /\ r.fire = job.fire /\ r.outcome = job.outcome
  <2>1. saving'.by = "fire" /\ saving'.cand = cand
    BY <1>5
  <2>2. QED
    BY <1>6, <2>1 DEF Idle
<1> HIDE DEF r, cand
<1>8. Records' = Records \cup {r}
  BY <1>1, <1>4, <1>7 DEF Records, StoreFree
<1>9. Recorded' = Recorded \cup {job.fire} /\ HandedOver' = HandedOver
  BY <1>4, <1>7, <1>8 DEF Recorded, HandedOver
<1>10. NothingAhead'
  BY <1>2, <1>3, <1>4, <1>9 DEF LogInv, NothingAhead
<1>11. WaitingIsNew'
  BY <1>2, <1>3, <1>4, <1>9 DEF LogInv, WaitingIsNew
<1>12. /\ job.fire \notin Recorded
       /\ (job.outcome = "preparation_failed") <=> (job.fire \notin HandedOver)
  BY <1>1, <1>2 DEF LogInv, JobTells
<1>13. RecordsTell'
  BY <1>7, <1>8, <1>9, <1>12 DEF LogInv, RecordsTell, Recorded
<1>14. JobTells'
  BY <1>3 DEF JobTells
<1>15. QED
  BY <1>10, <1>11, <1>13, <1>14

LEMMA CallbackKeepsLog ==
  ASSUME LogInv,
         \/ FireMatches \/ FireReserves \/ FireSavesStamp \/ FireRechecks
         \/ FireRereads \/ PreparationFails \/ SmtpAnswers \/ FireSavesDigest
  PROVE  NothingAhead' /\ WaitingIsNew' /\ RecordsTell' /\ JobTells'
<1> USE DEF LogInv
<1>1. CASE FireMatches
  <2>1. /\ clock' = clock /\ waiting' = waiting /\ handoffs' = handoffs
        /\ Records' = Records
    BY <1>1, RecordsUnchanged DEF FireMatches, fireFrame
  <2>2. CASE job' = IdleJob
    BY <2>1, <2>2, LogKeptByOthers, Zenon
  <2>3. CASE job' # IdleJob
    <3>1. /\ job.pc = "match" /\ job'.pc = "last" /\ job'.fire = job.fire
          /\ job'.outcome = "preparation_failed"
      BY <1>1, <2>3 DEF FireMatches, FireEnds
    <3>2. job # IdleJob
      BY <3>1 DEF IdleJob
    <3>3. NothingAhead' /\ WaitingIsNew' /\ RecordsTell'
      BY <2>1, <3>1, <3>2, LogKept
    <3>4. Recorded' = Recorded /\ HandedOver' = HandedOver
      BY <2>1 DEF Recorded, HandedOver
    <3>5. JobTells'
      BY <3>1, <3>2, <3>4 DEF JobTells
    <3>6. QED
      BY <3>3, <3>5
  <2>4. QED
    BY <2>2, <2>3
<1>2. CASE FireReserves
  <2>1. /\ clock' = clock /\ waiting' = waiting /\ handoffs' = handoffs
        /\ Records' = Records
    BY <1>2, RecordsUnchanged DEF FireReserves, fireFrame
  <2>2. job.pc = "last" /\ {"last", "reserve"} \subseteq Pcs
    BY <1>2 DEF FireReserves, Pcs
  <2>3. CASE FireEnds
    BY <2>1, <2>3, LogKeptByOthers, Zenon DEF FireEnds
  <2>4. CASE Goto("reserve")
    BY <2>1, <2>2, <2>4, JobIsMatched, JobMoves, LogKeptByMove
  <2>5. QED
    BY <1>2, <2>3, <2>4, Zenon DEF FireReserves
<1>3. CASE FireSavesStamp
  <2> DEFINE cand == [data EXCEPT !.last[job.fire.sid] = job.key]
  <2>1. /\ clock' = clock /\ waiting' = waiting /\ handoffs' = handoffs
        /\ data' = data /\ disk' = disk /\ StoreFree
        /\ saving' = [by |-> "fire", cand |-> cand]
    BY <1>3 DEF FireSavesStamp, FireSaves, fireFrame
  <2>2. saving'.by = "fire" /\ saving'.cand.log = data.log
    BY <2>1 DEF TypeOK, Data
  <2>3. Records' = Records
    BY <2>1, <2>2, WriteKeepsRecords DEF Idle
  <2>4. job.pc = "reserve" /\ {"reserve", "reserving"} \subseteq Pcs /\ Goto("reserving")
    BY <1>3 DEF FireSavesStamp, FireSaves, Pcs
  <2>5. QED
    BY <2>1, <2>3, <2>4, JobIsMatched, JobMoves, LogKeptByMove
<1>4. CASE FireRechecks
  <2>1. /\ clock' = clock /\ waiting' = waiting /\ handoffs' = handoffs
        /\ Records' = Records
    BY <1>4, RecordsUnchanged DEF FireRechecks, fireFrame
  <2>2. job.pc = "recheck" /\ {"recheck", "reread"} \subseteq Pcs
    BY <1>4 DEF FireRechecks, Pcs
  <2>3. CASE FireEnds
    BY <2>1, <2>3, LogKeptByOthers, Zenon DEF FireEnds
  <2>4. CASE Goto("reread")
    BY <2>1, <2>2, <2>4, JobIsMatched, JobMoves, LogKeptByMove
  <2>5. QED
    BY <1>4, <2>3, <2>4, Zenon DEF FireRechecks
<1>5. CASE FireRereads
  <2>1. /\ clock' = clock /\ waiting' = waiting /\ handoffs' = handoffs
        /\ Records' = Records
    BY <1>5, RecordsUnchanged DEF FireRereads, fireFrame
  <2>2. job.pc = "reread" /\ {"reread", "prepare"} \subseteq Pcs
    BY <1>5 DEF FireRereads, Pcs
  <2>3. CASE FireEnds
    BY <2>1, <2>3, LogKeptByOthers, Zenon DEF FireEnds
  <2>4. CASE job' = [job EXCEPT !.pc = "prepare", !.sendGen = generation,
                                !.sendRev = scheduleRevision]
    <3>1. job \in Jobs
      BY <2>2, JobIsMatched
    <3>2. job'.pc = "prepare" /\ job'.fire = job.fire /\ job'.outcome = job.outcome
      BY <2>4, <3>1 DEF Jobs
    <3>3. job # IdleJob /\ job' # IdleJob
      BY <2>2, <3>2 DEF IdleJob
    <3>4. QED
      BY <2>1, <2>2, <3>2, <3>3, LogKeptByMove
  <2>5. QED
    BY <1>5, <2>3, <2>4, Zenon DEF FireRereads
<1>6. CASE PreparationFails
  <2>1. /\ clock' = clock /\ waiting' = waiting /\ handoffs' = handoffs
        /\ Records' = Records
    BY <1>6, RecordsUnchanged DEF PreparationFails, fireFrame
  <2>2. job.pc = "prepare" /\ {"prepare", "record"} \subseteq Pcs /\ Goto("record")
    BY <1>6 DEF PreparationFails, Pcs
  <2>3. QED
    BY <2>1, <2>2, JobIsMatched, JobMoves, LogKeptByMove
<1>7. CASE SmtpAnswers
  <2>1. /\ clock' = clock /\ waiting' = waiting /\ handoffs' = handoffs
        /\ Records' = Records
    BY <1>7, RecordsUnchanged DEF SmtpAnswers, fireFrame
  <2>2. job.pc = "sending" /\ {"sending", "record"} \subseteq Pcs
    BY <1>7 DEF SmtpAnswers, Pcs
  <2>3. job \in Jobs
    BY <2>2, JobIsMatched
  <2>4. /\ job'.pc = "record" /\ job'.fire = job.fire
        /\ job'.outcome # "preparation_failed"
    BY <1>7, <2>3 DEF SmtpAnswers, SmtpOutcomes, Jobs
  <2>5. job # IdleJob /\ job' # IdleJob
    BY <2>2, <2>4 DEF IdleJob
  <2>6. QED
    BY <2>1, <2>2, <2>4, <2>5, LogKeptByMove
<1>8. CASE FireSavesDigest
  <2> DEFINE cand == [data EXCEPT !.digest[job.cur.cadence] = job.fire.t]
  <2>1. /\ clock' = clock /\ waiting' = waiting /\ handoffs' = handoffs
        /\ data' = data /\ disk' = disk /\ StoreFree
        /\ saving' = [by |-> "fire", cand |-> cand]
    BY <1>8 DEF FireSavesDigest, FireSaves, fireFrame
  <2>2. saving'.by = "fire" /\ saving'.cand.log = data.log
    BY <2>1 DEF TypeOK, Data
  <2>3. Records' = Records
    BY <2>1, <2>2, WriteKeepsRecords DEF Idle
  <2>4. job.pc = "digest" /\ {"digest", "digesting"} \subseteq Pcs /\ Goto("digesting")
    BY <1>8 DEF FireSavesDigest, FireSaves, Pcs
  <2>5. QED
    BY <2>1, <2>3, <2>4, JobIsMatched, JobMoves, LogKeptByMove
<1>9. QED
  BY <1>1, <1>2, <1>3, <1>4, <1>5, <1>6, <1>7, <1>8

LEMMA WriteEndKeepsLog ==
  ASSUME LogInv, NEW ok \in BOOLEAN, NEW durable \in BOOLEAN,
         FireWriteEnds(ok, durable) \/ AdminWriteEnds(ok, durable)
  PROVE  NothingAhead' /\ WaitingIsNew' /\ RecordsTell' /\ JobTells'
<1> USE DEF LogInv
<1>1. CASE FireWriteEnds(ok, durable)
  <2>1. clock' = clock /\ waiting' = waiting /\ handoffs' = handoffs
    BY <1>1 DEF FireWriteEnds, fireFrame
  <2>2. Records' \subseteq Records
    BY <1>1, WriteEndKeepsRecords DEF FireWriteEnds
  <2>3. CASE FireEnds
    BY <2>1, <2>2, <2>3, LogKeptByOthers, Zenon DEF FireEnds
  <2>4. CASE job.pc = "reserving" /\ Goto("recheck")
    <3>1. {"reserving", "recheck"} \subseteq Pcs
      BY DEF Pcs
    <3>2. QED
      BY <2>1, <2>2, <2>4, <3>1, JobIsMatched, JobMoves, LogKeptByMove
  <2>5. CASE job.pc = "recording" /\ Goto("digest")
    <3>1. {"recording", "digest"} \subseteq Pcs
      BY DEF Pcs
    <3>2. QED
      BY <2>1, <2>2, <2>5, <3>1, JobIsMatched, JobMoves, LogKeptByMove
  <2>6. QED
    BY <1>1, <2>3, <2>4, <2>5, Zenon DEF FireWriteEnds, StampUnconfirmed
<1>2. CASE AdminWriteEnds(ok, durable)
  <2>1. /\ clock' = clock /\ waiting' = waiting /\ handoffs' = handoffs /\ job' = job
    BY <1>2 DEF AdminWriteEnds, adminFrame
  <2>2. Records' \subseteq Records
    BY <1>2, WriteEndKeepsRecords DEF AdminWriteEnds
  <2>3. QED
    BY <2>1, <2>2, LogKeptByOthers, Zenon
<1>3. QED
  BY <1>1, <1>2

(* The administrator's edits keep the log as it is. *)
LEMMA AdminSaveKeepsLog ==
  ASSUME LogInv, NEW cand, AdminSaves(cand), cand.log = data.log
  PROVE  NothingAhead' /\ WaitingIsNew' /\ RecordsTell' /\ JobTells'
<1>1. /\ clock' = clock /\ waiting' = waiting /\ handoffs' = handoffs /\ job' = job
      /\ data' = data /\ disk' = disk /\ StoreFree
      /\ saving'.by = "admin" /\ saving'.cand = cand
  BY DEF AdminSaves, adminFrame
<1>2. Records' = Records
  BY <1>1, WriteKeepsRecords DEF Idle
<1>3. QED
  BY <1>1, <1>2, LogKeptByOthers, Zenon DEF LogInv

LEMMA AdminKeepsLog ==
  ASSUME LogInv, AdminSteps
  PROVE  NothingAhead' /\ WaitingIsNew' /\ RecordsTell' /\ JobTells'
<1>1. PICK s \in Sids : Delete(s) \/ DeleteMissing(s) \/ \E d \in Drafts : Upsert(s, d)
  BY DEF AdminSteps
<1>2. CASE Delete(s)
  <2> DEFINE cand == [data EXCEPT !.sched[s] = None, !.last[s] = None, !.era[s] = @ + 1]
  <2>1. cand.log = data.log
    BY DEF LogInv, TypeOK, Data
  <2>2. AdminSaves(cand)
    BY <1>2 DEF Delete
  <2> HIDE DEF cand
  <2>3. QED
    BY <2>1, <2>2, AdminSaveKeepsLog
<1>3. CASE DeleteMissing(s)
  <2>1. /\ clock' = clock /\ waiting' = waiting /\ handoffs' = handoffs /\ job' = job
    BY <1>3 DEF DeleteMissing, adminFrame
  <2>2. Records' = Records
    BY <1>3, RecordsUnchanged DEF DeleteMissing
  <2>3. QED
    BY <2>1, <2>2, LogKeptByOthers, Zenon DEF LogInv
<1>4. ASSUME NEW d \in Drafts, Upsert(s, d)
      PROVE  NothingAhead' /\ WaitingIsNew' /\ RecordsTell' /\ JobTells'
  <2> DEFINE cand == [data EXCEPT !.sched[s] = d, !.edited[s] = Edited(s),
           !.era[s] = IF data.sched[s] # None /\ data.sched[s].cadence # d.cadence
                      THEN @ + 1 ELSE @]
  <2>1. cand.log = data.log
    BY DEF LogInv, TypeOK, Data
  <2>2. AdminSaves(cand)
    BY <1>4 DEF Upsert
  <2> HIDE DEF cand
  <2>3. QED
    BY <2>1, <2>2, AdminSaveKeepsLog
<1>5. QED
  BY <1>1, <1>2, <1>3, <1>4

LEMMA RestartKeepsLog ==
  ASSUME LogInv, Restart
  PROVE  NothingAhead' /\ WaitingIsNew' /\ RecordsTell' /\ JobTells'
<1>1. /\ clock' = clock /\ waiting' = {} /\ handoffs' = handoffs /\ job' = IdleJob
  BY DEF Restart
<1>2. Records' \subseteq Records
  BY DEF Restart, Records
<1>3. QED
  BY <1>1, <1>2, LogKeptByOthers, Zenon DEF LogInv

LEMMA NextKeepsLog == LogInv /\ [Next]_vars => LogInv'
<1> SUFFICES ASSUME LogInv, [Next]_vars PROVE LogInv'
  OBVIOUS
<1>1. TypeOK'
  BY NextType DEF LogInv
<1> SUFFICES NothingAhead' /\ WaitingIsNew' /\ RecordsTell' /\ JobTells'
  BY <1>1, Zenon DEF LogInv
<1>2. CASE Tick
  BY <1>2, TickKeepsLog, Zenon
<1>3. CASE FireSteps
  BY <1>3, StartKeepsLog, CallbackKeepsLog, HandsOffKeepsLog, AttemptKeepsLog, Zenon DEF FireSteps
<1>4. CASE WritesEnd
  BY <1>4, WriteEndKeepsLog, Zenon DEF WritesEnd
<1>5. CASE AdminSteps
  BY <1>5, AdminKeepsLog, Zenon
<1>6. CASE Restart
  BY <1>6, RestartKeepsLog, Zenon
<1>7. CASE Reloads \/ EntrySteps \/ Rest \/ UNCHANGED vars
  <2>1. /\ clock' = clock /\ waiting' = waiting /\ handoffs' = handoffs /\ job' = job
        /\ UNCHANGED storeVars
    BY <1>7 DEF Reloads, ReloadFinishes, EntrySteps, EntrySetsUp, EntryPublishes, EntryReloads,
                EntrySetupFails, EntryUnloads, Rest, vars, storeVars
  <2>2. Records' = Records
    BY <2>1, RecordsUnchanged
  <2>3. QED
    BY <2>1, <2>2, LogKeptByOthers, Zenon DEF LogInv
<1>8. QED
  BY <1>2, <1>3, <1>4, <1>5, <1>6, <1>7 DEF Next

(* The attempt log holds at most one record of a callback, and that record      *)
(* says "preparation_failed" exactly when the callback handed nothing to SMTP:  *)
(* a write that was durable but raised, or a crash, forges and doubles nothing. *)
THEOREM LogIsTruthfulHolds == Spec => []LogIsTruthful
<1>1. LogInv => LogIsTruthful
  <2> SUFFICES ASSUME LogInv PROVE LogIsTruthful
    OBVIOUS
  <2>1. data.log \cup disk.log \subseteq Records
    BY DEF Records
  <2>2. QED
    BY <2>1 DEF LogInv, RecordsTell, HandedOver, LogIsTruthful
<1>2. QED
  BY <1>1, LogInitially, NextKeepsLog, PTL DEF Spec

(***************************************************************************)
(* The trackers.                                                            *)
(***************************************************************************)

TrackersHold == ReloadsArmOnce' /\ FireKeepsSchedules' /\ StoppedIsUnloaded' /\ ArmedMatchesStore'

LEMMA TrackersInitially == Init => TrackerInv
<1> SUFFICES ASSUME Init PROVE TrackerInv
  OBVIOUS
<1>1. TypeOK
  BY InitType
<1>2. QED
  BY <1>1 DEF Init, TrackerInv, ReloadsArmOnce, FireKeepsSchedules, StoppedIsUnloaded,
              ArmedMatchesStore, Idle

(* A reload that begins is the newest: it releases every tracker, and promises *)
(* nothing before it has finished.                                             *)
LEMMA ReloadBeginsKeeps ==
  ASSUME TrackerInv, ReloadBegins
  PROVE  ReloadsArmOnce' /\ StoppedIsUnloaded' /\ ArmedMatchesStore'
<1>1. generation \in Nat /\ \A g \in reloads : g \in Nat /\ g <= generation
  BY DEF TrackerInv, TypeOK, ReloadsArmOnce
<1>2. /\ generation' = generation + 1 /\ armed' = {} /\ scheduler' = "running"
      /\ reloads' = reloads \cup {generation + 1}
  BY DEF ReloadBegins, NextGeneration
<1>3. QED
  BY <1>1, <1>2 DEF ReloadsArmOnce, StoppedIsUnloaded, ArmedMatchesStore

(* A step that leaves the trackers and the schedules alone. *)
LEMMA TrackersUntouched ==
  ASSUME TrackerInv, UNCHANGED trackerVars, data'.sched = data.sched,
         entry' # entry => entry' = "unloaded" \/ scheduler = "running"
  PROVE  ReloadsArmOnce' /\ StoppedIsUnloaded' /\ ArmedMatchesStore'
<1>1. /\ generation' = generation /\ armed' = armed /\ reloads' = reloads
      /\ scheduler' = scheduler
  BY DEF trackerVars
<1>2. ReloadsArmOnce'
  BY <1>1 DEF TrackerInv, ReloadsArmOnce
<1>3. StoppedIsUnloaded'
  BY <1>1 DEF TrackerInv, StoppedIsUnloaded
<1>4. ArmedMatchesStore'
  BY <1>1 DEF TrackerInv, ArmedMatchesStore, Current
<1>5. QED
  BY <1>2, <1>3, <1>4

(* The listing answered: only the newest reload arms trackers that will fire,  *)
(* and it arms those of the published schedules.                               *)
LEMMA ReloadFinishesKeeps ==
  ASSUME TrackerInv, NEW g \in reloads, ReloadFinishes(g)
  PROVE  TrackersHold
<1> DEFINE active == {s \in Sids : Armable(data.sched[s])}
<1>1. /\ armed' = armed \cup {[sid |-> s, gen |-> g] : s \in active}
      /\ reloads' = reloads \ {g} /\ generation' = generation
      /\ data' = data /\ saving' = saving /\ entry' = entry /\ scheduler' = scheduler
  BY Zenon DEF ReloadFinishes, TrackerGeneration, storeVars
<1>2. /\ g \in Nat /\ g <= generation /\ generation \in Nat
      /\ \A a \in armed : a.gen <= generation
      /\ \A h \in reloads : h <= generation
      /\ generation \in reloads =>
           scheduler = "running" /\ \A a \in armed : a.gen # generation
  BY DEF TrackerInv, TypeOK, ReloadsArmOnce
<1>3. \A s \in active : Armable(data.sched[s])
  OBVIOUS
<1>4. \A s \in Sids : Armable(data.sched[s]) => s \in active
  OBVIOUS
<1>5. active \subseteq Sids
  OBVIOUS
<1> HIDE DEF active
<1>6. ReloadsArmOnce'
  <2>1. ASSUME NEW a \in armed' PROVE a.gen <= generation
    BY <1>1, <1>2
  <2>2. ASSUME generation \in reloads \ {g}
        PROVE  scheduler = "running" /\ \A a \in armed' : a.gen # generation
    BY <1>1, <1>2, <2>2
  <2>3. QED
    BY <1>1, <1>2, <2>1, <2>2 DEF ReloadsArmOnce
<1>7. FireKeepsSchedules' /\ StoppedIsUnloaded'
  BY <1>1 DEF TrackerInv, FireKeepsSchedules, StoppedIsUnloaded
<1>8. ArmedMatchesStore'
  <2>1. CASE g = generation
    <3>1. scheduler = "running" /\ \A a \in armed : a.gen # generation
      BY <1>2, <2>1
    <3>2. ASSUME NEW s \in Sids
          PROVE  ([sid |-> s, gen |-> generation] \in armed') <=> Armable(data.sched[s])
      <4>1. [sid |-> s, gen |-> generation] \notin armed
        BY <3>1
      <4>2. ([sid |-> s, gen |-> generation] \in armed') <=> s \in active
        BY <1>1, <2>1, <4>1
      <4>3. QED
        BY <1>3, <1>4, <4>2
    <3>3. QED
      BY <1>1, <3>1, <3>2 DEF ArmedMatchesStore, Current, Armable
  <2>2. CASE g # generation
    <3>1. ASSUME NEW s \in Sids
          PROVE  ([sid |-> s, gen |-> generation] \in armed')
                   <=> ([sid |-> s, gen |-> generation] \in armed)
      BY <1>1, <2>2
    <3>2. generation \notin reloads' => generation \notin reloads
      BY <1>1, <2>2
    <3>3. QED
      BY <1>1, <3>1, <3>2 DEF TrackerInv, ArmedMatchesStore, Current
  <2>3. QED
    BY <2>1, <2>2
<1>9. QED
  BY <1>6, <1>7, <1>8 DEF TrackersHold

(* The callback leaves the trackers and the published schedules alone, and     *)
(* every candidate it writes has the same schedules.                           *)
LEMMA FireSavesKeeps ==
  ASSUME TrackerInv, NEW from, NEW to, NEW cand,
         FireSaves(from, to, cand), cand.sched = data.sched
  PROVE  TrackersHold
<1>1. /\ UNCHANGED trackerVars /\ data' = data /\ entry' = entry
      /\ saving'.cand = cand
  BY DEF FireSaves, fireFrame
<1>2. FireKeepsSchedules'
  BY <1>1 DEF FireKeepsSchedules
<1>3. QED
  BY <1>1, <1>2, TrackersUntouched DEF TrackersHold

LEMMA FireStepsKeepTrackers ==
  ASSUME TrackerInv, FireSteps
  PROVE  TrackersHold
<1>1. CASE FireSavesStamp
  <2>1. [data EXCEPT !.last[job.fire.sid] = job.key].sched = data.sched
    BY DEF TrackerInv, TypeOK, Data
  <2>2. QED
    BY <1>1, <2>1, FireSavesKeeps DEF FireSavesStamp
<1>2. CASE FireSavesAttempt
  <2>1. [data EXCEPT !.log = @ \cup {[fire |-> job.fire, outcome |-> job.outcome]}].sched = data.sched
    BY DEF TrackerInv, TypeOK, Data
  <2>2. QED
    BY <1>2, <2>1, FireSavesKeeps DEF FireSavesAttempt
<1>3. CASE FireSavesDigest
  <2>1. [data EXCEPT !.digest[job.cur.cadence] = job.fire.t].sched = data.sched
    BY DEF TrackerInv, TypeOK, Data
  <2>2. QED
    BY <1>3, <2>1, FireSavesKeeps DEF FireSavesDigest
<1>4. CASE \/ \E f \in waiting : FireStarts(f)
           \/ FireMatches \/ FireReserves \/ FireRechecks \/ FireRereads
           \/ PreparationFails \/ HandsOff \/ SmtpAnswers
  <2>1. UNCHANGED trackerVars /\ UNCHANGED storeVars /\ entry' = entry
    BY <1>4 DEF FireStarts, FireMatches, FireReserves, FireRechecks, FireRereads,
                PreparationFails, HandsOff, SmtpAnswers, fireFrame
  <2>2. data' = data /\ saving' = saving
    BY <2>1 DEF storeVars
  <2>3. FireKeepsSchedules'
    BY <2>2 DEF TrackerInv, FireKeepsSchedules
  <2>4. QED
    BY <2>1, <2>2, <2>3, TrackersUntouched DEF TrackersHold
<1>5. QED
  BY <1>1, <1>2, <1>3, <1>4 DEF FireSteps

LEMMA WriteEndKeepsTrackers ==
  ASSUME TrackerInv, NEW ok \in BOOLEAN, NEW durable \in BOOLEAN,
         FireWriteEnds(ok, durable) \/ AdminWriteEnds(ok, durable)
  PROVE  TrackersHold
<1>1. saving' = Idle /\ data' = IF ok THEN saving.cand ELSE data
  BY DEF FireWriteEnds, AdminWriteEnds, WriteEnds, Published
<1>2. FireKeepsSchedules'
  BY <1>1 DEF FireKeepsSchedules, Idle
<1>3. CASE FireWriteEnds(ok, durable)
  <2>1. UNCHANGED trackerVars /\ entry' = entry /\ saving.by = "fire"
    BY <1>3 DEF FireWriteEnds, fireFrame
  <2>2. data'.sched = data.sched
    BY <1>1, <2>1 DEF TrackerInv, FireKeepsSchedules
  <2>3. QED
    BY <1>2, <2>1, <2>2, TrackersUntouched DEF TrackersHold
<1>4. CASE AdminWriteEnds(ok, durable) /\ ok
  <2>1. ReloadBegins
    BY <1>4, Zenon DEF AdminWriteEnds
  <2>2. QED
    BY <1>2, <2>1, ReloadBeginsKeeps DEF TrackersHold
<1>5. CASE AdminWriteEnds(ok, durable) /\ ~ok
  <2>1. UNCHANGED trackerVars /\ entry' = entry
    BY <1>5 DEF AdminWriteEnds, adminFrame
  <2>2. data'.sched = data.sched
    BY <1>1, <1>5
  <2>3. QED
    BY <1>2, <2>1, <2>2, TrackersUntouched DEF TrackersHold
<1>6. QED
  BY <1>3, <1>4, <1>5

LEMMA AdminKeepsTrackers ==
  ASSUME TrackerInv, AdminSteps
  PROVE  TrackersHold
<1>1. ASSUME NEW cand, AdminSaves(cand) PROVE TrackersHold
  <2>1. /\ UNCHANGED trackerVars /\ data' = data /\ entry' = entry
        /\ saving'.by = "admin"
    BY <1>1 DEF AdminSaves, adminFrame
  <2>2. FireKeepsSchedules'
    BY <2>1 DEF FireKeepsSchedules
  <2>3. QED
    BY <2>1, <2>2, TrackersUntouched DEF TrackersHold
<1>2. ASSUME NEW s \in Sids, DeleteMissing(s) PROVE TrackersHold
  <2>1. ReloadBegins /\ data' = data /\ saving' = saving
    BY <1>2 DEF DeleteMissing, storeVars
  <2>2. FireKeepsSchedules'
    BY <2>1 DEF TrackerInv, FireKeepsSchedules
  <2>3. QED
    BY <2>1, <2>2, ReloadBeginsKeeps DEF TrackersHold
<1>3. QED
  BY <1>1, <1>2 DEF AdminSteps, Delete, Upsert

LEMMA EntryKeepsTrackers ==
  ASSUME TrackerInv, EntrySteps
  PROVE  TrackersHold
<1>1. data' = data /\ saving' = saving
  BY DEF EntrySteps, EntrySetsUp, EntryPublishes, EntryReloads, EntrySetupFails, EntryUnloads, storeVars
<1>2. FireKeepsSchedules'
  BY <1>1 DEF TrackerInv, FireKeepsSchedules
<1>3. CASE EntrySetsUp \/ EntryReloads
  <2>1. ReloadBegins
    BY <1>3 DEF EntrySetsUp, EntryReloads
  <2>2. QED
    BY <1>2, <2>1, ReloadBeginsKeeps DEF TrackersHold
<1>4. CASE EntryPublishes
  <2>1. UNCHANGED trackerVars /\ entry = "setup"
    BY <1>4 DEF EntryPublishes
  <2>2. scheduler = "running"
    BY <2>1 DEF TrackerInv, TypeOK, StoppedIsUnloaded
  <2>3. QED
    BY <1>1, <1>2, <2>1, <2>2, TrackersUntouched DEF TrackersHold
<1>5. CASE EntrySetupFails
  <2>1. UNCHANGED trackerVars /\ entry' = "unloaded"
    BY <1>5 DEF EntrySetupFails
  <2>2. QED
    BY <1>1, <1>2, <2>1, TrackersUntouched DEF TrackersHold
<1>6. CASE EntryUnloads
  <2>1. /\ entry' = "unloaded" /\ armed' = {} /\ reloads' = reloads
        /\ scheduler' = "stopped" /\ generation' = generation + 1
    BY <1>6 DEF EntryUnloads, NextGeneration
  <2>2. generation \in Nat /\ \A g \in reloads : g \in Nat /\ g <= generation
    BY DEF TrackerInv, TypeOK, ReloadsArmOnce
  <2>3. ReloadsArmOnce' /\ StoppedIsUnloaded' /\ ArmedMatchesStore'
    BY <2>1, <2>2 DEF ReloadsArmOnce, StoppedIsUnloaded, ArmedMatchesStore, Current
  <2>4. QED
    BY <1>2, <2>3 DEF TrackersHold
<1>7. QED
  BY <1>3, <1>4, <1>5, <1>6 DEF EntrySteps

LEMMA NextKeepsTrackers == TrackerInv /\ [Next]_vars => TrackerInv'
<1> SUFFICES ASSUME TrackerInv, [Next]_vars PROVE TrackerInv'
  OBVIOUS
<1>1. TypeOK'
  BY NextType DEF TrackerInv
<1> SUFFICES TrackersHold
  BY <1>1, Zenon DEF TrackerInv, TrackersHold
<1>2. CASE Tick \/ Rest \/ UNCHANGED vars
  <2>1. UNCHANGED trackerVars /\ data' = data /\ saving' = saving /\ entry' = entry
    BY <1>2 DEF Tick, Rest, vars, storeVars, trackerVars
  <2>2. FireKeepsSchedules'
    BY <2>1 DEF TrackerInv, FireKeepsSchedules
  <2>3. QED
    BY <2>1, <2>2, TrackersUntouched DEF TrackersHold
<1>3. CASE FireSteps
  BY <1>3, FireStepsKeepTrackers
<1>4. CASE WritesEnd
  BY <1>4, WriteEndKeepsTrackers, Zenon DEF WritesEnd
<1>5. CASE Reloads
  BY <1>5, ReloadFinishesKeeps, Zenon DEF Reloads
<1>6. CASE AdminSteps
  BY <1>6, AdminKeepsTrackers
<1>7. CASE EntrySteps
  BY <1>7, EntryKeepsTrackers
<1>8. CASE Restart
  <2>1. /\ generation' = generation + 1 /\ reloads' = {generation + 1} /\ armed' = {}
        /\ scheduler' = "running" /\ saving' = Idle
    BY <1>8 DEF Restart, NextGeneration
  <2>2. generation \in Nat
    BY DEF TrackerInv, TypeOK
  <2>3. ReloadsArmOnce' /\ FireKeepsSchedules' /\ StoppedIsUnloaded' /\ ArmedMatchesStore'
    BY <2>1, <2>2 DEF ReloadsArmOnce, FireKeepsSchedules, StoppedIsUnloaded, ArmedMatchesStore, Idle
  <2>4. QED
    BY <2>3 DEF TrackersHold
<1>9. QED
  BY <1>2, <1>3, <1>4, <1>5, <1>6, <1>7, <1>8 DEF Next

LEMMA TrackersInductive == Spec => []TrackerInv
<1>1. QED
  BY TrackersInitially, NextKeepsTrackers, PTL DEF Spec

(* Once the newest reload has finished, the trackers that can still fire are    *)
(* those of the published active schedules, and a stopped scheduler has none,   *)
(* whatever older reloads finish late and whatever edits and restarts overlap.  *)
THEOREM ArmedMatchesStoreHolds == Spec => []ArmedMatchesStore
<1>1. TrackerInv => ArmedMatchesStore
  BY DEF TrackerInv
<1>2. QED
  BY <1>1, TrackersInductive, PTL

LEMMA OnlyHandsOff ==
  ASSUME [Next]_vars
  PROVE  HandsOff \/ handoffs' = handoffs
<1>1. CASE FireSteps
  BY <1>1 DEF FireSteps, FireStarts, FireMatches, FireReserves, FireSavesStamp, FireRechecks,
              FireRereads, PreparationFails, SmtpAnswers, FireSavesAttempt, FireSavesDigest, FireSaves
<1>2. CASE WritesEnd
  BY <1>2 DEF WritesEnd, FireWriteEnds, AdminWriteEnds, adminFrame
<1>3. CASE AdminSteps
  BY <1>3 DEF AdminSteps, Delete, DeleteMissing, Upsert, AdminSaves, adminFrame
<1>4. CASE EntrySteps
  BY <1>4 DEF EntrySteps, EntrySetsUp, EntryPublishes, EntryReloads, EntrySetupFails, EntryUnloads
<1>5. CASE Tick \/ Reloads \/ Restart \/ Rest \/ UNCHANGED vars
  BY <1>5 DEF Tick, Reloads, ReloadFinishes, Restart, Rest, vars
<1>6. QED
  BY <1>1, <1>2, <1>3, <1>4, <1>5 DEF Next

(* No energy report is handed to SMTP by a stopped scheduler.                   *)
THEOREM EnergySilentWhenStoppedHolds == Spec => EnergySilentWhenStopped
<1> DEFINE Silent == handoffs' # handoffs /\ job.cur.kind = "energy_report" => scheduler = "running"
<1>1. ASSUME TrackerInv, [Next]_vars PROVE Silent
  <2>1. CASE HandsOff
    <3>1. job.cur.kind = "energy_report" => HasAnalysis
      BY <2>1 DEF HandsOff, HandoffFence
    <3>2. HasAnalysis => scheduler = "running"
      BY <1>1 DEF TrackerInv, TypeOK, StoppedIsUnloaded, HasAnalysis
    <3>3. QED
      BY <3>1, <3>2
  <2>2. CASE ~HandsOff
    <3>1. handoffs' = handoffs
      BY <1>1, <2>2, OnlyHandsOff
    <3>2. QED
      BY <3>1
  <2>3. QED
    BY <2>1, <2>2
<1>2. QED
  BY <1>1, TrackersInductive, PTL DEF Spec, EnergySilentWhenStopped

-----------------------------------------------------------------------------
(***************************************************************************)
(* The invariant: arithmetic and frame lemmas.                              *)
(***************************************************************************)
LEMMA DivMonotone ==
  ASSUME NEW a \in Nat, NEW b \in Nat, a <= b, NEW n \in Nat \ {0}
  PROVE  a \div n <= b \div n
<1> DEFINE p == a \div n
           q == b \div n
<1>1. p \in Int /\ q \in Int
  OBVIOUS
<1>2. n * p <= a /\ b < n * q + n
  BY SMTT(30)
<1> HIDE DEF p, q
<1>3. SUFFICES ASSUME q + 1 <= p PROVE FALSE
  BY <1>1 DEF p, q
<1>4. n * (q + 1) <= n * p
  BY <1>1, <1>3
<1>5. n * (q + 1) = n * q + n
  BY <1>1
<1>6. n * p \in Int /\ n * q \in Int
  BY <1>1
<1>7. QED
  BY <1>2, <1>4, <1>5, <1>6

(* What is not ahead of a minute is not ahead of a later one. *)
LEMMA LaterNotAhead ==
  ASSUME NEW k \in Keys, NEW t \in Nat, NEW u \in Nat, t <= u, NotAhead(k, t)
  PROVE  NotAhead(k, u)
<1>1. PeriodLen[k.cadence] \in Nat \ {0}
  BY ConstantsAssumption DEF Keys
<1>2. t \div PeriodLen[k.cadence] <= u \div PeriodLen[k.cadence]
  BY <1>1, DivMonotone
<1>3. /\ t \div PeriodLen[k.cadence] \in Nat
      /\ u \div PeriodLen[k.cadence] \in Nat
  BY <1>1
<1>4. QED
  BY <1>2, <1>3 DEF NotAhead, PeriodKey, Keys

LEMMA FireTimesType == TypeOK => FireTimes \subseteq Nat
  BY DEF TypeOK, FireTimes, Fires, Jobs, Matching, IdleJob


(* A step that keeps the minutes and the stamps keeps the callbacks in order. *)
LEMMA InOrderKept ==
  ASSUME IInv, clock' = clock, handoffs' = handoffs, waiting' = waiting,
         job' = IdleJob \/ (job # IdleJob /\ job' # IdleJob /\ job'.fire = job.fire),
         \A D \in Docs', s \in Sids : D.last[s] # None => \E E \in Docs : E.last[s] = D.last[s]
  PROVE  InOrder'
<1> USE DEF IInv, StoreInv
<1>1. FireTimes' \subseteq FireTimes
  BY DEF FireTimes
<1>2. ASSUME NEW t \in FireTimes' PROVE t <= clock' /\ \A h \in handoffs' : h.fire.t <= t
  BY <1>1 DEF InOrder
<1>3. ASSUME NEW t \in FireTimes', NEW D \in Docs', NEW s \in Sids, D.last[s] # None
      PROVE  NotAhead(D.last[s], t)
  <2>1. PICK E \in Docs : E.last[s] = D.last[s]
    BY <1>3
  <2>2. QED
    BY <1>1, <1>3, <2>1 DEF InOrder
<1>4. ASSUME job' # IdleJob, NEW w \in waiting' PROVE job'.fire.t <= w.t
  BY <1>4 DEF InOrder
<1>5. QED
  BY <1>2, <1>3, <1>4 DEF InOrder

(* One minute later, callbacks and stamps are still in order. *)
LEMMA TickInOrder ==
  ASSUME IInv, TypeOK', Tick
  PROVE  InOrder'
<1> USE DEF IInv, TypeOK, Tick, storeVars, trackerVars
<1>1. /\ \A w \in waiting' : w \in waiting \/ w.t = clock + 1
      /\ Docs' = Docs /\ handoffs' = handoffs /\ job' = job /\ clock' = clock + 1
  BY DEF Docs
<1>2. FireTimes' \subseteq FireTimes \cup {clock + 1}
  BY <1>1 DEF FireTimes
<1>3. clock \in FireTimes /\ clock \in Nat /\ FireTimes \subseteq Nat
  BY FireTimesType DEF FireTimes
<1>4. /\ \A h \in handoffs : h.fire.t <= clock + 1
      /\ \A D \in Docs, s \in Sids : D.last[s] # None => NotAhead(D.last[s], clock + 1)
  <2>1. ASSUME NEW h \in handoffs PROVE h.fire.t <= clock + 1
    BY <1>3 DEF StoreInv, InOrder, Fires
  <2>2. ASSUME NEW D \in Docs, NEW s \in Sids, D.last[s] # None
        PROVE  NotAhead(D.last[s], clock + 1)
    <3>1. D.last[s] \in Keys
      BY <2>2 DEF Docs, Data, Idle
    <3>2. NotAhead(D.last[s], clock)
      BY <2>2, <1>3 DEF StoreInv, InOrder
    <3>3. QED
      BY <3>1, <3>2, <1>3, LaterNotAhead
  <2>3. QED
    BY <2>1, <2>2
<1>5. job # IdleJob => job.fire.t \in FireTimes
  BY DEF FireTimes
<1>6. \A t \in FireTimes : t <= clock
  BY DEF StoreInv, InOrder
<1>7. ASSUME job' # IdleJob, NEW w \in waiting' PROVE job'.fire.t <= w.t
  <2>1. job.fire.t <= clock /\ job.fire.t \in Nat
    BY <1>1, <1>3, <1>5, <1>6, <1>7
  <2>2. w \in waiting => job.fire.t <= w.t
    BY <1>1, <1>7 DEF StoreInv, InOrder
  <2>3. QED
    BY <1>1, <1>3, <2>1, <2>2
<1>8. ASSUME NEW t \in FireTimes'
      PROVE  /\ t <= clock'
             /\ \A h \in handoffs' : h.fire.t <= t
             /\ \A D \in Docs', s \in Sids : D.last[s] # None => NotAhead(D.last[s], t)
  <2>1. CASE t \in FireTimes
    <3>1. t <= clock /\ t \in Nat
      BY <1>3, <1>6, <2>1
    <3>2. t <= clock + 1
      BY <3>1, <1>3
    <3>3. /\ \A h \in handoffs : h.fire.t <= t
          /\ \A D \in Docs, s \in Sids : D.last[s] # None => NotAhead(D.last[s], t)
      BY <2>1 DEF StoreInv, InOrder
    <3>4. QED
      BY <1>1, <3>2, <3>3
  <2>2. CASE t = clock + 1
    BY <1>1, <1>3, <1>4, <2>2
  <2>3. QED
    BY <1>2, <2>1, <2>2
<1>9. QED
  BY <1>7, <1>8 DEF InOrder

(***************************************************************************)
(* The steps of the callback.                                               *)
(***************************************************************************)
(* The shape of the callback past its match. *)
LEMMA PastMatch ==
  ASSUME TypeOK, job.pc \notin {"idle", "match"}
  PROVE  job \in Jobs /\ job # IdleJob /\ Matched
BY DEF TypeOK, IdleJob, Matching, Jobs, Pcs, Matched

(***************************************************************************)
(* Frames: what a step that leaves the store, or the callback, alone keeps.  *)
(***************************************************************************)
SameSections(D, E) ==
  D.sched = E.sched /\ D.edited = E.edited /\ D.last = E.last /\ D.era = E.era

LEMMA StoreKept ==
  ASSUME IInv, InOrder', GenerationsBounded', data' = data, handoffs' = handoffs,
         \A D \in Docs' : \E E \in Docs : SameSections(D, E)
  PROVE  StoreInv'
<1>1. HandoffsKeyed'
  BY DEF IInv, StoreInv, HandoffsKeyed, PeriodKey
<1>2. ErasGrow'
  BY DEF IInv, StoreInv, ErasGrow, SameSections
<1>3. Remembered'
  <2>1. ASSUME NEW D \in Docs', NEW h \in handoffs PROVE Remembers(D, h)
    <3>1. PICK E \in Docs : SameSections(D, E)
      OBVIOUS
    <3>2. Remembers(E, h)
      BY DEF IInv, StoreInv, Remembered
    <3>3. QED
      BY <3>1, <3>2 DEF Remembers, SameSections
  <2>2. QED
    BY <2>1 DEF Remembered
<1>4. Unreported'
  <2>1. \A s \in Sids : Reported(s)' = Reported(s)
    BY DEF Reported
  <2>2. ASSUME NEW D \in Docs', NEW s \in Sids, D.era[s] = data.era[s]
        PROVE  D.last[s] = data.last[s] \/ (D.last[s] \in Keys /\ D.last[s] \notin Reported(s))
    <3>1. PICK E \in Docs : SameSections(D, E)
      OBVIOUS
    <3>2. QED
      BY <2>2, <3>1 DEF IInv, StoreInv, Unreported, SameSections
  <2>3. QED
    BY <2>1, <2>2 DEF Unreported
<1>5. QED
  BY <1>1, <1>2, <1>3, <1>4 DEF StoreInv

(* A callback that has not matched, or that has ended, knows nothing yet. *)
LEMMA JobUnmatched ==
  ASSUME job' = IdleJob \/ job'.pc = "match", saving'.by # "fire"
  PROVE  JobInv'
<1>1. ~Matched' /\ job'.pc \in {"idle", "match"}
  BY DEF Matched, IdleJob
<1>2. JobWrites'
  BY <1>1 DEF JobWrites
<1>3. QED
  BY <1>1, <1>2 DEF JobInv, JobKeyed, JobSees, JobFollows, JobNew, JobStamped, Stamped, BeforeHandoff

(* A callback keeps what it knows while the store stays as it is. *)
LEMMA JobKept ==
  ASSUME IInv, job' = job, data' = data, saving' = saving, handoffs' = handoffs, Docs' = Docs,
         scheduleRevision' = scheduleRevision
  PROVE  JobInv'
BY DEF IInv, JobInv, JobKeyed, JobSees, JobFollows, JobNew, JobStamped, JobWrites, Stamped,
       BeforeHandoff, Matched, Unedited, PeriodKey

(* Past its handoff a callback only has its records left to write. *)
LEMMA JobHandedOff ==
  ASSUME IInv, job \in Jobs, job' \in Jobs, job'.fire = job.fire, job'.key = job.key,
         job'.cur = job.cur, job'.edited = job.edited, job'.sendRev = job.sendRev,
         job'.pc \in {"sending", "record", "recording", "digest", "digesting"},
         data' = data, scheduleRevision' = scheduleRevision, JobWrites'
  PROVE  JobInv'
<1>1. Matched /\ Matched' /\ ~Stamped' /\ ~BeforeHandoff'
  BY DEF Matched, Stamped, BeforeHandoff, Jobs, Pcs, IdleJob
<1>2. JobKeyed' /\ JobSees'
  BY <1>1 DEF IInv, JobInv, JobKeyed, JobSees, Unedited, PeriodKey
<1>3. JobFollows' /\ JobNew' /\ JobStamped'
  BY <1>1 DEF JobFollows, JobNew, JobStamped
<1>4. QED
  BY <1>2, <1>3 DEF JobInv

(* A write that changes neither schedules, stamps nor eras. *)
LEMMA RecordSaved ==
  ASSUME IInv, TypeOK', NEW from, NEW to, NEW cand, FireSaves(from, to, cand),
         from \in {"record", "digest"}, to \in {"recording", "digesting"}, SameSections(cand, data)
  PROVE  StoreInv' /\ JobInv' /\ handoffs' = handoffs
<1>1. /\ job \in Jobs /\ job # IdleJob /\ job.pc = from
  BY PastMatch DEF IInv, FireSaves
<1>2. /\ job' = [job EXCEPT !.pc = to] /\ saving' = [by |-> "fire", cand |-> cand]
      /\ clock' = clock /\ waiting' = waiting /\ handoffs' = handoffs
      /\ data' = data /\ disk' = disk /\ generation' = generation
      /\ scheduleRevision' = scheduleRevision /\ armed' = armed /\ reloads' = reloads
  BY DEF FireSaves, Goto, fireFrame, trackerVars
<1>3. /\ job' \in Jobs /\ job' # IdleJob /\ job'.pc = to /\ job'.fire = job.fire
      /\ job'.key = job.key /\ job'.cur = job.cur /\ job'.edited = job.edited /\ job'.sendRev = job.sendRev
  BY <1>1, <1>2 DEF Jobs, IdleJob, Pcs
<1>4. \A D \in Docs' : \E E \in Docs : SameSections(D, E)
  BY <1>2 DEF Docs, SameSections
<1>5. InOrder'
  BY <1>1, <1>2, <1>3, <1>4, InOrderKept DEF SameSections
<1>6. GenerationsBounded'
  BY <1>1, <1>2, <1>3 DEF IInv, StoreInv, GenerationsBounded
<1>7. StoreInv'
  BY <1>2, <1>4, <1>5, <1>6, StoreKept
<1>8. JobWrites'
  BY <1>2, <1>3 DEF JobWrites, SameSections
<1>9. JobInv'
  BY <1>1, <1>2, <1>3, <1>8, JobHandedOff
<1>10. QED
  BY <1>2, <1>7, <1>9

(* At the match, the reports of the era are of the basis read from the store, *)
(* and of minutes that are not later.                                         *)
LEMMA MatchFollows ==
  ASSUME IInv, TypeOK', FireMatches
  PROVE  JobFollows'
<1> USE DEF IInv, TypeOK
<1> DEFINE sid == job.fire.sid
           cur == data.sched[sid]
<1>1. CASE job' = IdleJob
  BY <1>1 DEF JobFollows, Matched, IdleJob
<1>2. CASE job' # IdleJob
  <2>1. /\ cur \in Drafts /\ job'.fire = job.fire
        /\ job'.key = PeriodKey(cur.cadence, job.fire.t)
        /\ job.fire \in Fires /\ job # IdleJob
    BY <1>2 DEF FireMatches, FireEnds, Data, Fires, Jobs, Matching, IdleJob
  <2>2. SUFFICES ASSUME NEW h \in handoffs, h.fire.sid = sid, h.era = data.era[sid]
                 PROVE  h.key.cadence = job'.key.cadence /\ h.key.n <= job'.key.n
    BY <2>1 DEF JobFollows, FireMatches, fireFrame, storeVars
  <2>3. h.key \in Keys /\ h.fire.t \in Nat /\ job.fire.t \in Nat
    BY <2>1 DEF Fires
  <2>4. h.key.cadence = cur.cadence
    BY <2>2 DEF StoreInv, Remembered, Remembers, Docs
  <2>5. h.key = PeriodKey(cur.cadence, h.fire.t)
    BY <2>4 DEF StoreInv, HandoffsKeyed
  <2>6. h.fire.t <= job.fire.t
    BY <2>1 DEF StoreInv, InOrder, FireTimes
  <2>7. NotAhead(h.key, h.fire.t)
    BY <2>3, <2>4, <2>5 DEF NotAhead, Keys
  <2>8. NotAhead(h.key, job.fire.t)
    BY <2>3, <2>6, <2>7, LaterNotAhead
  <2>9. QED
    BY <2>1, <2>4, <2>8 DEF NotAhead, PeriodKey
<1>3. QED
  BY <1>1, <1>2

(* The durable fence: a period other than the stamped one was never reported. *)
LEMMA ReserveIsNew ==
  ASSUME IInv, TypeOK', FireReserves
  PROVE  JobNew'
<1> USE DEF IInv, TypeOK
<1> DEFINE sid == job.fire.sid
<1>1. job \in Jobs /\ job # IdleJob /\ Matched /\ sid \in Sids
  BY PastMatch DEF FireReserves, Jobs, Fires
<1>2. CASE job' = IdleJob
  BY <1>2 DEF JobNew, BeforeHandoff, Matched, IdleJob
<1>3. CASE job' # IdleJob
  <2>1. data.last[sid] # job.key /\ job'.fire = job.fire /\ job'.key = job.key
    BY <1>1, <1>3 DEF FireReserves, FireEnds, AlreadyStamped, Goto, Jobs
  <2>2. data' = data /\ handoffs' = handoffs
    BY DEF FireReserves, storeVars
  <2> SUFFICES ASSUME NEW h \in handoffs, h.fire.sid = sid, h.era = data.era[sid], h.key = job.key
               PROVE  FALSE
    BY <2>1, <2>2 DEF JobNew
  <2>3. /\ data.last[sid] \in Keys /\ data.last[sid].cadence = job.key.cadence
        /\ job.key.n <= data.last[sid].n
    BY <1>1 DEF StoreInv, Remembered, Remembers, Docs, Data
  <2>4. NotAhead(data.last[sid], job.fire.t)
    BY <1>1, <2>3, NoneAssumption DEF StoreInv, InOrder, FireTimes, Docs
  <2>5. job.key = PeriodKey(job.cur.cadence, job.fire.t)
    BY <1>1 DEF JobInv, JobKeyed
  <2>6. job.key.n = PeriodKey(job.key.cadence, job.fire.t).n /\ job.key \in Keys
    BY <1>1, <2>5 DEF PeriodKey, Jobs
  <2>7. data.last[sid].n = job.key.n
    BY <2>3, <2>4, <2>6 DEF NotAhead, Keys
  <2>8. QED
    BY <2>1, <2>3, <2>6, <2>7 DEF Keys
<1>4. QED
  BY <1>2, <1>3

(* The callback that holds the lock is the earliest one. *)
LEMMA JobIsEarliest ==
  ASSUME IInv, job # IdleJob, NEW t \in FireTimes
  PROVE  job.fire.t <= t
<1>1. job.fire.t \in FireTimes
  BY DEF FireTimes
<1>2. CASE t = clock
  BY <1>1, <1>2 DEF IInv, StoreInv, InOrder
<1>3. CASE t \in {w.t : w \in waiting}
  BY <1>3 DEF IInv, StoreInv, InOrder
<1>4. CASE t = job.fire.t
  BY <1>1, <1>4, FireTimesType DEF IInv
<1>5. QED
  BY <1>2, <1>3, <1>4 DEF FireTimes

(* The stamp being written is in order, and of a period that was not reported. *)
LEMMA StampSaved ==
  ASSUME IInv, TypeOK', FireSavesStamp
  PROVE  StoreInv' /\ JobInv' /\ handoffs' = handoffs
<1> USE DEF IInv, TypeOK
<1> DEFINE sid == job.fire.sid
           cand == [data EXCEPT !.last[sid] = job.key]
<1>1. /\ job \in Jobs /\ job # IdleJob /\ Matched /\ BeforeHandoff
      /\ sid \in Sids /\ job.key \in Keys /\ job.fire.t \in Nat
  BY PastMatch DEF FireSavesStamp, FireSaves, Jobs, Fires, BeforeHandoff
<1>2. /\ Docs' = Docs \cup {cand} /\ data \in Docs
      /\ clock' = clock /\ waiting' = waiting /\ handoffs' = handoffs /\ data' = data
      /\ job' # IdleJob /\ job'.fire = job.fire
  BY <1>1 DEF FireSavesStamp, FireSaves, Goto, fireFrame, Docs, StoreFree, Idle, Jobs, IdleJob
<1>3. /\ cand.sched = data.sched /\ cand.era = data.era /\ cand.edited = data.edited
      /\ \A s \in Sids : cand.last[s] = IF s = sid THEN job.key ELSE data.last[s]
  BY <1>1 DEF Data
<1> HIDE DEF cand
<1>4. FireTimes' = FireTimes
  BY <1>1, <1>2 DEF FireTimes
<1>5. InOrder'
  <2>1. NotAhead(job.key, job.fire.t)
    <3>1. job.key = PeriodKey(job.cur.cadence, job.fire.t)
      BY <1>1 DEF JobInv, JobKeyed
    <3>2. QED
      BY <1>1, <3>1 DEF NotAhead, PeriodKey, Keys
  <2>2. ASSUME NEW t \in FireTimes, NEW D \in Docs', NEW s \in Sids, D.last[s] # None
        PROVE  NotAhead(D.last[s], t)
    <3>1. CASE D = cand /\ s = sid
      <4>1. job.fire.t <= t /\ t \in Nat
        BY <1>1, JobIsEarliest, FireTimesType
      <4>2. QED
        BY <1>1, <1>3, <2>1, <3>1, <4>1, LaterNotAhead
    <3>2. CASE D = cand /\ s # sid
      BY <1>2, <1>3, <2>2, <3>2 DEF StoreInv, InOrder
    <3>3. CASE D \in Docs
      BY <2>2, <3>3 DEF StoreInv, InOrder
    <3>4. QED
      BY <1>2, <3>1, <3>2, <3>3
  <2>3. ASSUME NEW t \in FireTimes PROVE t <= clock /\ \A h \in handoffs : h.fire.t <= t
    BY DEF StoreInv, InOrder
  <2>4. \A w \in waiting : job.fire.t <= w.t
    BY <1>1 DEF StoreInv, InOrder
  <2>5. QED
    BY <1>2, <1>4, <2>2, <2>3, <2>4 DEF InOrder
<1>6. Remembered'
  <2>1. ASSUME NEW h \in handoffs PROVE Remembers(cand, h)
    <3>1. CASE h.fire.sid = sid /\ h.era = data.era[sid]
      <4>1. Remembers(data, h) /\ h.key.cadence = job.key.cadence /\ h.key.n <= job.key.n
        BY <1>1, <1>2, <3>1 DEF StoreInv, Remembered, JobInv, JobFollows, FireSavesStamp, FireSaves
      <4>2. QED
        BY <1>1, <1>3, <3>1, <4>1, NoneAssumption DEF Remembers
    <3>2. CASE ~(h.fire.sid = sid /\ h.era = data.era[sid])
      <4>1. Remembers(data, h) /\ h.fire.sid \in Sids
        BY <1>2 DEF StoreInv, Remembered, Fires
      <4>2. QED
        BY <1>3, <3>2, <4>1 DEF Remembers
    <3>3. QED
      BY <3>1, <3>2
  <2>2. QED
    BY <1>2, <2>1 DEF Remembered, StoreInv, Remembers
<1>7. Unreported'
  <2>1. \A s \in Sids : Reported(s)' = Reported(s)
    BY <1>2 DEF Reported
  <2>2. job.key \notin Reported(sid)
    BY <1>1 DEF JobInv, JobNew, Reported
  <2>3. ASSUME NEW s \in Sids
        PROVE  cand.last[s] = data.last[s] \/ (cand.last[s] \in Keys /\ cand.last[s] \notin Reported(s))
    BY <1>1, <1>3, <2>2
  <2>4. QED
    BY <1>2, <2>1, <2>3 DEF Unreported, StoreInv
<1>8. ErasGrow'
  BY <1>2, <1>3 DEF StoreInv, ErasGrow, Data
<1>9. HandoffsKeyed' /\ GenerationsBounded'
  BY <1>1, <1>2 DEF FireSavesStamp, FireSaves, fireFrame, trackerVars, StoreInv, HandoffsKeyed,
                    GenerationsBounded, PeriodKey
<1>10. JobInv'
  <2>1. /\ job' \in Jobs /\ job'.pc = "reserving" /\ job'.key = job.key
        /\ job'.cur = job.cur /\ job'.edited = job.edited /\ job'.sendRev = job.sendRev /\ Matched' /\ job.pc = "reserve"
        /\ generation' = generation /\ scheduleRevision' = scheduleRevision
        /\ saving' = [by |-> "fire", cand |-> cand]
    BY <1>1, <1>2 DEF FireSavesStamp, FireSaves, Goto, Jobs, Matched, fireFrame, trackerVars, cand, Pcs
  <2>2. JobKeyed' /\ JobSees'
    BY <1>1, <1>2, <2>1 DEF JobInv, JobKeyed, JobSees, Unedited, PeriodKey
  <2>3. JobFollows' /\ JobNew' /\ JobStamped'
    BY <1>1, <1>2, <2>1 DEF JobInv, JobFollows, JobNew, JobStamped, BeforeHandoff, Stamped
  <2>4. cand.last = [data.last EXCEPT ![job'.fire.sid] = job'.key]
    BY <1>1, <1>2, <2>1 DEF Data, cand
  <2>5. JobWrites'
    BY <1>2, <1>3, <2>1, <2>4 DEF JobWrites
  <2>6. QED
    BY <2>2, <2>3, <2>5 DEF JobInv
<1>11. QED
  BY <1>2, <1>5, <1>6, <1>7, <1>8, <1>9, <1>10 DEF StoreInv

(* The last fence proves that no edit was published since the match. *)
LEMMA HandoffUnedited ==
  ASSUME IInv, HandsOff
  PROVE  Unedited
<1>1. Matched /\ job.pc = "prepare"
  BY PastMatch DEF IInv, HandsOff
<1>2. Unedited \/ job.sendRev = scheduleRevision
  BY DEF HandsOff, HandoffFence
<1>3. QED
  BY <1>1, <1>2 DEF IInv, JobInv, JobSees

(* The message that leaves is the first of its period, and every document of *)
(* the era already carries its stamp.                                        *)
LEMMA HandoffKept ==
  ASSUME IInv, TypeOK', HandsOff
  PROVE  StoreInv' /\ JobInv' /\ OncePerPeriodInv'
<1> USE DEF IInv, TypeOK
<1> DEFINE sid == job.fire.sid
           new == [fire |-> job.fire, key |-> job.key, era |-> data.era[sid]]
<1>1. /\ job \in Jobs /\ job # IdleJob /\ BeforeHandoff /\ Stamped /\ Unedited /\ Matched
      /\ sid \in Sids /\ job.key \in Keys /\ job.fire \in Fires
  BY PastMatch, HandoffUnedited DEF HandsOff, Jobs, Fires, BeforeHandoff, Stamped
<1>2. /\ handoffs' = handoffs \cup {new} /\ Docs' = Docs /\ data' = data /\ data \in Docs
      /\ clock' = clock /\ waiting' = waiting /\ job' # IdleJob /\ job'.fire = job.fire
  BY <1>1 DEF HandsOff, Goto, fireFrame, storeVars, Docs, Jobs, IdleJob
<1>3. new.fire = job.fire /\ new.key = job.key /\ new.era = data.era[sid]
  OBVIOUS
<1> HIDE DEF new
<1>4. HandoffsKeyed'
  <2>1. new.key = PeriodKey(new.key.cadence, new.fire.t)
    BY <1>1, <1>3 DEF JobInv, JobKeyed, PeriodKey
  <2>2. QED
    BY <1>2, <2>1 DEF HandoffsKeyed, StoreInv, PeriodKey
<1>5. InOrder'
  <2>1. FireTimes' = FireTimes
    BY <1>1, <1>2 DEF FireTimes
  <2>2. \A t \in FireTimes : new.fire.t <= t
    BY <1>1, <1>3, JobIsEarliest
  <2>3. \A w \in waiting : job.fire.t <= w.t
    BY <1>1 DEF StoreInv, InOrder
  <2>4. ASSUME NEW t \in FireTimes
        PROVE  /\ t <= clock
               /\ \A h \in handoffs : h.fire.t <= t
               /\ \A D \in Docs, s \in Sids : D.last[s] # None => NotAhead(D.last[s], t)
    BY DEF StoreInv, InOrder
  <2>5. QED
    BY <1>2, <2>1, <2>2, <2>3, <2>4 DEF InOrder
<1>6. ASSUME NEW D \in Docs, D.era[sid] = data.era[sid]
      PROVE  D.last[sid] = job.key /\ D.sched[sid] # None /\ D.sched[sid].cadence = job.key.cadence
  BY <1>1, <1>6 DEF JobInv, JobStamped, JobKeyed, PeriodKey
<1>7. Remembered'
  <2>1. ASSUME NEW D \in Docs PROVE Remembers(D, new)
    BY <1>1, <1>3, <1>6, NoneAssumption DEF Remembers, Keys
  <2>2. QED
    BY <1>2, <2>1 DEF Remembered, StoreInv
<1>8. Unreported'
  <2>1. data.last[sid] = job.key
    BY <1>2, <1>6
  <2>2. ASSUME NEW s \in Sids, s # sid PROVE Reported(s)' = Reported(s)
    BY <1>2, <1>3, <2>2 DEF Reported
  <2>3. ASSUME NEW D \in Docs, NEW s \in Sids, D.era[s] = data.era[s]
        PROVE  D.last[s] = data.last[s] \/ (D.last[s] \in Keys /\ D.last[s] \notin Reported(s)')
    <3>1. CASE s = sid
      BY <1>6, <2>1, <2>3, <3>1
    <3>2. CASE s # sid
      BY <2>2, <2>3, <3>2 DEF StoreInv, Unreported
    <3>3. QED
      BY <3>1, <3>2
  <2>4. QED
    BY <1>2, <2>3 DEF Unreported
<1>9. OncePerPeriodInv'
  <2>1. ASSUME NEW h \in handoffs, h.fire.sid = sid, h.era = data.era[sid] PROVE h.key # job.key
    BY <1>1, <2>1 DEF JobInv, JobNew
  <2>2. QED
    BY <1>2, <1>3, <2>1 DEF OncePerPeriodInv
<1>10. /\ generation' = generation /\ scheduleRevision' = scheduleRevision
       /\ armed' = armed /\ reloads' = reloads /\ saving' = saving
  BY DEF HandsOff, fireFrame, trackerVars, storeVars
<1>11. ErasGrow' /\ GenerationsBounded'
  <2>1. ErasGrow'
    BY <1>1, <1>2, <1>3 DEF StoreInv, ErasGrow, Data
  <2>2. GenerationsBounded'
    BY <1>1, <1>2, <1>10 DEF StoreInv, GenerationsBounded
  <2>3. QED
    BY <2>1, <2>2
<1>12. JobInv'
  <2>1. /\ job' \in Jobs /\ job'.pc = "sending" /\ job'.key = job.key
        /\ job'.cur = job.cur /\ job'.edited = job.edited /\ job'.sendRev = job.sendRev /\ job.pc = "prepare"
    BY <1>1 DEF HandsOff, Goto, Jobs, Pcs
  <2>2. JobWrites'
    BY <1>2, <1>10, <2>1 DEF JobInv, JobWrites
  <2>3. QED
    BY <1>1, <1>2, <1>10, <2>1, <2>2, JobHandedOff
<1>13. QED
  BY <1>4, <1>5, <1>7, <1>8, <1>9, <1>11, <1>12 DEF StoreInv

(***************************************************************************)
(* The administrator's edits.                                               *)
(***************************************************************************)

(* An edit keeps the era of a schedule that keeps its basis, and only then. *)
LEMMA UpsertKept ==
  ASSUME IInv, TypeOK', NEW x \in Sids, NEW d \in Drafts, Upsert(x, d)
  PROVE  StoreInv' /\ JobInv'
<1> USE DEF IInv, TypeOK
<1> DEFINE bump == data.sched[x] # None /\ data.sched[x].cadence # d.cadence
           cand == [data EXCEPT !.sched[x] = d, !.edited[x] = Edited(x),
                                !.era[x] = IF bump THEN @ + 1 ELSE @]
<1>1. /\ Docs' = Docs \cup {cand} /\ data \in Docs /\ data' = data /\ handoffs' = handoffs
      /\ clock' = clock /\ waiting' = waiting /\ job' = job /\ generation' = generation
  BY DEF Upsert, AdminSaves, adminFrame, trackerVars, Docs, StoreFree, Idle
<1>2. /\ cand.last = data.last
      /\ \A s \in Sids : s # x => /\ cand.sched[s] = data.sched[s]
                                  /\ cand.era[s] = data.era[s]
                                  /\ cand.edited[s] = data.edited[s]
      /\ cand.sched[x] = d /\ cand.era[x] = IF bump THEN data.era[x] + 1 ELSE data.era[x]
      /\ cand.edited[x] = data.edited[x] + 1
  BY DEF Data, Edited
<1>3. /\ data.era \in [Sids -> Nat] /\ data.edited \in [Sids -> Nat]
      /\ handoffs \subseteq [fire : Fires, key : Keys, era : Nat]
  BY DEF Data
<1>4. d # None
  BY NoneAssumption
<1> HIDE DEF cand
<1>5. ErasGrow'
  BY <1>1, <1>2, <1>3 DEF StoreInv, ErasGrow, Fires
<1>6. InOrder'
  BY <1>1, <1>2, InOrderKept
<1>7. ASSUME NEW h \in handoffs PROVE Remembers(cand, h)
  <2>1. Remembers(data, h) /\ h.fire.sid \in Sids /\ h.era <= data.era[h.fire.sid] /\ h.era \in Nat
    BY <1>1, <1>3 DEF StoreInv, Remembered, ErasGrow, Fires
  <2>2. CASE h.fire.sid = x
    BY <1>2, <1>3, <1>4, <2>1, <2>2 DEF Remembers
  <2>3. CASE h.fire.sid # x
    BY <1>2, <2>1, <2>3 DEF Remembers
  <2>4. QED
    BY <2>2, <2>3
<1>8. Remembered'
  BY <1>1, <1>7 DEF StoreInv, Remembered
<1>9. Unreported'
  <2>1. \A s \in Sids : Reported(s)' = Reported(s)
    BY <1>1 DEF Reported
  <2>2. QED
    BY <1>1, <1>2, <2>1 DEF StoreInv, Unreported
<1>10. JobStamped'
  <2>1. SUFFICES ASSUME Stamped, Unedited
                 PROVE  LET s == job.fire.sid IN
                        cand.era[s] = data.era[s] =>
                          /\ cand.last[s] = job.key
                          /\ cand.sched[s] # None
                          /\ cand.sched[s].cadence = job.cur.cadence
    BY <1>1 DEF JobInv, JobStamped, Stamped, Matched, Unedited
  <2>2. job.fire.sid \in Sids
    BY PastMatch, <2>1 DEF Stamped, Jobs, Fires
  <2>3. /\ data.last[job.fire.sid] = job.key
        /\ data.sched[job.fire.sid] # None
        /\ data.sched[job.fire.sid].cadence = job.cur.cadence
    BY <1>1, <2>1 DEF JobInv, JobStamped
  <2>4. CASE job.fire.sid = x
    BY <1>2, <1>3, <1>4, <2>3, <2>4
  <2>5. CASE job.fire.sid # x
    BY <1>2, <2>2, <2>3, <2>5
  <2>6. QED
    BY <2>4, <2>5
<1>11. HandoffsKeyed' /\ GenerationsBounded'
  BY <1>1 DEF Upsert, AdminSaves, trackerVars, StoreInv, HandoffsKeyed, GenerationsBounded, PeriodKey
<1>12. JobKeyed' /\ JobSees' /\ JobFollows' /\ JobNew'
  BY <1>1 DEF Upsert, AdminSaves, JobInv, JobKeyed, JobSees, JobFollows, JobNew, BeforeHandoff,
              Matched, Unedited, PeriodKey
<1>13. JobWrites'
  <2>1. saving = Idle /\ saving'.by = "admin"
    BY DEF Upsert, AdminSaves, StoreFree
  <2>2. saving.by # "fire"
    BY <2>1 DEF Idle
  <2>3. QED
    BY <1>1, <2>1, <2>2 DEF JobInv, JobWrites
<1>14. QED
  BY <1>5, <1>6, <1>8, <1>9, <1>10, <1>11, <1>12, <1>13 DEF StoreInv, JobInv

(* A delete forgets the stamp and opens a new era. *)
LEMMA DeleteKept ==
  ASSUME IInv, TypeOK', NEW x \in Sids, Delete(x)
  PROVE  StoreInv' /\ JobInv'
<1> USE DEF IInv, TypeOK
<1> DEFINE cand == [data EXCEPT !.sched[x] = None, !.last[x] = None, !.era[x] = @ + 1]
<1>1. /\ Docs' = Docs \cup {cand} /\ data \in Docs /\ data' = data /\ handoffs' = handoffs
      /\ clock' = clock /\ waiting' = waiting /\ job' = job /\ generation' = generation
  BY DEF Delete, AdminSaves, adminFrame, trackerVars, Docs, StoreFree, Idle
<1>2. /\ \A s \in Sids : s # x => /\ cand.sched[s] = data.sched[s]
                                  /\ cand.era[s] = data.era[s]
                                  /\ cand.last[s] = data.last[s]
      /\ cand.last[x] = None /\ cand.era[x] = data.era[x] + 1 /\ cand.sched[x] = None
      /\ cand.edited = data.edited
  BY DEF Data
<1>3. /\ data.era \in [Sids -> Nat] /\ data.edited \in [Sids -> Nat]
      /\ handoffs \subseteq [fire : Fires, key : Keys, era : Nat]
  BY DEF Data
<1> HIDE DEF cand
<1>4. ErasGrow'
  BY <1>1, <1>2, <1>3 DEF StoreInv, ErasGrow, Fires
<1>5. InOrder'
  <2>1. \A D \in Docs', s \in Sids : D.last[s] # None => \E E \in Docs : E.last[s] = D.last[s]
    BY <1>1, <1>2
  <2>2. QED
    BY <1>1, <2>1, InOrderKept
<1>6. ASSUME NEW h \in handoffs PROVE Remembers(cand, h)
  <2>1. Remembers(data, h) /\ h.fire.sid \in Sids /\ h.era <= data.era[h.fire.sid] /\ h.era \in Nat
    BY <1>1, <1>3 DEF StoreInv, Remembered, ErasGrow, Fires
  <2>2. CASE h.fire.sid = x
    BY <1>2, <1>3, <2>1, <2>2 DEF Remembers
  <2>3. CASE h.fire.sid # x
    BY <1>2, <2>1, <2>3 DEF Remembers
  <2>4. QED
    BY <2>2, <2>3
<1>7. Remembered'
  BY <1>1, <1>6 DEF StoreInv, Remembered
<1>8. Unreported'
  <2>1. \A s \in Sids : Reported(s)' = Reported(s)
    BY <1>1 DEF Reported
  <2>2. cand.era[x] # data.era[x]
    BY <1>2, <1>3
  <2>3. QED
    BY <1>1, <1>2, <2>1, <2>2 DEF StoreInv, Unreported
<1>9. JobStamped'
  <2>1. SUFFICES ASSUME Stamped, Unedited, cand.era[job.fire.sid] = data.era[job.fire.sid]
                 PROVE  LET s == job.fire.sid IN
                          /\ cand.last[s] = job.key
                          /\ cand.sched[s] # None
                          /\ cand.sched[s].cadence = job.cur.cadence
    BY <1>1 DEF JobInv, JobStamped, Stamped, Matched, Unedited
  <2>2. job.fire.sid \in Sids
    BY PastMatch, <2>1 DEF Stamped, Jobs, Fires
  <2>3. job.fire.sid # x
    BY <1>2, <1>3, <2>1
  <2>4. QED
    BY <1>1, <1>2, <2>1, <2>2, <2>3 DEF JobInv, JobStamped
<1>10. HandoffsKeyed' /\ GenerationsBounded'
  BY <1>1 DEF Delete, AdminSaves, trackerVars, StoreInv, HandoffsKeyed, GenerationsBounded, PeriodKey
<1>11. JobKeyed' /\ JobSees' /\ JobFollows' /\ JobNew'
  BY <1>1 DEF Delete, AdminSaves, JobInv, JobKeyed, JobSees, JobFollows, JobNew, BeforeHandoff,
              Matched, Unedited, PeriodKey
<1>12. JobWrites'
  <2>1. saving = Idle /\ saving'.by = "admin"
    BY DEF Delete, AdminSaves, StoreFree
  <2>2. saving.by # "fire"
    BY <2>1 DEF Idle
  <2>3. QED
    BY <1>1, <2>1, <2>2 DEF JobInv, JobWrites
<1>13. QED
  BY <1>4, <1>5, <1>7, <1>8, <1>9, <1>10, <1>11, <1>12 DEF StoreInv, JobInv

(***************************************************************************)
(* The end of a write.                                                      *)
(***************************************************************************)

(* Published and durable, or not published. *)
LEMMA WriteOutcomes ==
  ASSUME NEW ok \in BOOLEAN, NEW durable \in BOOLEAN, WriteEnds(ok, durable)
  PROVE  /\ saving # Idle /\ saving' = Idle
         /\ \/ ok /\ data' = saving.cand /\ disk' = saving.cand
            \/ ~ok /\ data' = data /\ disk' \in {disk, saving.cand}
<1>1. CASE ok
  BY <1>1, Zenon DEF WriteEnds, Published
<1>2. CASE ~ok
  <2>1. data' = data /\ saving # Idle /\ saving' = Idle
    BY <1>2, Zenon DEF WriteEnds, Published
  <2>2. disk' = disk \/ disk' = saving.cand
    BY Zenon DEF WriteEnds
  <2>3. QED
    BY <1>2, <2>1, <2>2
<1>3. QED
  BY <1>1, <1>2

(* No document appears that was not pending, and the published one only moves *)
(* to a later era.                                                           *)
LEMMA WriteKept ==
  ASSUME IInv, TypeOK', NEW ok \in BOOLEAN, NEW durable \in BOOLEAN, WriteEnds(ok, durable),
         clock' = clock, waiting' = waiting, handoffs' = handoffs,
         job' = IdleJob \/ (job # IdleJob /\ job' # IdleJob /\ job'.fire = job.fire)
  PROVE  /\ ErasGrow' /\ InOrder' /\ Remembered' /\ Unreported'
         /\ Docs' \subseteq Docs /\ data' \in Docs
         /\ \A s \in Sids : data.era[s] <= data'.era[s] /\ data.edited[s] <= data'.edited[s]
<1> USE DEF IInv, TypeOK
<1>1. /\ saving # Idle /\ saving' = Idle
      /\ \/ data' = saving.cand /\ disk' = saving.cand
         \/ data' = data /\ disk' \in {disk, saving.cand}
  BY WriteOutcomes
<1>2. /\ Docs' \subseteq Docs /\ data' \in Docs /\ data \in Docs
      /\ data' = data \/ Docs' = {data'}
  BY <1>1 DEF Docs
<1>3. /\ data.era \in [Sids -> Nat] /\ data'.era \in [Sids -> Nat]
      /\ data'.edited \in [Sids -> Nat]
      /\ \A h \in handoffs : h.fire.sid \in Sids /\ h.era \in Nat
  BY DEF Data, Fires
<1>4. \A s \in Sids : data.era[s] <= data'.era[s] /\ data.edited[s] <= data'.edited[s]
  BY <1>2 DEF StoreInv, ErasGrow
<1>5. ErasGrow'
  <2>1. ASSUME NEW h \in handoffs PROVE h.era <= data'.era[h.fire.sid]
    <3>1. h.era <= data.era[h.fire.sid]
      BY DEF StoreInv, ErasGrow
    <3>2. QED
      BY <1>3, <1>4, <3>1
  <2>2. ASSUME NEW D \in Docs', NEW s \in Sids
        PROVE  /\ data'.era[s] <= D.era[s] /\ data'.edited[s] <= D.edited[s]
               /\ D.edited[s] = data'.edited[s] /\ D.sched[s] # None =>
                    D.sched[s] = data'.sched[s] /\ D.era[s] = data'.era[s]
    <3>1. CASE data' = data
      BY <1>2, <3>1 DEF StoreInv, ErasGrow
    <3>2. CASE D = data'
      BY <1>3, <3>2
    <3>3. QED
      BY <1>2, <3>1, <3>2
  <2>3. QED
    BY <2>1, <2>2 DEF ErasGrow
<1>6. InOrder'
  BY <1>2, InOrderKept
<1>7. Remembered'
  BY <1>2 DEF StoreInv, Remembered
<1>8. Unreported'
  <2>1. CASE data' = data
    <3>1. \A s \in Sids : Reported(s)' = Reported(s)
      BY <2>1 DEF Reported
    <3>2. QED
      BY <1>2, <2>1, <3>1 DEF StoreInv, Unreported
  <2>2. CASE Docs' = {data'}
    BY <2>2 DEF Unreported
  <2>3. QED
    BY <1>2, <2>1, <2>2
<1>9. QED
  BY <1>2, <1>4, <1>5, <1>6, <1>7, <1>8

(* The write of the callback changes no schedule: the stamp alone is new. *)
LEMMA FireWriteKept ==
  ASSUME IInv, TypeOK', NEW ok \in BOOLEAN, NEW durable \in BOOLEAN, FireWriteEnds(ok, durable)
  PROVE  StoreInv' /\ JobInv'
<1> USE DEF IInv, TypeOK
<1>1. /\ job \in Jobs /\ job # IdleJob /\ Matched
      /\ job.pc \in {"reserving", "recording", "digesting"}
      /\ job.fire.sid \in Sids
  BY PastMatch DEF FireWriteEnds, Jobs, Fires
<1>2. /\ saving.by = "fire" /\ WriteEnds(ok, durable)
      /\ clock' = clock /\ waiting' = waiting /\ handoffs' = handoffs
      /\ scheduleRevision' = scheduleRevision /\ generation' = generation
      /\ armed' = armed /\ reloads' = reloads
  BY DEF FireWriteEnds, fireFrame, trackerVars
<1>3. \/ job' = IdleJob
      \/ job.pc = "reserving" /\ ok /\ job' = [job EXCEPT !.pc = "recheck"]
      \/ job.pc = "recording" /\ job' = [job EXCEPT !.pc = "digest"]
  <2>1. CASE job.pc = "reserving"
    <3>1. IF ok THEN Goto("recheck") ELSE StampUnconfirmed
      BY <2>1, Zenon DEF FireWriteEnds
    <3>2. CASE ok
      BY <2>1, <3>1, <3>2, Zenon DEF Goto
    <3>3. CASE ~ok
      BY <3>1, <3>3, Zenon DEF StampUnconfirmed, FireEnds
    <3>4. QED
      BY <3>2, <3>3
  <2>2. CASE job.pc # "reserving"
    BY <1>1, <2>2 DEF FireWriteEnds, FireEnds, Goto
  <2>3. QED
    BY <2>1, <2>2
<1>4. job' = IdleJob \/ (job' # IdleJob /\ job' \in Jobs /\ job'.fire = job.fire
                         /\ job'.key = job.key /\ job'.cur = job.cur /\ job'.edited = job.edited /\ job'.sendRev = job.sendRev)
  BY <1>1, <1>3 DEF Jobs, IdleJob, Pcs
<1>5. /\ ErasGrow' /\ InOrder' /\ Remembered' /\ Unreported'
      /\ Docs' \subseteq Docs /\ data' \in Docs
  BY <1>1, <1>2, <1>4, WriteKept
<1>6. StoreInv'
  <2>1. HandoffsKeyed'
    BY <1>2 DEF StoreInv, HandoffsKeyed, PeriodKey
  <2>2. GenerationsBounded'
    BY <1>1, <1>2, <1>4 DEF StoreInv, GenerationsBounded
  <2>3. QED
    BY <1>5, <2>1, <2>2 DEF StoreInv
<1>7. /\ data'.sched = data.sched /\ data'.era = data.era /\ data'.edited = data.edited
      /\ saving' = Idle
  BY <1>2, WriteOutcomes DEF JobInv, JobWrites
<1>8. CASE job' = IdleJob
  <2>1. ~Matched' /\ job'.pc = "idle" /\ saving'.by = "none"
    BY <1>7, <1>8 DEF Matched, IdleJob, Idle
  <2>2. JobWrites'
    BY <2>1 DEF JobWrites
  <2>3. JobInv'
    BY <2>1, <2>2 DEF JobInv, JobKeyed, JobSees, JobFollows, JobNew, JobStamped, Stamped,
                      BeforeHandoff
  <2>4. QED
    BY <1>6, <2>3
<1>9. CASE job.pc = "recording" /\ job' = [job EXCEPT !.pc = "digest"]
  <2>1. job'.pc = "digest" /\ Matched'
    BY <1>1, <1>4, <1>9 DEF Jobs, Matched, IdleJob
  <2>2. JobKeyed'
    BY <1>1, <1>4, <2>1 DEF JobInv, JobKeyed, PeriodKey, Matched
  <2>3. JobSees'
    BY <1>1, <1>2, <1>4, <1>7, <2>1 DEF JobInv, JobSees, Unedited, Matched
  <2>4. JobFollows' /\ JobNew' /\ JobStamped' /\ JobWrites'
    BY <1>7, <2>1 DEF JobFollows, JobNew, JobStamped, JobWrites, Stamped, BeforeHandoff, Idle
  <2>5. QED
    BY <1>6, <2>2, <2>3, <2>4 DEF JobInv
<1>10. CASE job.pc = "reserving" /\ ok /\ job' = [job EXCEPT !.pc = "recheck"]
  <2>1. job'.pc = "recheck" /\ Matched' /\ BeforeHandoff
    BY <1>1, <1>4, <1>10 DEF Jobs, Matched, IdleJob, BeforeHandoff
  <2>2. JobKeyed'
    BY <1>1, <1>4, <2>1 DEF JobInv, JobKeyed, PeriodKey, Matched
  <2>3. JobSees'
    BY <1>1, <1>2, <1>4, <1>7, <2>1 DEF JobInv, JobSees, Unedited, Matched
  <2>4. JobNew'
    BY <1>2, <1>4, <1>7, <2>1 DEF JobInv, JobNew, Matched
  <2>5. JobStamped'
    <3>1. data' = saving.cand /\ disk' = saving.cand
      BY <1>2, <1>10, WriteOutcomes
    <3>2. Docs' = {data'}
      BY <1>7, <3>1 DEF Docs
    <3>3. data'.last[job.fire.sid] = job.key
      BY <1>1, <1>2, <1>10, <3>1 DEF JobInv, JobWrites, Data
    <3>4. job.cur \in Drafts /\ (Unedited' => data'.sched[job.fire.sid] = job.cur)
      BY <1>1, <1>4, <2>1 DEF Jobs, Matched, Unedited
    <3>5. QED
      BY <1>4, <2>1, <3>2, <3>3, <3>4, NoneAssumption DEF JobStamped, Matched
  <2>6. JobFollows' /\ JobWrites'
    BY <1>7, <2>1 DEF JobFollows, JobWrites, Idle
  <2>7. QED
    BY <1>6, <2>2, <2>3, <2>4, <2>5, <2>6 DEF JobInv
<1>11. QED
  BY <1>3, <1>6, <1>8, <1>9, <1>10

(* The edit that is published makes the callback in progress a stale one. *)
LEMMA AdminWriteKept ==
  ASSUME IInv, TypeOK', NEW ok \in BOOLEAN, NEW durable \in BOOLEAN, AdminWriteEnds(ok, durable)
  PROVE  StoreInv' /\ JobInv'
<1> USE DEF IInv, TypeOK
<1>1. /\ saving.by = "admin" /\ WriteEnds(ok, durable) /\ clock' = clock
      /\ waiting' = waiting /\ handoffs' = handoffs /\ job' = job
  BY DEF AdminWriteEnds, adminFrame
<1>2. /\ ErasGrow' /\ InOrder' /\ Remembered' /\ Unreported'
      /\ Docs' \subseteq Docs /\ data' \in Docs
      /\ \A s \in Sids : data.era[s] <= data'.era[s] /\ data.edited[s] <= data'.edited[s]
  BY <1>1, WriteKept
<1>3. \/ ok /\ ReloadBegins /\ scheduleRevision' = scheduleRevision + 1
      \/ ~ok /\ scheduleRevision' = scheduleRevision /\ generation' = generation
             /\ armed' = armed /\ reloads' = reloads
  <2>1. CASE ok
    BY <2>1, Zenon DEF AdminWriteEnds
  <2>2. CASE ~ok
    BY <2>2, Zenon DEF AdminWriteEnds, trackerVars
  <2>3. QED
    BY <2>1, <2>2
<1>4. StoreInv'
  <2>1. HandoffsKeyed'
    BY <1>1 DEF StoreInv, HandoffsKeyed, PeriodKey
  <2>2. GenerationsBounded'
    BY <1>1, <1>3 DEF StoreInv, GenerationsBounded, ReloadBegins, NextGeneration, Fires, Jobs,
                      Matching, IdleJob
  <2>3. QED
    BY <1>2, <2>1, <2>2 DEF StoreInv
<1>5. saving' = Idle /\ job.pc \notin {"reserving", "recording", "digesting"}
  BY <1>1, WriteOutcomes DEF JobInv, JobWrites
<1>6. JobKeyed' /\ JobWrites'
  BY <1>1, <1>5 DEF JobInv, JobKeyed, JobWrites, Matched, PeriodKey, Idle
<1>7. JobSees' /\ JobStamped'
  <2>1. CASE ok
    <3>1. Docs' = {data'}
      BY <1>1, <1>5, <2>1, WriteOutcomes DEF Docs
    <3>2. SUFFICES ASSUME Matched PROVE JobSees' /\ JobStamped'
      BY <1>1 DEF JobSees, JobStamped, Stamped, Matched
    <3>3. /\ job.fire.sid \in Sids /\ job.sendRev \in Nat /\ job.edited \in Nat
          /\ data.edited[job.fire.sid] \in Nat /\ data'.edited[job.fire.sid] \in Nat
          /\ job \in Jobs
      BY <3>2 DEF Matched, Matching, Jobs, Fires, IdleJob, Data
    <3>4. job.edited <= data.edited[job.fire.sid] /\ job.sendRev <= scheduleRevision
      BY <3>2 DEF JobInv, JobSees
    <3>5. job.edited <= data'.edited[job.fire.sid] /\ job.sendRev < scheduleRevision'
      BY <1>2, <1>3, <2>1, <3>3, <3>4
    <3>6. JobSees'
      BY <1>1, <3>3, <3>5 DEF JobSees, Matched
    <3>7. ASSUME Stamped', Unedited' PROVE
            /\ data'.last[job.fire.sid] = job.key
            /\ data'.sched[job.fire.sid] # None
            /\ data'.sched[job.fire.sid].cadence = job.cur.cadence
      <4>1. /\ data'.sched[job.fire.sid] = job.cur /\ data'.edited[job.fire.sid] = job.edited
            /\ Stamped /\ job.cur \in Drafts
        BY <1>1, <3>3, <3>7 DEF Unedited, Stamped, Matched, Jobs
      <4>2. data.edited[job.fire.sid] = job.edited
        BY <1>2, <3>3, <3>4, <4>1
      <4>3. data.sched[job.fire.sid] = job.cur /\ data.era[job.fire.sid] = data'.era[job.fire.sid]
        BY <1>2, <3>3, <4>1, <4>2, NoneAssumption DEF StoreInv, ErasGrow
      <4>4. QED
        BY <1>2, <4>1, <4>2, <4>3 DEF JobInv, JobStamped, Unedited
    <3>8. QED
      BY <1>1, <3>1, <3>6, <3>7 DEF JobStamped
  <2>2. CASE ~ok
    <3>1. data' = data
      BY <1>1, <2>2, WriteOutcomes
    <3>2. QED
      BY <1>1, <1>2, <1>3, <2>2, <3>1
         DEF JobInv, JobSees, JobStamped, Stamped, Matched, Unedited
  <2>3. QED
    BY <2>1, <2>2
<1>8. ASSUME Matched, NEW h \in handoffs, h.fire.sid = job.fire.sid, h.era = data'.era[job.fire.sid]
      PROVE  h.era = data.era[job.fire.sid]
  <2>1. /\ job.fire.sid \in Sids /\ h.era \in Nat
        /\ data.era[job.fire.sid] \in Nat /\ data'.era[job.fire.sid] \in Nat
    BY <1>8 DEF Matched, Data, Jobs, Matching, Fires, IdleJob
  <2>2. h.era <= data.era[job.fire.sid] /\ data.era[job.fire.sid] <= data'.era[job.fire.sid]
    BY <1>2, <1>8, <2>1 DEF StoreInv, ErasGrow
  <2>3. QED
    BY <1>8, <2>1, <2>2
<1>9. JobFollows'
  BY <1>1, <1>8 DEF JobInv, JobFollows, Matched
<1>10. JobNew'
  BY <1>1, <1>8 DEF JobInv, JobNew, BeforeHandoff, Matched
<1>11. QED
  BY <1>4, <1>6, <1>7, <1>9, <1>10 DEF JobInv

(***************************************************************************)
(* Every step.                                                              *)
(***************************************************************************)
LEMMA IInvInitially == Init => IInv
<1> SUFFICES ASSUME Init PROVE IInv
  OBVIOUS
<1>1. TypeOK
  BY InitType
<1>2. /\ handoffs = {} /\ job = IdleJob /\ waiting = {} /\ armed = {} /\ reloads = {1}
      /\ clock = 0 /\ generation = 1 /\ saving = Idle /\ disk = data
      /\ data.last = [s \in Sids |-> None] /\ data.era = [s \in Sids |-> 0]
      /\ data.edited = [s \in Sids |-> 0]
  BY DEF Init
<1>3. Docs = {data} /\ FireTimes = {0} /\ ~Matched
  BY <1>2 DEF Docs, FireTimes, Matched
<1>4. StoreInv
  <2>1. ErasGrow
    BY <1>2, <1>3 DEF ErasGrow
  <2>2. HandoffsKeyed /\ InOrder /\ GenerationsBounded
    BY <1>2, <1>3 DEF HandoffsKeyed, InOrder, GenerationsBounded
  <2>3. Remembered /\ Unreported
    BY <1>2, <1>3 DEF Remembered, Unreported
  <2>4. QED
    BY <2>1, <2>2, <2>3 DEF StoreInv
<1>5. JobInv
  <2>1. job.pc = "idle" /\ saving.by = "none"
    BY <1>2 DEF IdleJob, Idle
  <2>2. JobWrites
    BY <2>1 DEF JobWrites
  <2>3. QED
    BY <1>3, <2>2 DEF JobInv, JobKeyed, JobSees, JobFollows, JobNew, JobStamped, Stamped, BeforeHandoff
<1>6. QED
  BY <1>1, <1>2, <1>4, <1>5 DEF IInv, OncePerPeriodInv


(* A step of the callback before its stamp, or at its re-read: the store stays. *)
LEMMA CallbackKept ==
  ASSUME IInv, TypeOK', FireMatches \/ FireReserves \/ FireRechecks \/ FireRereads
  PROVE  StoreInv' /\ JobInv' /\ handoffs' = handoffs
<1>1. /\ clock' = clock /\ waiting' = waiting /\ handoffs' = handoffs /\ Docs' = Docs
      /\ data' = data /\ saving' = saving /\ generation' = generation
      /\ scheduleRevision' = scheduleRevision /\ armed' = armed /\ reloads' = reloads
  BY DEF FireMatches, FireReserves, FireRechecks, FireRereads, fireFrame, storeVars,
         trackerVars, Docs
<1>2. /\ job # IdleJob /\ job \in Matching \cup Jobs
      /\ job.pc \in {"match", "last", "recheck", "reread"}
  BY DEF IInv, TypeOK, FireMatches, FireReserves, FireRechecks, FireRereads, IdleJob
<1>3. \/ job' = IdleJob
      \/ /\ job' \in Jobs /\ job' # IdleJob /\ job'.fire = job.fire
         /\ job'.pc \in {"last", "reserve", "reread", "prepare"}
  <2>1. CASE FireMatches
    BY <1>2, <2>1 DEF IInv, TypeOK, FireMatches, FireEnds, Matching, IdleJob
  <2>2. CASE FireReserves
    <3>1. job \in Jobs
      BY <1>2, <2>2 DEF FireReserves, Matching
    <3>2. QED
      BY <2>2, <3>1 DEF FireReserves, FireEnds, Goto, Jobs, Pcs, IdleJob
  <2>3. CASE FireRechecks
    <3>1. job \in Jobs
      BY <1>2, <2>3 DEF FireRechecks, Matching
    <3>2. QED
      BY <2>3, <3>1 DEF FireRechecks, FireEnds, Goto, Jobs, Pcs, IdleJob
  <2>4. CASE FireRereads
    <3>1. job \in Jobs
      BY <1>2, <2>4 DEF FireRereads, Matching
    <3>2. QED
      BY <2>4, <3>1 DEF FireRereads, FireEnds, Jobs, Pcs, IdleJob, IInv, TypeOK
  <2>5. QED
    BY <2>1, <2>2, <2>3, <2>4
<1>4. StoreInv'
  <2>1. InOrder'
    BY <1>1, <1>2, <1>3, InOrderKept
  <2>2. GenerationsBounded'
    BY <1>1, <1>2, <1>3 DEF IInv, StoreInv, GenerationsBounded
  <2>3. QED
    BY <1>1, <2>1, <2>2, StoreKept DEF SameSections
<1>5. saving.by # "fire"
  BY <1>2 DEF IInv, JobInv, JobWrites
<1>6. CASE job' = IdleJob
  BY <1>1, <1>4, <1>5, <1>6, JobUnmatched
<1>7. CASE job' # IdleJob
  <2>1. /\ job' \in Jobs /\ job'.fire = job.fire /\ Matched'
        /\ job'.pc \in {"last", "reserve", "reread", "prepare"}
    BY <1>3, <1>7 DEF Matched
  <2>2. JobWrites'
    BY <1>1, <1>5, <2>1 DEF JobWrites
  <2>3. CASE FireMatches
    <3>1. /\ job'.cur = data.sched[job.fire.sid] /\ job'.edited = data.edited[job.fire.sid]
          /\ job'.sendRev = 0 /\ job'.pc = "last"
          /\ job'.key = PeriodKey(job'.cur.cadence, job'.fire.t)
      BY <1>7, <2>3 DEF FireMatches, FireEnds
    <3>2. data.edited[job.fire.sid] \in Nat /\ scheduleRevision \in Nat
      BY <2>1 DEF IInv, TypeOK, Data, Jobs, Fires
    <3>3. JobKeyed' /\ JobSees'
      BY <1>1, <2>1, <3>1, <3>2 DEF JobKeyed, JobSees, PeriodKey
    <3>4. JobFollows'
      BY <2>3, MatchFollows
    <3>5. JobNew' /\ JobStamped'
      BY <3>1 DEF JobNew, JobStamped, BeforeHandoff, Stamped
    <3>6. QED
      BY <1>1, <1>4, <2>2, <3>3, <3>4, <3>5 DEF JobInv
  <2>4. CASE FireReserves \/ FireRechecks \/ FireRereads
    <3>1. job \in Jobs /\ Matched /\ job.pc \in {"last", "recheck", "reread"}
      BY <1>2, <2>4 DEF FireReserves, FireRechecks, FireRereads, Matching, Matched
    <3>2. job'.key = job.key /\ job'.cur = job.cur /\ job'.edited = job.edited
      BY <1>7, <2>4, <3>1 DEF FireReserves, FireRechecks, FireRereads, FireEnds, Goto, Jobs
    <3>3. \/ job.pc = "last" /\ job'.pc = "reserve" /\ job'.sendRev = job.sendRev
          \/ job.pc = "recheck" /\ job'.pc = "reread" /\ job'.sendRev = job.sendRev
          \/ job.pc = "reread" /\ job'.pc = "prepare" /\ job'.sendRev = scheduleRevision /\ Unedited
      BY <1>7, <2>4, <3>1 DEF FireReserves, FireRechecks, FireRereads, FireEnds, Goto, Jobs
    <3>4. JobKeyed'
      BY <1>1, <2>1, <3>1, <3>2 DEF IInv, JobInv, JobKeyed, PeriodKey
    <3>5. JobSees'
      BY <1>1, <2>1, <3>1, <3>2, <3>3 DEF IInv, JobInv, JobSees, Unedited, TypeOK
    <3>6. JobFollows'
      BY <1>1, <2>1, <3>1, <3>2, <3>3 DEF IInv, JobInv, JobFollows
    <3>7. JobNew'
      <4>1. CASE FireReserves
        BY <4>1, ReserveIsNew
      <4>2. CASE job.pc # "last"
        BY <1>1, <2>1, <3>1, <3>2, <3>3, <4>2 DEF IInv, JobInv, JobNew, BeforeHandoff
      <4>3. QED
        BY <2>4, <4>1, <4>2 DEF FireRechecks, FireRereads
    <3>8. JobStamped'
      BY <1>1, <2>1, <3>1, <3>2, <3>3 DEF IInv, JobInv, JobStamped, Stamped, Unedited
    <3>9. QED
      BY <1>1, <1>4, <2>2, <3>4, <3>5, <3>6, <3>7, <3>8 DEF JobInv
  <2>5. QED
    BY <2>3, <2>4
<1>8. QED
  BY <1>6, <1>7

(* A step that touches neither the store nor the callback. *)
LEMMA TrackersKept ==
  ASSUME IInv, TypeOK',
         Tick \/ EntrySteps \/ Reloads \/ \E s \in Sids : DeleteMissing(s)
  PROVE  StoreInv' /\ JobInv' /\ handoffs' = handoffs
<1> USE DEF EntrySteps, Reloads
<1>1. /\ data' = data /\ saving' = saving /\ Docs' = Docs
      /\ handoffs' = handoffs /\ job' = job /\ scheduleRevision' = scheduleRevision
  BY DEF Tick, EntrySetsUp, EntryPublishes, EntryReloads, EntrySetupFails, EntryUnloads,
         ReloadFinishes, DeleteMissing, adminFrame, storeVars, Docs
<1>2. generation' = generation \/ generation' = generation + 1
  BY DEF Tick, EntrySetsUp, EntryPublishes, EntryReloads, EntrySetupFails, EntryUnloads,
         ReloadFinishes, DeleteMissing, ReloadBegins, NextGeneration, trackerVars
<1>3. JobInv'
  BY <1>1, JobKept
<1>4. InOrder'
  <2>1. CASE Tick
    BY <2>1, TickInOrder
  <2>2. CASE ~Tick
    <3>1. clock' = clock /\ waiting' = waiting
      BY <2>2 DEF EntrySetsUp, EntryPublishes, EntryReloads, EntrySetupFails, EntryUnloads,
                  ReloadFinishes, DeleteMissing, adminFrame
    <3>2. QED
      BY <1>1, <3>1, InOrderKept
  <2>3. QED
    BY <2>1, <2>2
<1>5. GenerationsBounded'
  <2>1. /\ \A w \in waiting' : w \in waiting \/ (\E a \in armed : w.gen = a.gen)
        /\ \A a \in armed' : a \in armed \/ a.gen \in reloads
        /\ \A g \in reloads' : g \in reloads \/ g = generation'
    BY DEF Tick, EntrySetsUp, EntryPublishes, EntryReloads, EntrySetupFails, EntryUnloads,
           ReloadFinishes, DeleteMissing, TrackerGeneration, ReloadBegins, NextGeneration, adminFrame, trackerVars
  <2>2. /\ generation \in Nat /\ generation' \in Nat /\ generation <= generation'
        /\ reloads \subseteq Nat /\ \A a \in armed : a.gen \in Nat
        /\ \A w \in waiting : w.gen \in Nat
        /\ job # IdleJob => job.fire.gen \in Nat
    BY <1>2 DEF IInv, TypeOK, Fires, Jobs, Matching, IdleJob
  <2>3. /\ \A a \in armed : a.gen <= generation
        /\ \A g \in reloads : g <= generation
        /\ \A w \in waiting : w.gen <= generation
        /\ job # IdleJob => job.fire.gen <= generation
    BY DEF IInv, StoreInv, GenerationsBounded
  <2>4. ASSUME NEW a \in armed' PROVE a.gen <= generation'
    <3>1. a.gen \in Nat /\ a.gen <= generation
      BY <2>1, <2>2, <2>3
    <3>2. QED
      BY <2>2, <3>1
  <2>5. ASSUME NEW g \in reloads' PROVE g <= generation'
    <3>1. CASE g \in reloads
      <4>1. g \in Nat /\ g <= generation
        BY <2>2, <2>3, <3>1
      <4>2. QED
        BY <2>2, <4>1
    <3>2. CASE g = generation'
      BY <2>2, <3>2
    <3>3. QED
      BY <2>1, <3>1, <3>2
  <2>6. ASSUME NEW w \in waiting' PROVE w.gen <= generation'
    <3>1. w.gen \in Nat /\ w.gen <= generation
      BY <2>1, <2>2, <2>3
    <3>2. QED
      BY <2>2, <3>1
  <2>7. job' # IdleJob => job'.fire.gen <= generation'
    BY <1>1, <2>2, <2>3
  <2>8. QED
    BY <2>4, <2>5, <2>6, <2>7 DEF GenerationsBounded
<1>6. QED
  BY <1>1, <1>3, <1>4, <1>5, StoreKept DEF SameSections

(* The earliest waiting callback takes the lock. *)
LEMMA StartKept ==
  ASSUME IInv, TypeOK', NEW f \in waiting, FireStarts(f)
  PROVE  StoreInv' /\ JobInv' /\ handoffs' = handoffs
<1>1. /\ clock' = clock /\ handoffs' = handoffs /\ Docs' = Docs /\ data' = data
      /\ saving' = saving /\ generation' = generation /\ armed' = armed /\ reloads' = reloads
      /\ waiting' \subseteq waiting /\ job = IdleJob
      /\ job' = IdleJob \/ (job'.pc = "match" /\ job'.fire = f)
      /\ \A w \in waiting : f.t <= w.t
  BY DEF FireStarts, FireEnds, fireFrame, storeVars, trackerVars, Docs
<1>2. FireTimes' \subseteq FireTimes
  BY <1>1 DEF FireTimes
<1>3. InOrder'
  BY <1>1, <1>2 DEF IInv, StoreInv, InOrder
<1>4. GenerationsBounded'
  BY <1>1 DEF IInv, StoreInv, GenerationsBounded
<1>5. StoreInv'
  BY <1>1, <1>3, <1>4, StoreKept DEF SameSections
<1>6. saving.by # "fire"
  BY <1>1 DEF IInv, JobInv, JobWrites, IdleJob
<1>7. JobInv'
  BY <1>1, <1>6, JobUnmatched
<1>8. QED
  BY <1>1, <1>5, <1>7

(* Preparation ended, or SMTP answered: only the record is left. *)
LEMMA AnswerKept ==
  ASSUME IInv, TypeOK', PreparationFails \/ SmtpAnswers
  PROVE  StoreInv' /\ JobInv' /\ handoffs' = handoffs
<1>1. /\ clock' = clock /\ waiting' = waiting /\ handoffs' = handoffs /\ Docs' = Docs
      /\ data' = data /\ saving' = saving /\ generation' = generation
      /\ scheduleRevision' = scheduleRevision /\ armed' = armed /\ reloads' = reloads
  BY DEF PreparationFails, SmtpAnswers, fireFrame, storeVars, trackerVars, Docs
<1>2. job \in Jobs /\ job # IdleJob /\ job.pc \in {"prepare", "sending"}
  BY PastMatch DEF IInv, PreparationFails, SmtpAnswers
<1>3. /\ job' \in Jobs /\ job' # IdleJob /\ job'.pc = "record" /\ job'.fire = job.fire
      /\ job'.key = job.key /\ job'.cur = job.cur /\ job'.edited = job.edited /\ job'.sendRev = job.sendRev
  BY <1>2 DEF PreparationFails, SmtpAnswers, SmtpOutcomes, Goto, Jobs, Pcs, Outcomes, IdleJob
<1>4. InOrder'
  BY <1>1, <1>2, <1>3, InOrderKept
<1>5. GenerationsBounded'
  BY <1>1, <1>2, <1>3 DEF IInv, StoreInv, GenerationsBounded
<1>6. StoreInv'
  BY <1>1, <1>4, <1>5, StoreKept DEF SameSections
<1>7. JobWrites'
  BY <1>1, <1>2, <1>3 DEF IInv, JobInv, JobWrites
<1>8. QED
  BY <1>1, <1>2, <1>3, <1>6, <1>7, JobHandedOff

(* A restart loads a document that was pending or published, and forgets the  *)
(* callbacks.                                                                 *)
LEMMA RestartKept ==
  ASSUME IInv, TypeOK', Restart
  PROVE  StoreInv' /\ JobInv' /\ handoffs' = handoffs
<1>1. /\ clock' = clock /\ handoffs' = handoffs /\ saving' = Idle /\ disk' = data'
      /\ data' \in Docs /\ job' = IdleJob /\ waiting' = {} /\ armed' = {}
      /\ generation' = generation + 1 /\ reloads' = {generation'}
  BY DEF Restart, NextGeneration, Docs
<1>2. Docs' = {data'} /\ FireTimes' = {clock} /\ clock \in FireTimes
  BY <1>1 DEF Docs, FireTimes
<1>3. InOrder'
  BY <1>1, <1>2 DEF IInv, StoreInv, InOrder
<1>4. GenerationsBounded'
  BY <1>1 DEF IInv, TypeOK, GenerationsBounded
<1>5. HandoffsKeyed' /\ Remembered' /\ Unreported'
  BY <1>1, <1>2 DEF IInv, StoreInv, HandoffsKeyed, Remembered, Unreported, PeriodKey
<1>6. ErasGrow'
  <2>1. ASSUME NEW h \in handoffs PROVE h.era <= data'.era[h.fire.sid]
    <3>1. /\ h.fire.sid \in Sids /\ h.era \in Nat /\ data.era[h.fire.sid] \in Nat
          /\ data'.era[h.fire.sid] \in Nat
      BY DEF IInv, TypeOK, Data, Fires
    <3>2. h.era <= data.era[h.fire.sid] /\ data.era[h.fire.sid] <= data'.era[h.fire.sid]
      BY <1>1, <3>1 DEF IInv, StoreInv, ErasGrow
    <3>3. QED
      BY <3>1, <3>2
  <2>2. \A s \in Sids : data'.era[s] \in Nat /\ data'.edited[s] \in Nat
    BY DEF TypeOK, Data
  <2>3. QED
    BY <1>1, <1>2, <2>1, <2>2 DEF ErasGrow
<1>7. saving'.by # "fire"
  BY <1>1 DEF Idle
<1>8. JobInv'
  BY <1>1, <1>7, JobUnmatched
<1>9. QED
  BY <1>1, <1>3, <1>4, <1>5, <1>6, <1>8 DEF StoreInv

LEMMA NextKeeps ==
  ASSUME IInv, TypeOK', Next
  PROVE  StoreInv' /\ JobInv' /\ OncePerPeriodInv'
<1>1. ASSUME StoreInv', JobInv', handoffs' = handoffs
      PROVE  StoreInv' /\ JobInv' /\ OncePerPeriodInv'
  BY <1>1 DEF IInv, OncePerPeriodInv
<1>2. CASE FireSavesAttempt \/ FireSavesDigest
  <2>1. SameSections([data EXCEPT !.log = @ \cup {[fire |-> job.fire, outcome |-> job.outcome]}], data)
    BY DEF IInv, TypeOK, Data, SameSections
  <2>2. SameSections([data EXCEPT !.digest[job.cur.cadence] = job.fire.t], data)
    BY DEF IInv, TypeOK, Data, SameSections
  <2>3. QED
    BY <1>1, <1>2, <2>1, <2>2, RecordSaved DEF FireSavesAttempt, FireSavesDigest
<1>3. CASE HandsOff
  BY <1>3, HandoffKept
<1>4. ASSUME NEW ok \in BOOLEAN, NEW durable \in BOOLEAN,
             FireWriteEnds(ok, durable) \/ AdminWriteEnds(ok, durable)
      PROVE  StoreInv' /\ JobInv' /\ OncePerPeriodInv'
  <2>1. handoffs' = handoffs
    BY <1>4 DEF FireWriteEnds, AdminWriteEnds, adminFrame
  <2>2. QED
    BY <1>1, <1>4, <2>1, FireWriteKept, AdminWriteKept
<1>5. CASE FireSavesStamp
  BY <1>1, <1>5, StampSaved
<1>6. ASSUME NEW s \in Sids, Delete(s) \/ \E d \in Drafts : Upsert(s, d)
      PROVE  StoreInv' /\ JobInv' /\ OncePerPeriodInv'
  <2>1. handoffs' = handoffs
    BY <1>6 DEF Delete, Upsert, AdminSaves, adminFrame
  <2>2. QED
    BY <1>1, <1>6, <2>1, DeleteKept, UpsertKept
<1>7. CASE Rest
  <2>1. /\ clock' = clock /\ handoffs' = handoffs /\ Docs' = Docs /\ data' = data
        /\ saving' = saving /\ generation' = generation /\ armed' = armed /\ reloads' = reloads
        /\ waiting' = waiting /\ job' = job /\ job = IdleJob /\ scheduleRevision' = scheduleRevision
    BY <1>7 DEF Rest, vars, Docs
  <2>2. InOrder' /\ GenerationsBounded'
    BY <2>1, InOrderKept DEF IInv, StoreInv, GenerationsBounded
  <2>3. QED
    BY <1>1, <2>1, <2>2, StoreKept, JobKept DEF SameSections
<1>8. QED
  BY <1>1, <1>2, <1>3, <1>4, <1>5, <1>6, <1>7, CallbackKept, TrackersKept, StartKept, AnswerKept,
     RestartKept DEF Next, FireSteps, WritesEnd, AdminSteps

LEMMA IInvKept == IInv /\ [Next]_vars => IInv'
<1> SUFFICES ASSUME IInv, [Next]_vars PROVE IInv'
  OBVIOUS
<1>1. TypeOK'
  BY NextType DEF IInv
<1>2. CASE Next
  BY <1>1, <1>2, NextKeeps DEF IInv
<1>3. CASE UNCHANGED vars
  BY <1>3 DEF vars, IInv, TypeOK, StoreInv, JobInv, OncePerPeriodInv, HandoffsKeyed, InOrder,
              GenerationsBounded, ErasGrow, Remembered, Remembers, Unreported, Reported, Docs,
              FireTimes, NotAhead, PeriodKey, JobKeyed, JobSees, JobFollows, JobNew, JobStamped,
              JobWrites, Matched, Stamped, BeforeHandoff, Unedited
<1>4. QED
  BY <1>2, <1>3

(***************************************************************************)
(* What follows.                                                            *)
(***************************************************************************)

(* The invariant holds in every reachable state, for any number of schedules, *)
(* minutes, edits, reloads and restarts.                                     *)
THEOREM Inductive == Spec => []IInv
<1>1. QED
  BY IInvInitially, IInvKept, PTL DEF Spec

(* The duplicate guard of _fire: while a schedule keeps its period basis, no  *)
(* period is handed to SMTP twice, whatever fails, restarts or overlaps.      *)
THEOREM OncePerPeriodHolds == Spec => []OncePerPeriodInv
<1>1. IInv => OncePerPeriodInv
  BY DEF IInv
<1>2. QED
  BY <1>1, Inductive, PTL

(* A step hands a message over, or publishes a pending document, or neither.  *)
LEMMA StepKinds ==
  ASSUME IInv, [Next]_vars
  PROVE  HandsOff \/ (handoffs' = handoffs /\ data' \in Docs)
<1>1. CASE UNCHANGED vars
  BY <1>1 DEF vars, Docs
<1>2. CASE Restart
  BY <1>2 DEF Restart, Docs
<1>3. ASSUME NEW ok \in BOOLEAN, NEW durable \in BOOLEAN,
             FireWriteEnds(ok, durable) \/ AdminWriteEnds(ok, durable)
      PROVE  handoffs' = handoffs /\ data' \in Docs
  <2>1. handoffs' = handoffs /\ WriteEnds(ok, durable)
    BY <1>3 DEF FireWriteEnds, AdminWriteEnds, adminFrame
  <2>2. saving # Idle /\ (data' = saving.cand \/ data' = data)
    BY <2>1, WriteOutcomes
  <2>3. QED
    BY <2>1, <2>2 DEF Docs
<1>4. CASE Tick \/ Reloads
  BY <1>4 DEF Tick, Reloads, ReloadFinishes, storeVars, Docs
<1>5. CASE AdminSteps
  BY <1>5 DEF AdminSteps, Delete, DeleteMissing, Upsert, AdminSaves, adminFrame, storeVars, Docs
<1>6. CASE EntrySteps \/ Rest
  BY <1>6 DEF EntrySteps, EntrySetsUp, EntryPublishes, EntryReloads, EntrySetupFails,
              EntryUnloads, Rest, vars, storeVars, Docs
<1>7. CASE FireSteps
  BY <1>7 DEF FireSteps, FireStarts, FireMatches, FireReserves, FireSavesStamp, FireRechecks, FireRereads,
              PreparationFails, SmtpAnswers, FireSavesAttempt, FireSavesDigest, FireSaves,
              storeVars, Docs
<1>8. QED
  BY <1>1, <1>2, <1>3, <1>4, <1>5, <1>6, <1>7 DEF Next, WritesEnd

(* async_send_report sends what the store holds: no edit is published between *)
(* the match of a callback and its handoff, undone ones included.             *)
THEOREM NoEditSlipsIn == Spec => NoEditBehindHandoff
<1>1. IInv /\ [Next]_vars =>
        [handoffs' # handoffs => /\ data.sched[job.fire.sid] = job.cur
                                 /\ data.edited[job.fire.sid] = job.edited]_vars
  <2> SUFFICES ASSUME IInv, [Next]_vars, handoffs' # handoffs
               PROVE  data.sched[job.fire.sid] = job.cur /\ data.edited[job.fire.sid] = job.edited
    OBVIOUS
  <2>1. HandsOff
    BY StepKinds
  <2>2. QED
    BY <2>1, HandoffUnedited DEF Unedited
<1>2. QED
  BY <1>1, Inductive, PTL DEF Spec, NoEditBehindHandoff

(* Every step is a step of the abstract promise, for each schedule on its own. *)
LEMMA StepPromised ==
  ASSUME IInv, IInv', [Next]_vars, NEW s \in Sids
  PROVE  Once!Stamps(s) \/ Once!Reports(s) \/ Once!Renews(s) \/ Once!Rests(s)
<1> USE DEF IInv, TypeOK, Once!Stamps, Once!Reports, Once!Renews, Once!Rests
<1>1. CASE HandsOff
  <2>1. /\ job \in Jobs /\ Stamped /\ BeforeHandoff /\ Unedited /\ job.key \in Keys
        /\ job.fire.sid \in Sids
    BY <1>1, PastMatch, HandoffUnedited DEF HandsOff, Stamped, BeforeHandoff, Jobs, Fires
  <2>2. /\ data' = data
        /\ handoffs' = handoffs \cup {[fire |-> job.fire, key |-> job.key,
                                       era |-> data.era[job.fire.sid]]}
    BY <1>1 DEF HandsOff, storeVars
  <2>3. CASE s = job.fire.sid
    <3>1. data.last[s] = job.key
      BY <2>1, <2>3 DEF JobInv, JobStamped, Docs
    <3>2. job.key \notin Reported(s)
      BY <2>1, <2>3 DEF JobInv, JobNew, Reported
    <3>3. Reported(s)' = Reported(s) \cup {job.key}
      <4> DEFINE new == [fire |-> job.fire, key |-> job.key, era |-> data.era[job.fire.sid]]
      <4>1. /\ new.fire.sid = s /\ new.era = data.era[s] /\ new.key = job.key
            /\ handoffs' = handoffs \cup {new}
        BY <2>2, <2>3
      <4> HIDE DEF new
      <4>2. {h \in handoffs' : h.fire.sid = s /\ h.era = data.era[s]}
              = {h \in handoffs : h.fire.sid = s /\ h.era = data.era[s]} \cup {new}
        BY <4>1
      <4>3. QED
        BY <2>2, <4>1, <4>2 DEF Reported
    <3>4. QED
      BY <2>1, <2>2, <3>1, <3>2, <3>3
  <2>4. CASE s # job.fire.sid
    <3>1. Reported(s)' = Reported(s)
      BY <2>2, <2>4 DEF Reported
    <3>2. QED
      BY <2>2, <3>1
  <2>5. QED
    BY <2>3, <2>4
<1>2. CASE handoffs' = handoffs /\ data' \in Docs
  <2>1. /\ data.era[s] \in Nat /\ data'.era[s] \in Nat
        /\ data'.last[s] \in Keys \cup {None}
        /\ \A h \in handoffs : h.era \in Nat
    BY DEF Data
  <2>2. data.era[s] <= data'.era[s]
    BY <1>2 DEF StoreInv, ErasGrow
  <2>3. CASE data'.era[s] = data.era[s]
    <3>1. Reported(s)' = Reported(s)
      BY <1>2, <2>3 DEF Reported
    <3>2. data'.last[s] = data.last[s] \/ (data'.last[s] \in Keys /\ data'.last[s] \notin Reported(s))
      BY <1>2, <2>3 DEF StoreInv, Unreported
    <3>3. QED
      BY <3>1, <3>2
  <2>4. CASE data'.era[s] # data.era[s]
    <3>1. ASSUME NEW h \in handoffs, h.fire.sid = s PROVE h.era # data'.era[s]
      <4>1. h.era <= data.era[s]
        BY <3>1 DEF StoreInv, ErasGrow
      <4>2. QED
        BY <2>1, <2>2, <2>4, <4>1
    <3>2. Reported(s)' = {}
      BY <1>2, <3>1 DEF Reported
    <3>3. QED
      BY <2>1, <3>2
  <2>5. QED
    BY <2>3, <2>4
<1>3. QED
  BY <1>1, <1>2, StepKinds

(* The dispatcher implements the promise of OncePerPeriod: a period is stamped *)
(* before its report leaves, it leaves at most once, and only an edit of the   *)
(* period basis or a delete starts over.                                       *)
THEOREM Implements == Spec => ImplementsOncePerPeriod
<1>1. Init => Once!Init
  BY DEF Init, Once!Init, Reported
<1>2. IInv /\ IInv' /\ [Next]_vars => [Once!Next]_(Once!vars)
  <2> SUFFICES ASSUME IInv, IInv', [Next]_vars PROVE Once!Next
    BY DEF Once!vars
  <2>1. QED
    BY StepPromised DEF Once!Next
<1>3. QED
  BY <1>1, <1>2, Inductive, PTL DEF Spec, ImplementsOncePerPeriod, Once!Spec
=============================================================================
