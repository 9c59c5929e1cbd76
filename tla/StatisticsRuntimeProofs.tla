---------------------- MODULE StatisticsRuntimeProofs ----------------------
(* OneTask and NeverSilent hold for any set of runtimes (reloads of the      *)
(* entry) and any number of changes of the consent.                          *)
EXTENDS StatisticsRuntime, TLAPS

Records == [running : BOOLEAN, control : BOOLEAN, requested : BOOLEAN, paused : BOOLEAN,
            consent : Consents, timer : BOOLEAN, took : BOOLEAN, ctx : Consents, changed : BOOLEAN,
            pc : {"idle", "loop", "context", "refresh", "working", "done"}]

Lanes == [task : {None} \cup Runtimes, next : {None} \cup Runtimes, completed : Consents]

(* A start waits for the stop of the setup before.                           *)
OneRunning == \A r, s \in Running : r = s

(* Only a busy lane has a queue.                                             *)
NextWaits == lane.task = None => lane.next = None

(* A request that no loop of its own runtime will see is remembered by the   *)
(* lane.                                                                     *)
Remembered(r, s, next) == s.requested /\ s.pc \in {"idle", "done"} => next = r

(* Between two runs a consent has its timer, or the request of a timer that  *)
(* fired.                                                                    *)
Waits(s) == s.consent # None /\ s.pc \in {"idle", "loop", "done"} => s.timer \/ s.requested

RequestsKept == \A r \in Running : Remembered(r, rt[r], lane.next) /\ Waits(rt[r])

RuntimeInv == TypeOK /\ OneTask /\ OneRunning /\ NextWaits /\ RequestsKept

-----------------------------------------------------------------------------
(* The values a runtime takes *)

(* _request changes neither the consent nor the timer; it starts the loop of *)
(* an idle lane.                                                             *)
LEMMA AskedFacts ==
  ASSUME NEW s \in Records, NEW control \in BOOLEAN
  PROVE  /\ Asked(s, control) \in Records
         /\ Asked(s, control).requested
         /\ Asked(s, control).running = s.running
         /\ Asked(s, control).timer = s.timer
         /\ Asked(s, control).consent = s.consent
         /\ Asked(s, control).pc = IF lane.task = None THEN "loop" ELSE s.pc
  BY DEF Asked, Records

(* Every exit of a run arms the timer of a consent that remains.             *)
LEMMA LoopFacts ==
  ASSUME NEW s \in Records
  PROVE  /\ Loop(s) \in Records
         /\ Loop(s).running = s.running /\ Loop(s).requested = s.requested
         /\ Loop(s).pc = "loop"
         /\ Loop(s).timer => s.running
         /\ s.running => Waits(Loop(s))
  BY DEF Loop, Armed, Records, Consents, Waits

LEMMA FailedFacts ==
  ASSUME NEW s \in Records, NEW retry \in BOOLEAN
  PROVE  /\ Failed(s, retry) \in Records
         /\ Failed(s, retry).running = s.running /\ ~Failed(s, retry).requested
         /\ Failed(s, retry).pc = "loop"
         /\ Failed(s, retry).timer => s.running
         /\ s.running => Waits(Failed(s, retry))
<1> DEFINE t == [s EXCEPT !.requested = FALSE, !.paused = @ \/ ~retry, !.consent = IF retry THEN @ ELSE None]
<1>1. t \in Records /\ t.running = s.running /\ ~t.requested
  BY DEF Records, Consents
<1>2. Failed(s, retry) = Loop(t)
  BY DEF Failed
<1> HIDE DEF t
<1> QED BY <1>1, <1>2, LoopFacts

LEMMA AdoptedFacts ==
  ASSUME NEW s \in Records, Consent \in Consents
  PROVE  /\ Adopted(s) \in Records
         /\ Adopted(s).running = s.running /\ Adopted(s).requested = s.requested
         /\ Adopted(s).timer = s.timer /\ Adopted(s).pc = s.pc
  BY DEF Adopted, Records, Consents

-----------------------------------------------------------------------------
(* Steps *)

LEMMA ConsentType == ASSUME TypeOK PROVE Consent \in Consents
  BY DEF TypeOK, Consent, Consents

LEMMA RuntimeStarts == Init => RuntimeInv
<1> SUFFICES ASSUME Init PROVE RuntimeInv
  OBVIOUS
<1>1. NewRuntime \in Records /\ ~NewRuntime.running /\ NewRuntime.pc = "idle" /\ ~NewRuntime.timer
      /\ ~NewRuntime.requested
  BY DEF NewRuntime, Records, Consents
<1>2. Running = {} /\ \A r \in Runtimes : rt[r] = NewRuntime
  BY <1>1 DEF Init, Running
<1>3. TypeOK
  <2>1. rt \in [Runtimes -> Records]
    BY <1>1 DEF Init
  <2>a. lane \in Lanes
    BY DEF Init, Lanes, Consents
  <2>b. share \in [on : BOOLEAN, revision : 0 .. MaxRevision]
    <3>1. 0 \in 0 .. MaxRevision
      BY RuntimeAssumption
    <3> QED BY <3>1 DEF Init
  <2>2. \A r \in Runtimes \ Running : ~rt[r].timer /\ ~rt[r].requested /\ lane.next # r
    BY <1>1, <1>2, RuntimeAssumption DEF Init
  <2> QED BY <2>1, <2>a, <2>b, <2>2 DEF TypeOK, Init, Records, Lanes
<1> QED BY <1>1, <1>2, <1>3 DEF RuntimeInv, OneTask, OneRunning, NextWaits, RequestsKept, Init

(* What the lock of the publisher does concerns no runtime.                  *)
LEMMA QueueType ==
  ASSUME TypeOK, NEW c \in Calls \cup Runtimes, Acquires(c) \/ Releases(c)
  PROVE  holder' \in {None} \cup Calls \cup Runtimes /\ waiters' \in Seq(Calls \cup Runtimes)
<1> DEFINE S == Calls \cup Runtimes
<1>1. waiters \in Seq(S) /\ holder \in {None} \cup S /\ c \in S
  BY DEF TypeOK
<1> HIDE DEF S
<1>2. Append(waiters, c) \in Seq(S)
  BY <1>1
<1>3. holder' \in {None} \cup S /\ waiters' \in Seq(S)
  BY <1>1, <1>2 DEF Acquires, Releases
<1> QED BY <1>3 DEF S

(* The changes of one runtime, of the lane and of what the lane remembers    *)
(* that every step but a settling one makes.                                 *)
LEMMA OneChanges ==
  ASSUME RuntimeInv, NEW r \in Runtimes, NEW x \in Records,
         rt' = [rt EXCEPT ![r] = x],
         lane' \in Lanes, lane.task # None => lane'.task = lane.task,
         lane.task = None => lane'.task \in {None, r},
         x.pc # "idle" => lane'.task = r,
         share' \in [on : BOOLEAN, revision : 0 .. MaxRevision],
         holder' \in {None} \cup Calls \cup Runtimes, waiters' \in Seq(Calls \cup Runtimes),
         started' \subseteq Runtimes,
         x.running => rt[r].running \/ Running = {},
         ~x.running => ~x.timer /\ ~x.requested /\ lane'.next # r,
         x.running => Remembered(r, x, lane'.next) /\ Waits(x),
         \A s \in Runtimes \ {r} : rt[s].running => lane'.next = lane.next,
         lane'.next \in {None, lane.next, r},
         lane'.task = None => lane'.next = None
  PROVE  RuntimeInv'
<1> USE DEF RuntimeInv, TypeOK
<1>1. \A s \in Runtimes : rt'[s] = IF s = r THEN x ELSE rt[s]
  BY DEF TypeOK
<1>2. rt' \in [Runtimes -> Records]
  BY <1>1 DEF Records
<1>3. \A s \in Runtimes \ Running' : ~rt'[s].timer /\ ~rt'[s].requested /\ lane'.next # s
  BY <1>1, RuntimeAssumption DEF Running
<1>4. TypeOK'
  BY <1>2, <1>3 DEF Records, Lanes
<1>5. OneTask'
  BY <1>1, RuntimeAssumption DEF OneTask
<1>6. OneRunning'
  BY <1>1 DEF OneRunning, Running
<1>7. RequestsKept'
  BY <1>1 DEF RequestsKept, Running, Remembered, Waits
<1> QED BY <1>4, <1>5, <1>6, <1>7 DEF NextWaits

(* An awaited step of a run, and its exits.                                  *)
LEMMA RunChanges ==
  ASSUME RuntimeInv, NEW r \in Runtimes, rt[r].pc # "idle", NEW x \in Records,
         rt' = [rt EXCEPT ![r] = x],
         lane' \in Lanes, lane'.task = lane.task, lane'.next = lane.next,
         share' = share, started' = started,
         holder' \in {None} \cup Calls \cup Runtimes, waiters' \in Seq(Calls \cup Runtimes),
         x.running = rt[r].running, x.pc \notin {"idle", "done"},
         x.timer => x.running, x.requested => rt[r].requested,
         x.running => Waits(x)
  PROVE  RuntimeInv'
<1>1. lane.task = r
  BY DEF RuntimeInv, OneTask
<1>2. ~x.running => ~x.timer /\ ~x.requested /\ lane'.next # r
  BY DEF RuntimeInv, TypeOK, Running, Records
<1>3. x.running => Remembered(r, x, lane'.next)
  BY DEF Remembered
<1>4. started' \subseteq Runtimes /\ share' \in [on : BOOLEAN, revision : 0 .. MaxRevision]
  BY DEF RuntimeInv, TypeOK
<1>5. lane'.task = None => lane'.next = None
  BY DEF RuntimeInv, NextWaits
<1>6. lane'.next \in {None, lane.next, r}
  OBVIOUS
<1>7. lane.task = None => lane'.task \in {None, r}
  OBVIOUS
<1>8. x.pc # "idle" => lane'.task = r
  BY <1>1
<1> QED BY <1>2, <1>3, <1>4, <1>5, <1>6, <1>7, <1>8, OneChanges

(* A start, a timer, a bus event.                                            *)
LEMMA RequestKeeps ==
  ASSUME RuntimeInv, NEW r \in Runtimes, NEW s \in Records, NEW control \in BOOLEAN,
         rt' = [rt EXCEPT ![r] = Asked(s, control)], lane' = LaneAfter(r),
         s.running, s.pc = rt[r].pc, rt[r].running \/ Running = {},
         share' \in [on : BOOLEAN, revision : 0 .. MaxRevision],
         holder' \in {None} \cup Calls \cup Runtimes, waiters' \in Seq(Calls \cup Runtimes),
         started' \subseteq Runtimes
  PROVE  RuntimeInv'
<1> DEFINE x == Asked(s, control)
<1>1. /\ x \in Records /\ x.requested /\ x.running
      /\ x.pc = IF lane.task = None THEN "loop" ELSE rt[r].pc
  BY AskedFacts
<1>2. lane' \in Lanes /\ lane'.task = (IF lane.task = None THEN r ELSE lane.task)
      /\ lane'.next = (IF lane.task = None THEN lane.next ELSE r)
  BY DEF LaneAfter, Lanes, RuntimeInv, TypeOK
<1>3. x.pc # "idle" => lane'.task = r
  BY <1>1, <1>2, RuntimeAssumption DEF RuntimeInv, OneTask
<1>4. x.running => Remembered(r, x, lane'.next) /\ Waits(x)
  BY <1>1, <1>2 DEF Remembered, Waits
<1>5. \A t \in Runtimes \ {r} : ~rt[t].running
  BY DEF RuntimeInv, OneRunning, Running
<1>6. lane'.task = None => lane'.next = None
  BY <1>2, RuntimeAssumption
<1>7. rt' = [rt EXCEPT ![r] = x] /\ lane'.next \in {None, lane.next, r}
  BY <1>2
<1> HIDE DEF x
<1> QED BY <1>1, <1>2, <1>3, <1>4, <1>5, <1>6, <1>7, OneChanges

LEMMA CallersKeep ==
  ASSUME RuntimeInv, NEW r \in Runtimes, Start(r) \/ Stop(r) \/ Tick(r)
  PROVE  RuntimeInv'
<1>0. rt[r] \in Records /\ lane \in Lanes /\ None \notin Runtimes
      /\ share' \in [on : BOOLEAN, revision : 0 .. MaxRevision]
      /\ holder' \in {None} \cup Calls \cup Runtimes /\ waiters' \in Seq(Calls \cup Runtimes)
      /\ started' \subseteq Runtimes
  BY RuntimeAssumption DEF RuntimeInv, TypeOK, Records, Lanes, Start, Stop, Tick
<1>1. CASE Start(r)
  <2> DEFINE s == [rt[r] EXCEPT !.running = TRUE]
  <2>1. s \in Records /\ s.running /\ s.pc = rt[r].pc
    BY <1>0 DEF Records
  <2>2. rt' = [rt EXCEPT ![r] = Asked(s, TRUE)] /\ lane' = LaneAfter(r) /\ Running = {}
    BY <1>1 DEF Start
  <2>3. TRUE \in BOOLEAN
    OBVIOUS
  <2> HIDE DEF s
  <2> QED BY <1>0, <2>1, <2>2, <2>3, RequestKeeps
<1>2. CASE Tick(r)
  <2> DEFINE s == [rt[r] EXCEPT !.timer = FALSE]
  <2>1. s \in Records /\ s.running /\ s.pc = rt[r].pc /\ rt[r].running
    BY <1>0, <1>2 DEF Records, Tick, RuntimeInv, TypeOK, Running
  <2>2. rt' = [rt EXCEPT ![r] = Asked(s, FALSE)] /\ lane' = LaneAfter(r)
    BY <1>2 DEF Tick
  <2> HIDE DEF s
  <2> QED BY <1>0, <2>1, <2>2, RequestKeeps
<1>3. CASE Stop(r)
  <2> DEFINE x == [rt[r] EXCEPT !.running = FALSE, !.requested = FALSE, !.control = FALSE, !.timer = FALSE]
  <2>1. x \in Records /\ ~x.running /\ ~x.requested /\ ~x.timer /\ x.pc = rt[r].pc
    BY <1>0 DEF Records
  <2>2. rt' = [rt EXCEPT ![r] = x] /\ rt[r].running
    BY <1>3 DEF Stop
  <2>3. lane' \in Lanes /\ lane'.task = lane.task /\ lane'.next = IF lane.next = r THEN None ELSE lane.next
    BY <1>0, <1>3 DEF Stop, LaneAtStop, Lanes
  <2>4. \A s \in Runtimes \ {r} : ~rt[s].running
    BY <2>2 DEF RuntimeInv, OneRunning, Running
  <2>5. lane'.next # r /\ (x.pc # "idle" => lane'.task = r) /\ (lane'.task = None => lane'.next = None)
    BY <1>0, <2>1, <2>3 DEF RuntimeInv, OneTask, NextWaits
  <2> HIDE DEF x
  <2> QED BY <1>0, <2>1, <2>2, <2>3, <2>4, <2>5, OneChanges
<1> QED BY <1>1, <1>2, <1>3

(* What every value a run gives its runtime has in common.                   *)
Steps(r, x) ==
  /\ x \in Records
  /\ x.running = rt[r].running /\ x.pc \notin {"idle", "done"}
  /\ x.timer => x.running
  /\ x.requested => rt[r].requested
  /\ x.running => Waits(x)

LEMMA LoopSteps ==
  ASSUME NEW r, NEW s \in Records, s.running = rt[r].running, s.requested = rt[r].requested
  PROVE  Steps(r, Loop(s))
  BY LoopFacts DEF Steps

LEMMA FailedSteps ==
  ASSUME NEW r, NEW s \in Records, s.running = rt[r].running, NEW retry \in BOOLEAN
  PROVE  Steps(r, Failed(s, retry))
  BY FailedFacts DEF Steps

LEMMA RunKeeps ==
  ASSUME RuntimeInv, NEW r \in Runtimes,
         \/ LoopRuns(r) \/ ContextReads(r) \/ ContextFails(r) \/ RefreshChecks(r)
         \/ RefreshEnds(r) \/ RefreshPauses(r) \/ RefreshFails(r)
  PROVE  RuntimeInv'
<1>0. /\ rt[r] \in Records /\ lane \in Lanes /\ Consent \in Consents /\ None \in Consents
      /\ rt[r].running => Waits(rt[r])
      /\ rt[r].requested \/ rt[r].timer => rt[r].running
  BY ConsentType DEF RuntimeInv, TypeOK, Records, Lanes, Consents, RequestsKept, Running
<1>1. PICK x : rt' = [rt EXCEPT ![r] = x] /\ Steps(r, x)
  <2>1. CASE LoopRuns(r)
    <3> DEFINE begun == [rt[r] EXCEPT !.requested = FALSE, !.took = rt[r].control, !.control = FALSE,
                                      !.changed = FALSE, !.pc = "context"]
               none == [rt[r] EXCEPT !.control = FALSE]
    <3>1. begun \in Records /\ begun.running = rt[r].running /\ begun.pc = "context" /\ ~begun.requested
          /\ begun.timer = rt[r].timer /\ Waits(begun)
      BY <1>0 DEF Records, Waits
    <3>2. none \in Records /\ none.running = rt[r].running
      BY <1>0 DEF Records
    <3>3. rt' = [rt EXCEPT ![r] = begun] \/ rt' = [rt EXCEPT ![r] = Failed(none, FALSE)]
      BY <2>1 DEF LoopRuns, Becomes
    <3> HIDE DEF begun, none
    <3>4. Steps(r, begun) /\ Steps(r, Failed(none, FALSE))
      BY <1>0, <3>1, <3>2, FailedSteps DEF Steps
    <3> QED BY <3>3, <3>4
  <2>2. CASE ContextReads(r)
    <3> DEFINE s == Adopted(rt[r])
               works == [s EXCEPT !.pc = "refresh", !.ctx = Consent]
    <3>1. s \in Records /\ s.running = rt[r].running /\ s.requested = rt[r].requested /\ s.timer = rt[r].timer
      BY <1>0, AdoptedFacts
    <3>2. \/ rt' = [rt EXCEPT ![r] = works]
          \/ rt' = [rt EXCEPT ![r] = Loop(s)]
          \/ rt' = [rt EXCEPT ![r] = Failed(s, FALSE)]
      BY <2>2 DEF ContextReads, Becomes
    <3> HIDE DEF s
    <3>3. works \in Records /\ works.running = s.running /\ works.pc = "refresh"
          /\ works.requested = s.requested /\ works.timer = s.timer /\ Waits(works)
      BY <1>0, <3>1 DEF Records, Waits
    <3> HIDE DEF works
    <3>4. Steps(r, works) /\ Steps(r, Loop(s)) /\ Steps(r, Failed(s, FALSE))
      BY <1>0, <3>1, <3>3, LoopSteps, FailedSteps DEF Steps
    <3> QED BY <3>2, <3>4
  <2>3. CASE ContextFails(r)
    <3>1. PICK s \in {rt[r], Adopted(rt[r])} : rt' = [rt EXCEPT ![r] = Failed(s, FALSE)]
      BY <2>3 DEF ContextFails, Becomes
    <3>2. s \in Records /\ s.running = rt[r].running
      BY <1>0, AdoptedFacts
    <3> QED BY <3>1, <3>2, FailedSteps
  <2>4. CASE RefreshChecks(r)
    <3> DEFINE works == [rt[r] EXCEPT !.pc = "working"]
               failed == [Failed(rt[r], FALSE) EXCEPT !.changed = TRUE]
    <3>1. works \in Records /\ works.running = rt[r].running /\ works.pc = "working"
          /\ works.requested = rt[r].requested /\ works.timer = rt[r].timer /\ Waits(works)
      BY <1>0 DEF Records, Waits
    <3>2. failed \in Records /\ failed.running = rt[r].running /\ failed.pc = "loop" /\ ~failed.requested
          /\ (failed.timer => rt[r].running) /\ (rt[r].running => Waits(failed))
      <4> DEFINE f == Failed(rt[r], FALSE)
      <4>1. f \in Records /\ f.running = rt[r].running /\ f.pc = "loop" /\ ~f.requested
            /\ (f.timer => rt[r].running) /\ (rt[r].running => Waits(f))
        BY <1>0, FailedFacts
      <4>2. failed = [f EXCEPT !.changed = TRUE]
        OBVIOUS
      <4> HIDE DEF f, failed
      <4> QED BY <4>1, <4>2 DEF Records, Waits
    <3>3. rt' = [rt EXCEPT ![r] = works] \/ rt' = [rt EXCEPT ![r] = failed]
      BY <2>4 DEF RefreshChecks, Becomes
    <3> HIDE DEF works, failed
    <3>4. Steps(r, works) /\ Steps(r, failed)
      BY <1>0, <3>1, <3>2 DEF Steps
    <3> QED BY <3>3, <3>4
  <2>5. CASE RefreshEnds(r)
    BY <1>0, <2>5, LoopSteps DEF RefreshEnds, Becomes
  <2>6. CASE RefreshPauses(r)
    <3> DEFINE s == [rt[r] EXCEPT !.paused = TRUE, !.consent = None]
    <3>1. s \in Records /\ s.running = rt[r].running /\ s.requested = rt[r].requested
      BY <1>0 DEF Records
    <3>2. rt' = [rt EXCEPT ![r] = Loop(s)]
      BY <2>6 DEF RefreshPauses, Becomes
    <3> HIDE DEF s
    <3> QED BY <1>0, <3>1, <3>2, LoopSteps
  <2>7. CASE RefreshFails(r)
    <3>1. PICK retry \in BOOLEAN : rt' = [rt EXCEPT ![r] = Failed(rt[r], retry)]
      BY <2>7 DEF RefreshFails, Becomes
    <3> QED BY <1>0, <3>1, FailedSteps
  <2> QED BY <2>1, <2>2, <2>3, <2>4, <2>5, <2>6, <2>7
<1>2. rt[r].pc # "idle" /\ share' = share /\ started' = started
  BY DEF LoopRuns, ContextReads, ContextFails, RefreshChecks, RefreshEnds, RefreshPauses, RefreshFails
<1>3. lane' \in Lanes /\ lane'.task = lane.task /\ lane'.next = lane.next
  BY <1>0 DEF LoopRuns, ContextReads, ContextFails, RefreshChecks, RefreshEnds, RefreshPauses, RefreshFails,
              Lanes, Records
<1>4. holder' \in {None} \cup Calls \cup Runtimes /\ waiters' \in Seq(Calls \cup Runtimes)
  <2>1. CASE Acquires(r) \/ Releases(r)
    BY <2>1, QueueType DEF RuntimeInv
  <2>2. CASE ~(Acquires(r) \/ Releases(r))
    <3> DEFINE S == Calls \cup Runtimes
    <3>1. waiters \in Seq(S) /\ holder \in {None} \cup S /\ r \in S
      BY DEF RuntimeInv, TypeOK
    <3> HIDE DEF S
    <3>2. holder' \in {None} \cup S /\ waiters' \in Seq(S)
      <4>1. CASE LoopRuns(r) \/ ContextFails(r) \/ RefreshEnds(r) \/ RefreshPauses(r) \/ RefreshFails(r)
        BY <2>2, <3>1, <4>1 DEF LoopRuns, ContextFails, RefreshEnds, RefreshPauses, RefreshFails
      <4>2. CASE ContextReads(r)
        <5>1. <<>> \in Seq(S) /\ Append(waiters, r) \in Seq(S)
          BY <3>1
        <5> QED BY <2>2, <3>1, <4>2, <5>1 DEF ContextReads
      <4>3. CASE RefreshChecks(r)
        BY <3>1, <4>3 DEF RefreshChecks
      <4> QED BY <4>1, <4>2, <4>3
    <3> QED BY <3>2 DEF S
  <2> QED BY <2>1, <2>2
<1> QED BY <1>1, <1>2, <1>3, <1>4, RunChanges DEF Steps

(* A task ends its loop when nobody asks any more, or its setup stopped.     *)
LEMMA LoopEndsKeeps ==
  ASSUME RuntimeInv, NEW r \in Runtimes, LoopEnds(r)
  PROVE  RuntimeInv'
<1> DEFINE x == [rt[r] EXCEPT !.pc = "done"]
<1>1. rt[r] \in Records /\ rt[r].pc = "loop" /\ ~(rt[r].running /\ rt[r].requested)
  BY DEF RuntimeInv, TypeOK, Records, LoopEnds
<1>2. x \in Records /\ x.running = rt[r].running /\ x.requested = rt[r].requested /\ x.timer = rt[r].timer
      /\ x.consent = rt[r].consent /\ x.pc = "done"
  BY <1>1 DEF Records
<1>3. rt' = [rt EXCEPT ![r] = x] /\ lane' = lane /\ share' = share /\ started' = started
      /\ holder' = holder /\ waiters' = waiters
  BY DEF LoopEnds
<1>4. lane' \in Lanes /\ share' \in [on : BOOLEAN, revision : 0 .. MaxRevision] /\ started' \subseteq Runtimes
      /\ holder' \in {None} \cup Calls \cup Runtimes /\ waiters' \in Seq(Calls \cup Runtimes)
  BY <1>3 DEF RuntimeInv, TypeOK, Lanes
<1>5. lane.task = r
  BY <1>1 DEF RuntimeInv, OneTask
<1>6. x.running => Remembered(r, x, lane'.next) /\ Waits(x)
  BY <1>1, <1>2 DEF RuntimeInv, RequestsKept, Running, Remembered, Waits
<1>7. ~x.running => ~x.timer /\ ~x.requested /\ lane'.next # r
  BY <1>1, <1>2, <1>3 DEF RuntimeInv, TypeOK, Running
<1>8. lane'.task = None => lane'.next = None
  BY <1>3 DEF RuntimeInv, NextWaits
<1> HIDE DEF x
<1> QED BY <1>2, <1>3, <1>4, <1>5, <1>6, <1>7, <1>8, OneChanges

(* The lane goes to whoever asked while the task was running.                *)
LEMMA SettledKeeps ==
  ASSUME RuntimeInv, NEW r \in Runtimes, Settled(r)
  PROVE  RuntimeInv'
<1>1. /\ rt \in [Runtimes -> Records] /\ lane \in Lanes /\ None \notin Runtimes
      /\ rt[r].pc = "done" /\ lane.task = r
      /\ \A s \in Runtimes \ {r} : rt[s].pc = "idle"
  BY RuntimeAssumption DEF RuntimeInv, TypeOK, OneTask, Records, Lanes, Settled
<1>2. lane' \in Lanes /\ lane'.task = Successor(r) /\ lane'.next = None
      /\ Successor(r) \in {None} \cup Runtimes
  BY <1>1 DEF Settled, Lanes, Successor
<1>3. \A s \in Runtimes :
        /\ rt'[s] \in Records
        /\ rt'[s].running = rt[s].running /\ rt'[s].requested = rt[s].requested
        /\ rt'[s].timer = rt[s].timer /\ rt'[s].consent = rt[s].consent
        /\ rt'[s].pc = IF s = Successor(r) THEN "loop" ELSE "idle"
  <2> TAKE s \in Runtimes
  <2>1. rt[s] \in Records /\ (s # r => rt[s].pc = "idle")
    BY <1>1
  <2>2. rt'[s] = IF s = Successor(r) THEN [rt[s] EXCEPT !.pc = "loop"]
                 ELSE IF s = r THEN [rt[s] EXCEPT !.pc = "idle"] ELSE rt[s]
    BY DEF Settled
  <2> QED BY <2>1, <2>2 DEF Records
<1>4. rt' \in [Runtimes -> Records]
  BY <1>3 DEF Settled
<1>5. Running' = Running
  BY <1>3 DEF Running
<1>6. TypeOK'
  <2>1. share' = share /\ holder' = holder /\ waiters' = waiters /\ started' = started
    BY DEF Settled
  <2>2. \A s \in Runtimes \ Running' : ~rt'[s].timer /\ ~rt'[s].requested /\ lane'.next # s
    BY <1>1, <1>2, <1>3, <1>5 DEF RuntimeInv, TypeOK
  <2>3. lane' \in Lanes
    BY <1>2
  <2> QED BY <1>4, <2>1, <2>2, <2>3 DEF RuntimeInv, TypeOK, Records, Lanes
<1>7. OneTask'
  BY <1>2, <1>3 DEF OneTask
<1>8. OneRunning' /\ NextWaits'
  BY <1>2, <1>5 DEF RuntimeInv, OneRunning, NextWaits
<1>9. RequestsKept'
  <2> SUFFICES ASSUME NEW s \in Running' PROVE Remembered(s, rt'[s], lane'.next) /\ Waits(rt'[s])
    BY DEF RequestsKept
  <2>1. s \in Runtimes /\ rt[s].running /\ Remembered(s, rt[s], lane.next) /\ Waits(rt[s])
    BY <1>5 DEF Running, RuntimeInv, RequestsKept
  <2>2. rt[s].pc \in {"idle", "done"}
    BY <1>1, <2>1
  <2>3. rt[s].requested => Successor(r) = s
    BY <1>1, <2>1, <2>2 DEF Remembered, Successor
  <2> QED BY <1>3, <2>1, <2>2, <2>3 DEF Remembered, Waits
<1> QED BY <1>6, <1>7, <1>8, <1>9 DEF RuntimeInv

(* The administrator and the lock.                                           *)
LEMMA OthersKeep ==
  ASSUME RuntimeInv,
         \/ \E c \in Calls : AdminCalls(c) \/ AdminSteps(c)
         \/ Granted \/ HourPasses \/ UNCHANGED vars
  PROVE  RuntimeInv'
<1> USE DEF RuntimeInv
<1>1. CASE UNCHANGED <<rt, lane, share, started>> /\ holder' \in {None} \cup Calls \cup Runtimes
           /\ waiters' \in Seq(Calls \cup Runtimes)
  BY <1>1 DEF TypeOK, OneTask, OneRunning, NextWaits, RequestsKept, Running
<1>2. ASSUME NEW c \in Calls, AdminCalls(c) \/ AdminEnds(c) PROVE RuntimeInv'
  BY <1>1, <1>2, QueueType DEF AdminCalls, AdminEnds
<1>3. ASSUME NEW c \in Calls, NEW confirmed \in BOOLEAN, ShareChanges(c, confirmed) PROVE RuntimeInv'
  <2>1. share' \in [on : BOOLEAN, revision : 0 .. MaxRevision]
    BY <1>3, RuntimeAssumption DEF ShareChanges, TypeOK
  <2>2. holder' \in {None} \cup Calls \cup Runtimes /\ waiters' \in Seq(Calls \cup Runtimes)
        /\ started' \subseteq Runtimes
    BY <1>3, QueueType DEF ShareChanges, TypeOK
  <2>3. CASE UNCHANGED <<rt, lane>>
    BY <2>1, <2>2, <2>3 DEF TypeOK, OneTask, OneRunning, NextWaits, RequestsKept, Running
  <2>4. CASE ~UNCHANGED <<rt, lane>>
    <3>1. PICK r \in Running : Request(r, TRUE)
      BY <1>3, <2>4 DEF ShareChanges
    <3>2. r \in Runtimes /\ rt[r] \in Records /\ rt[r].running /\ TRUE \in BOOLEAN
      BY DEF Running, TypeOK, Records
    <3> QED BY <2>1, <2>2, <3>1, <3>2, RequestKeeps DEF Request
  <2> QED BY <2>3, <2>4
<1>4. CASE Granted
  <2> DEFINE S == Calls \cup Runtimes
  <2>1. waiters \in Seq(S) /\ waiters # <<>>
    BY <1>4 DEF TypeOK, Granted
  <2> HIDE DEF S
  <2>2. Head(waiters) \in S /\ Tail(waiters) \in Seq(S)
    BY <2>1
  <2> QED BY <1>1, <1>4, <2>2 DEF Granted, S
<1>5. CASE HourPasses
  <2>1. lane' \in Lanes /\ lane'.task = lane.task /\ lane'.next = lane.next
    BY <1>5 DEF HourPasses, TypeOK, Lanes, Consents
  <2> QED BY <1>5, <2>1 DEF HourPasses, TypeOK, OneTask, OneRunning, NextWaits, RequestsKept, Running, Lanes
<1>6. CASE UNCHANGED vars
  BY <1>1, <1>6 DEF vars, TypeOK
<1> QED BY <1>2, <1>3, <1>4, <1>5, <1>6 DEF AdminSteps

(* The lane has one task, its queue one runtime that still runs, and a       *)
(* consent between two runs has a timer or a request (_request, _done, _arm).*)
THEOREM RuntimeInductive == Spec => []RuntimeInv
<1>1. RuntimeInv /\ [Next]_vars => RuntimeInv'
  <2> SUFFICES ASSUME RuntimeInv, [Next]_vars PROVE RuntimeInv'
    OBVIOUS
  <2>1. ASSUME NEW r \in Runtimes, RunSteps(r) PROVE RuntimeInv'
    BY <2>1, RunKeeps, LoopEndsKeeps, SettledKeeps DEF RunSteps
  <2> QED BY <2>1, CallersKeep, OthersKeep DEF Next
<1> QED BY <1>1, RuntimeStarts, PTL DEF Spec

(* The lane of an entry runs one task at a time, the one it names, through   *)
(* any number of reloads while a task is busy.                               *)
THEOREM OneTaskHolds == Spec => []OneTask
<1>1. RuntimeInv => OneTask
  BY DEF RuntimeInv
<1> QED BY <1>1, RuntimeInductive, PTL

(* A runtime that works for a consent is never left without a timer or a     *)
(* task, whatever its runs ended with.                                       *)
THEOREM NeverSilentHolds == Spec => []NeverSilent
<1>1. RuntimeInv => NeverSilent
  <2> SUFFICES ASSUME RuntimeInv, NEW r \in Running, rt[r].consent # None, lane.task = None PROVE rt[r].timer
    BY DEF NeverSilent
  <2>1. r \in Runtimes /\ None \notin Runtimes /\ lane.next = None
    BY RuntimeAssumption DEF Running, RuntimeInv, NextWaits
  <2>2. rt[r].pc = "idle"
    BY <2>1 DEF RuntimeInv, OneTask
  <2> QED BY <2>1, <2>2 DEF RuntimeInv, RequestsKept, Remembered, Waits
<1> QED BY <1>1, RuntimeInductive, PTL
=============================================================================
