------------------------- MODULE StatisticsRuntime -------------------------
(***************************************************************************)
(* The hourly caller of the publisher (energy_statistics_runtime.py): one   *)
(* lane per config entry, shared by the runtime of every reload; a request  *)
(* while the lane works is remembered; a control request (start, enable,    *)
(* disable) may adopt a consent, a timer may not.                           *)
(*                                                                          *)
(* Of the publisher only the durable consent and its asyncio lock remain:   *)
(* a free lock with waiters is granted in order, and it is not locked()     *)
(* until the first waiter has run.  What happens under the lock is module   *)
(* StatisticsSharing.                                                       *)
(***************************************************************************)
EXTENDS Integers, Sequences, FiniteSets

CONSTANTS
  Runtimes,    \* runtime instances, one per setup of the entry
  None,
  MaxRevision  \* bound: enables and disables

ASSUME RuntimeAssumption == IsFiniteSet(Runtimes) /\ None \notin Runtimes /\ MaxRevision \in Nat

Calls == {"refresh", "enable", "disable"}   \* of an administrator

VARIABLES
  share,     \* the durable consent: on or off, and its revision
  holder,    \* of the publisher's lock
  waiters,   \* callers queued on it
  rt,        \* the runtimes
  started,   \* runtimes created so far
  lane       \* the task in progress, the runtime that asked meanwhile, the consent
             \* whose present hour is complete

vars == <<share, holder, waiters, rt, started, lane>>

NewRuntime == [running |-> FALSE, control |-> FALSE, requested |-> FALSE, paused |-> FALSE,
               consent |-> None, timer |-> FALSE, pc |-> "idle", took |-> FALSE, ctx |-> None,
               changed |-> FALSE]

(* _runtime_share *)
Consent == IF share.on THEN share.revision ELSE None

(***************************************************************************)
(* The lock of the publisher.                                               *)
(***************************************************************************)
Acquires(c) ==
  IF holder = None /\ waiters = <<>> THEN holder' = c /\ UNCHANGED waiters
  ELSE waiters' = Append(waiters, c) /\ UNCHANGED holder

Releases(c) == holder = c /\ holder' = None /\ UNCHANGED waiters

Granted ==
  /\ holder = None /\ waiters # <<>>
  /\ holder' = Head(waiters) /\ waiters' = Tail(waiters)
  /\ UNCHANGED <<share, rt, started, lane>>

(***************************************************************************)
(* async_request, async_start, async_stop, the timer and the done callback. *)
(***************************************************************************)
LaneAfter_Mutant(r) ==
  IF lane.task # None THEN lane ELSE [lane EXCEPT !.task = r]

(* A busy lane remembers who asked last; an idle one starts its task. *)
LaneAfter(r) ==
  IF lane.task # None THEN [lane EXCEPT !.next = r] ELSE [lane EXCEPT !.task = r]

Asked(s, control) ==
  [s EXCEPT !.requested = TRUE, !.control = @ \/ control, !.pc = IF lane.task = None THEN "loop" ELSE @]

Request(r, control) ==
  rt' = [rt EXCEPT ![r] = Asked(@, control)] /\ lane' = LaneAfter(r)

Running == {r \in Runtimes : rt[r].running}

Start(r) ==
  /\ r \notin started /\ Running = {}
  /\ started' = started \cup {r}
  /\ rt' = [rt EXCEPT ![r] = Asked([@ EXCEPT !.running = TRUE], TRUE)]
  /\ lane' = LaneAfter(r)
  /\ UNCHANGED <<share, holder, waiters>>

LaneAtStop_Mutant(r) == [lane EXCEPT !.task = None, !.next = IF @ = r THEN None ELSE @]

(* The task keeps the lane until it has settled. *)
LaneAtStop(r) == IF lane.next = r THEN [lane EXCEPT !.next = None] ELSE lane

Stop(r) ==
  /\ rt[r].running
  /\ rt' = [rt EXCEPT ![r] = [@ EXCEPT !.running = FALSE, !.requested = FALSE, !.control = FALSE, !.timer = FALSE]]
  /\ lane' = LaneAtStop(r)
  /\ UNCHANGED <<share, holder, waiters, started>>

Tick(r) ==
  /\ rt[r].timer
  /\ rt' = [rt EXCEPT ![r] = Asked([@ EXCEPT !.timer = FALSE], FALSE)]
  /\ lane' = LaneAfter(r)
  /\ UNCHANGED <<share, holder, waiters, started>>

Successor_Mutant(r) == None

(* Whoever asked while the task was running. *)
Successor(r) ==
  IF lane.next # None /\ rt[lane.next].running /\ rt[lane.next].requested THEN lane.next ELSE None

Settled(r) ==
  /\ rt[r].pc = "done"
  /\ lane' = [lane EXCEPT !.task = Successor(r), !.next = None]
  /\ rt' = [s \in Runtimes |->
              IF s = Successor(r) THEN [rt[s] EXCEPT !.pc = "loop"]
              ELSE IF s = r THEN [rt[s] EXCEPT !.pc = "idle"] ELSE rt[s]]
  /\ UNCHANGED <<share, holder, waiters, started>>

(***************************************************************************)
(* The administrator.                                                       *)
(***************************************************************************)
Queued(c) == holder = c \/ \E i \in 1 .. Len(waiters) : waiters[i] = c

AdminCalls(c) ==
  /\ ~Queued(c)
  /\ c = "refresh" => holder = None
  /\ c # "refresh" => share.revision < MaxRevision
  /\ Acquires(c)
  /\ UNCHANGED <<share, rt, started, lane>>

(* A refresh ends, or an enable or disable is refused. *)
AdminEnds(c) ==
  /\ Releases(c)
  /\ UNCHANGED <<share, rt, started, lane>>

(* The event of a confirmed change reaches the runtime in use at once; a durable *)
(* change whose save was cancelled raises instead.                               *)
ShareChanges(c, confirmed) ==
  /\ c # "refresh" /\ share.revision < MaxRevision
  /\ Releases(c)
  /\ share' = [on |-> c = "enable", revision |-> share.revision + 1]
  /\ IF confirmed /\ Running # {} THEN \E r \in Running : Request(r, TRUE) ELSE UNCHANGED <<rt, lane>>
  /\ UNCHANGED started

(***************************************************************************)
(* _run                                                                     *)
(***************************************************************************)
(* _arm *)
Armed(s) == s.running /\ s.consent # None

(* The finally clause, then the test of the loop. *)
Loop(s) == [s EXCEPT !.timer = Armed(s), !.pc = "loop", !.ctx = None, !.took = FALSE]

(* The except clauses: an error worth a retry keeps the consent. *)
Failed(s, retry) ==
  Loop([s EXCEPT !.requested = FALSE, !.paused = @ \/ ~retry, !.consent = IF retry THEN @ ELSE None])

Becomes(r, s) == rt' = [rt EXCEPT ![r] = s]

LoopRuns(r) ==
  LET s == rt[r] IN
  /\ s.pc = "loop" /\ s.running /\ s.requested
  /\ \/ /\ Becomes(r, [s EXCEPT !.requested = FALSE, !.took = s.control, !.control = FALSE,
                             !.changed = FALSE, !.pc = "context"])
        /\ Acquires(r)
     \/ /\ Becomes(r, Failed([s EXCEPT !.control = FALSE], FALSE))   \* no publisher
        /\ UNCHANGED <<holder, waiters>>
  /\ UNCHANGED <<share, started, lane>>

LoopEnds(r) ==
  /\ rt[r].pc = "loop" /\ ~(rt[r].running /\ rt[r].requested)
  /\ rt' = [rt EXCEPT ![r].pc = "done"]
  /\ UNCHANGED <<share, holder, waiters, started, lane>>

(* A timer never adopts the consent of somebody else. *)
Adopted(s) ==
  IF s.took THEN [s EXCEPT !.paused = FALSE, !.consent = Consent]
  ELSE IF s.consent # Consent THEN [s EXCEPT !.paused = TRUE, !.consent = None] ELSE s

Continues(s) == s.running /\ s.consent # None /\ lane.completed # Consent

(* async_runtime_context, and with a consent to work for at once the call of     *)
(* async_refresh: between them only the author is looked up, in memory, so the   *)
(* lock is not locked() again, and the call queues behind the waiters.           *)
ContextReads(r) ==
  LET s == Adopted(rt[r]) IN
  /\ rt[r].pc = "context" /\ holder = r
  /\ IF Continues(s)
     THEN /\ Becomes(r, [s EXCEPT !.pc = "refresh", !.ctx = Consent])
          /\ holder' = IF waiters = <<>> THEN r ELSE None
          /\ waiters' = IF waiters = <<>> THEN <<>> ELSE Append(waiters, r)
     ELSE /\ Becomes(r, IF s.running THEN Loop(s) ELSE Failed(s, FALSE))
          /\ Releases(r)
  /\ UNCHANGED <<share, started, lane>>

(* The document cannot be read, or its author is no administrator any more. *)
ContextFails(r) ==
  /\ rt[r].pc = "context"
  /\ Releases(r)
  /\ \E s \in {rt[r], Adopted(rt[r])} : Becomes(r, Failed(s, FALSE))
  /\ UNCHANGED <<share, started, lane>>

(* A stopped publisher raises, and so does a consent that changed meanwhile. *)
RefreshChecks(r) ==
  /\ rt[r].pc = "refresh" /\ holder = r
  /\ IF rt[r].running /\ Consent = rt[r].ctx
     THEN rt' = [rt EXCEPT ![r].pc = "working"] /\ UNCHANGED holder
     ELSE Becomes(r, [Failed(rt[r], FALSE) EXCEPT !.changed = TRUE]) /\ holder' = None
  /\ UNCHANGED <<share, waiters, started, lane>>

(* The hour is complete, waits for its source, or is not over. *)
RefreshEnds(r) ==
  /\ rt[r].pc = "working"
  /\ Releases(r)
  /\ Becomes(r, Loop(rt[r]))
  /\ lane' \in {lane, [lane EXCEPT !.completed = rt[r].ctx]}
  /\ UNCHANGED <<share, started>>

RefreshPauses(r) ==
  /\ rt[r].pc = "working" /\ rt[r].running
  /\ Releases(r)
  /\ Becomes(r, Loop([rt[r] EXCEPT !.paused = TRUE, !.consent = None]))
  /\ UNCHANGED <<share, started, lane>>

RefreshFails(r) ==
  /\ rt[r].pc = "working"
  /\ Releases(r)
  /\ \E retry \in BOOLEAN : Becomes(r, Failed(rt[r], retry))
  /\ UNCHANGED <<share, started, lane>>

HourPasses ==
  /\ lane.completed # None
  /\ lane' = [lane EXCEPT !.completed = None]
  /\ UNCHANGED <<share, holder, waiters, rt, started>>

Init ==
  /\ share \in [on : BOOLEAN, revision : {0}]
  /\ holder = None
  /\ waiters = <<>>
  /\ rt = [r \in Runtimes |-> NewRuntime]
  /\ started = {}
  /\ lane = [task |-> None, next |-> None, completed |-> None]

RunSteps(r) ==
  \/ LoopRuns(r) \/ LoopEnds(r) \/ ContextReads(r) \/ ContextFails(r) \/ RefreshChecks(r)
  \/ RefreshEnds(r) \/ RefreshPauses(r) \/ RefreshFails(r) \/ Settled(r)

AdminSteps(c) == AdminEnds(c) \/ \E confirmed \in BOOLEAN : ShareChanges(c, confirmed)

Next ==
  \/ \E r \in Runtimes : Start(r) \/ Stop(r) \/ Tick(r) \/ RunSteps(r)
  \/ \E c \in Calls : AdminCalls(c) \/ AdminSteps(c)
  \/ Granted \/ HourPasses

(* Tasks and callbacks run, and every call under the lock ends. *)
Fairness ==
  /\ WF_vars(Granted)
  /\ \A c \in Calls : WF_vars(AdminSteps(c))
  /\ \A r \in Runtimes : WF_vars(RunSteps(r))

Spec == Init /\ [][Next]_vars /\ Fairness

(***************************************************************************)
(* Correctness.                                                             *)
(***************************************************************************)
Consents == {None} \cup 0 .. MaxRevision

(* Besides the types: a stopped runtime has no timer, no request and no place in *)
(* the lane's queue, so no callback of an unloaded entry can start work.        *)
TypeOK ==
  /\ share \in [on : BOOLEAN, revision : 0 .. MaxRevision]
  /\ holder \in {None} \cup Calls \cup Runtimes
  /\ waiters \in Seq(Calls \cup Runtimes)
  /\ rt \in [Runtimes -> [running : BOOLEAN, control : BOOLEAN, requested : BOOLEAN, paused : BOOLEAN,
                          consent : Consents, timer : BOOLEAN, took : BOOLEAN, ctx : Consents, changed : BOOLEAN,
                          pc : {"idle", "loop", "context", "refresh", "working", "done"}]]
  /\ started \subseteq Runtimes
  /\ lane \in [task : {None} \cup Runtimes, next : {None} \cup Runtimes, completed : Consents]
  /\ \A r \in Runtimes \ Running : ~rt[r].timer /\ ~rt[r].requested /\ lane.next # r

(* The lane of an entry has at most one task, the one it names, however often   *)
(* the entry is reloaded while a task is busy (energy_statistics_runtime.py:162 *)
(* keeps the lane until raw I/O has settled).                                   *)
OneTask == \A r \in Runtimes : rt[r].pc # "idle" => lane.task = r

(* A runtime that works for a consent is never left without a timer: its next   *)
(* hour is armed, or a task is still in progress (_arm in every exit of _run).  *)
NeverSilent == \A r \in Running : rt[r].consent # None => rt[r].timer \/ lane.task # None

(* No request of a timer, an event or a successor waits for ever.               *)
RequestsServed == \A r \in Runtimes : rt[r].requested ~> ~rt[r].requested

(* "Revoke/source/dataset errors require explicit reauthorization": a run that  *)
(* failed because the consent was changed under it does not discard the request *)
(* that announced the change; a task or a timer is left that will take it.      *)
ReauthorizationTaken ==
  \A r \in Running : rt[r].changed /\ rt[r].control => rt[r].timer \/ lane.task # None
=============================================================================
