--------------------------- MODULE EnergySnapshot ---------------------------
(***************************************************************************)
(* EnergySnapshotCoordinator (energy.py): background ticks and requests     *)
(* compute one shared snapshot under the coordinator's lock, read the       *)
(* tariff under the storage lock and calculate in the CPU lane, one         *)
(* executor thread that outlives cancelled callers and reloads.  Every      *)
(* answer passes a final fence.  Ticks tell the cards by an event.          *)
(*                                                                          *)
(* A lock is held by the task whose stage implies it.  Sources, the         *)
(* five-minute cutoff and the tariff revision are numbers that grow.        *)
(***************************************************************************)
EXTENDS Integers, FiniteSets

CONSTANTS
  Tasks,         \* concurrent requests and ticks
  None, Purged,  \* no snapshot; a withdrawn one
  MaxLane,       \* MAX_PENDING_CPU_JOBS of the lane
  MaxSnapshots,  \* MAX_PENDING_CPU_JOBS of the coordinator's refreshes
  MaxPrices,     \* MAX_PENDING_PRICE_JOBS
  MaxBooks,      \* book operations of the storage (4 in the code)
  MaxGen,        \* bound: coordinators that still have tasks
  MaxSource,     \* bound: changes of the energy sources
  MaxCutoff,     \* bound: five-minute cutoffs
  MaxRevision    \* bound: tariff edits

ASSUME SnapshotAssumption ==
  /\ IsFiniteSet(Tasks)
  /\ {MaxLane, MaxSnapshots, MaxPrices, MaxBooks, MaxGen} \subseteq Nat \ {0}
  /\ {MaxSource, MaxCutoff, MaxRevision} \subseteq Nat

VARIABLES
  up,        \* the entry is set up
  gen,       \* its coordinator, or the last one
  source,
  cutoff,
  revision,  \* current_tariff_revision
  task,
  lane,      \* _cpu_lane['pending']
  jobs,      \* executor threads that calculate
  snap,      \* the state of the current coordinator
  stale      \* history: something was served that was not current

envVars == <<source, cutoff, revision>>
vars == <<up, gen, envVars, task, lane, jobs, snap, stale>>

Refreshes == {"tick", "read", "override"}
Kinds == Refreshes \cup {"price", "edit"}

(* The book is read, the result is built, the book is read again; an override *)
(* is then calculated without the coordinator's lock.                         *)
Stages == {"first", "build", "last", "own"}

Idle == [pc |-> "idle", kind |-> "none"]

NewTask(k) ==
  [kind |-> k, co |-> gen, via |-> gen, pc |-> IF k = "edit" THEN "store" ELSE "coord", stage |-> "first",
   src |-> 0, seen |-> 0, built |-> 0, cut |-> 0, rev |-> 0, again |-> 0, cancelled |-> FALSE]

(* told: the last event, as the cards understand it; last: the outcome of the last tick. *)
Blank == [data |-> None, invalidated |-> FALSE, purged |-> FALSE, key |-> None, told |-> None, last |-> None]

(* _check_running *)
Running_Mutant(c) == TRUE

Running(c) == up /\ c = gen

Kind(k) == {t \in Tasks : task[t].kind \in k}
At(pc) == {t \in Tasks : task[t].pc \in pc}

CoordHeld(c) == \E t \in Kind(Refreshes \cup {"price"}) \ At({"coord"}) : task[t].co = c /\ task[t].stage # "own"

StoreHeld == Kind({"edit"}) \cap At({"lane", "run", "write"}) # {}

CpuHeld_Mutant == At({"run"}) # {} \/ \E t \in Kind({"price"}) \cap At({"store"}) : task[t].stage = "last"

CpuHeld == At({"run"}) # {}

BookUsers ==
  Kind({"edit"}) \cup {t \in Kind(Refreshes) : task[t].stage \in {"first", "last"} /\ task[t].pc \in {"store", "lane", "run"}}

(***************************************************************************)
(* The shared snapshot and its events.                                      *)
(***************************************************************************)
Invalidate(s) == [s EXCEPT !.data = None, !.invalidated = TRUE]

Purge(s) ==
  [s EXCEPT !.purged = TRUE, !.last = Purged, !.told = IF s.invalidated /\ ~s.purged THEN Purged ELSE @]

Accept_Mutant(s) ==
  LET key == [rev |-> s.data.rev, cut |-> s.data.cut]
  IN [s EXCEPT !.last = key, !.told = IF key # s.key \/ s.invalidated THEN key ELSE @,
               !.key = key, !.invalidated = FALSE]

Accept(s) ==
  LET key == [rev |-> s.data.rev, cut |-> s.data.cut]
  IN [s EXCEPT !.last = key, !.told = IF key # s.key \/ s.invalidated \/ s.purged THEN key ELSE @,
               !.key = key, !.invalidated = FALSE, !.purged = FALSE]

(* A request's failure is its own; a tick's withdraws the snapshot. *)
AfterFailure(t, s) == IF task[t].kind = "tick" /\ Running(task[t].co) THEN Purge(Invalidate(s)) ELSE s

Withdrawn(t) == IF Running(task[t].co) THEN Invalidate(snap) ELSE snap

Fails(t, s) == task' = [task EXCEPT ![t] = Idle] /\ snap' = AfterFailure(t, s) /\ UNCHANGED stale

Becomes(t, r) == task' = [task EXCEPT ![t] = r] /\ UNCHANGED <<snap, stale>>

(* What is served now would be accepted now. *)
Serves(t, s, r, current) ==
  task' = [task EXCEPT ![t] = r] /\ snap' = s /\ stale' = (stale \/ ~current)

(***************************************************************************)
(* Admission, locks and the CPU lane.                                       *)
(***************************************************************************)
Admitted(k) ==
  /\ k \in Refreshes => Cardinality({t \in Kind(Refreshes) : task[t].co = gen}) < MaxSnapshots
  /\ k = "tick" => \A t \in Kind({"tick"}) : task[t].co # gen
  /\ k = "price" => Cardinality({t \in Kind({"price"}) : task[t].co = gen}) < MaxPrices
  /\ k = "edit" => Cardinality(BookUsers) < MaxBooks

Begins(t, k) ==
  /\ up /\ task[t] = Idle /\ Admitted(k)
  /\ Becomes(t, NewTask(k))
  /\ UNCHANGED <<up, gen, envVars, lane, jobs>>

(* A tick without admission fails like any other. *)
TickRefused ==
  /\ up /\ \A t \in Kind({"tick"}) : task[t].co # gen
  /\ Cardinality({t \in Kind(Refreshes) : task[t].co = gen}) >= MaxSnapshots
  /\ snap' = Purge(Invalidate(snap))
  /\ UNCHANGED <<up, gen, envVars, task, lane, jobs, stale>>

(* async_get_tariff_book and async_get_tariff, of which only the first is admitted. *)
ToStore(t, r) ==
  IF r.kind \in Refreshes /\ Cardinality(BookUsers) >= MaxBooks
  THEN Fails(t, snap) ELSE Becomes(t, [r EXCEPT !.pc = "store"])

ToLane(t, r, pending) ==
  IF pending >= MaxLane THEN Fails(t, snap) /\ lane' = pending
  ELSE Becomes(t, [r EXCEPT !.pc = "lane"]) /\ lane' = pending + 1

CoordLocks(t) ==
  /\ task[t].pc = "coord" /\ ~CoordHeld(task[t].co)
  /\ IF ~Running(task[t].co) THEN Fails(t, snap)
     ELSE IF task[t].kind = "price" THEN Becomes(t, [task[t] EXCEPT !.pc = "store"])
     ELSE Becomes(t, [task[t] EXCEPT !.pc = "measure", !.src = source, !.cut = cutoff])
  /\ UNCHANGED <<up, gen, envVars, lane, jobs>>

(* The Recorder answers, unless the measurement of these sources is cached. *)
Measured(t, cached, ok) ==
  /\ task[t].pc = "measure"
  /\ IF ~ok \/ ~Running(task[t].co) THEN Fails(t, snap)
     ELSE IF ~cached /\ source # task[t].src THEN Fails(t, Withdrawn(t))
     ELSE ToStore(t, task[t])
  /\ UNCHANGED <<up, gen, envVars, lane, jobs>>

PriceCurrent(t) == Running(task[t].co) /\ revision = task[t].rev

(* The storage lock is free, the revision is read and the lock released. *)
ReadsTariff(t) ==
  /\ task[t].pc = "store" /\ task[t].kind # "edit" /\ ~StoreHeld
  /\ \/ /\ task[t].kind = "price" /\ task[t].stage = "first"
        /\ IF Running(task[t].co)
           THEN ToLane(t, [task[t] EXCEPT !.stage = "build", !.rev = revision], lane)
           ELSE Fails(t, snap) /\ UNCHANGED lane
     \/ /\ task[t].kind = "price" /\ task[t].stage = "last"
        /\ IF PriceCurrent(t) THEN Serves(t, snap, Idle, revision = task[t].rev) ELSE Fails(t, snap)
        /\ UNCHANGED lane
     \/ /\ task[t].kind # "price"
        /\ LET r == [task[t] EXCEPT !.via = gen,
                                    !.rev = IF task[t].stage = "first" THEN revision ELSE @,
                                    !.again = IF task[t].stage = "last" THEN revision ELSE @]
           IN IF up THEN ToLane(t, r, lane) ELSE Fails(t, snap) /\ UNCHANGED lane
  /\ UNCHANGED <<up, gen, envVars, jobs>>

(* An edit keeps the storage lock until its write has ended. *)
EditLocks(t) ==
  /\ task[t].pc = "store" /\ task[t].kind = "edit" /\ ~StoreHeld
  /\ IF up THEN ToLane(t, [task[t] EXCEPT !.via = gen], lane) ELSE Fails(t, snap) /\ UNCHANGED lane
  /\ UNCHANGED <<up, gen, envVars, jobs>>

LaneLocks(t) ==
  /\ task[t].pc = "lane" /\ ~CpuHeld
  /\ IF Running(task[t].via)
     THEN Becomes(t, [task[t] EXCEPT !.pc = "run"]) /\ jobs' = jobs + 1 /\ UNCHANGED lane
     ELSE Fails(t, snap) /\ lane' = lane - 1 /\ UNCHANGED jobs
  /\ UNCHANGED <<up, gen, envVars>>

FenceHolds_Mutant(t) == task[t].seen = task[t].src /\ task[t].again = task[t].rev /\ cutoff = task[t].cut

(* No await separates this comparison from the publication. *)
FenceHolds(t) ==
  /\ task[t].seen = task[t].src
  /\ task[t].again = task[t].rev /\ revision = task[t].rev
  /\ cutoff = task[t].cut

Result(t) == [rev |-> task[t].rev, cut |-> task[t].cut]

(* An override keeps its result to itself; the shared one is published first. *)
Publishes(t) ==
  LET published == [snap EXCEPT !.data = Result(t)]
      current == revision = task[t].rev /\ cutoff = task[t].cut /\ task[t].built = task[t].src
  IN IF task[t].kind = "override"
     THEN /\ Serves(t, published, [task[t] EXCEPT !.pc = "lane", !.stage = "own", !.via = task[t].co], current)
          /\ UNCHANGED lane
     ELSE /\ Serves(t, IF task[t].kind = "tick" THEN Accept(published) ELSE published, Idle, current)
          /\ lane' = lane - 1

JobEnds(t) ==
  /\ task[t].pc = "run"
  /\ jobs' = jobs - 1
  /\ IF task[t].cancelled
     THEN task' = [task EXCEPT ![t] = Idle] /\ lane' = lane - 1 /\ UNCHANGED <<snap, stale>>
     ELSE IF ~Running(task[t].via) \/ (task[t].kind # "edit" /\ ~Running(task[t].co))
     THEN Fails(t, snap) /\ lane' = lane - 1
     ELSE \/ /\ task[t].kind = "edit"
             /\ Becomes(t, [task[t] EXCEPT !.pc = "write"]) /\ lane' = lane - 1
          \/ /\ task[t].kind \in Refreshes /\ task[t].stage = "first"
             /\ ToLane(t, [task[t] EXCEPT !.stage = "build", !.via = task[t].co], lane - 1)
          \/ /\ task[t].kind = "price"
             /\ Becomes(t, [task[t] EXCEPT !.pc = "store", !.stage = "last"]) /\ lane' = lane - 1
          \/ /\ task[t].kind \in Refreshes /\ task[t].stage \in {"build", "own"}
             /\ Becomes(t, [task[t] EXCEPT !.pc = "fence", !.built = source]) /\ lane' = lane - 1
          \/ /\ task[t].kind \in Refreshes /\ task[t].stage = "last"
             /\ IF FenceHolds(t) THEN Publishes(t) ELSE Fails(t, Withdrawn(t)) /\ lane' = lane - 1
  /\ UNCHANGED <<up, gen, envVars>>

(* The sources are read again; an override is served or withdraws the snapshot. *)
Fences(t) ==
  /\ task[t].pc = "fence"
  /\ IF task[t].stage = "build" THEN ToStore(t, [task[t] EXCEPT !.stage = "last", !.seen = source])
     ELSE IF ~Running(task[t].co) THEN Fails(t, snap)
     ELSE IF source # task[t].src THEN Fails(t, Withdrawn(t))
     ELSE Serves(t, snap, Idle, task[t].built = task[t].src)
  /\ UNCHANGED <<up, gen, envVars, lane, jobs>>

WriteEnds(t, ok) ==
  /\ task[t].pc = "write"
  /\ revision' = IF ok /\ revision < MaxRevision THEN revision + 1 ELSE revision
  /\ Becomes(t, Idle)
  /\ UNCHANGED <<up, gen, source, cutoff, lane, jobs>>

(***************************************************************************)
(* Cancelled callers, reloads and the household.                            *)
(***************************************************************************)
Shielded_Mutant(t) == FALSE

(* Cancelling an await does not stop the executor's thread. *)
Shielded(t) == task[t].pc = "run"

LaneWithout_Mutant(t) == lane

(* The finally of _async_run_cpu. *)
LaneWithout(t) == IF task[t].pc \in {"lane", "run"} THEN lane - 1 ELSE lane

Cancelled(t) ==
  /\ task[t] # Idle /\ ~task[t].cancelled
  /\ IF Shielded(t) THEN Becomes(t, [task[t] EXCEPT !.cancelled = TRUE]) /\ UNCHANGED lane
     ELSE Becomes(t, Idle) /\ lane' = LaneWithout(t)
  /\ UNCHANGED <<up, gen, envVars, jobs>>

Unload == up /\ up' = FALSE /\ snap' = Blank /\ UNCHANGED <<gen, envVars, task, lane, jobs, stale>>

(* A new coordinator takes over the lane; the name of one that nobody works for is used again. *)
SetUp ==
  /\ ~up /\ up' = TRUE
  /\ gen' \in 1 .. MaxGen
  /\ \A t \in Tasks : task[t] # Idle => gen' \notin {task[t].co, task[t].via}
  /\ UNCHANGED <<envVars, task, lane, jobs, snap, stale>>

SourceChanges == source < MaxSource /\ source' = source + 1 /\ UNCHANGED <<up, gen, cutoff, revision, task, lane, jobs, snap, stale>>

CutoffPasses == cutoff < MaxCutoff /\ cutoff' = cutoff + 1 /\ UNCHANGED <<up, gen, source, revision, task, lane, jobs, snap, stale>>

Init ==
  /\ up = FALSE /\ gen = 1 /\ source = 0 /\ cutoff = 0 /\ revision = 0
  /\ task = [t \in Tasks |-> Idle] /\ lane = 0 /\ jobs = 0 /\ snap = Blank /\ stale = FALSE

Progress(t) ==
  \/ CoordLocks(t) \/ ReadsTariff(t) \/ EditLocks(t) \/ LaneLocks(t) \/ JobEnds(t) \/ Fences(t)
  \/ \E cached, ok \in BOOLEAN : Measured(t, cached, ok)
  \/ \E ok \in BOOLEAN : WriteEnds(t, ok)

Next ==
  \/ \E t \in Tasks : Progress(t) \/ Cancelled(t) \/ \E k \in Kinds : Begins(t, k)
  \/ TickRefused \/ Unload \/ SetUp \/ SourceChanges \/ CutoffPasses

(* The Recorder, the Store and the executor answer: such a step stays enabled until *)
(* it is taken.  asyncio serves the waiters of a lock in order: a lock that is free *)
(* again and again is granted.  Nobody has to begin, cancel or reload anything.     *)
Fairness == \A t \in Tasks : SF_vars(Progress(t))

Spec == Init /\ [][Next]_vars /\ Fairness

(***************************************************************************)
(* Correctness.                                                             *)
(***************************************************************************)
Key == [rev : 0 .. MaxRevision, cut : 0 .. MaxCutoff]

Active ==
  [kind : Kinds, co : 1 .. MaxGen, via : 1 .. MaxGen, stage : Stages, cancelled : BOOLEAN,
   pc : {"coord", "measure", "store", "lane", "run", "fence", "write"},
   src : 0 .. source, seen : 0 .. source, built : 0 .. source, cut : 0 .. cutoff,
   rev : 0 .. revision, again : 0 .. revision]

Outcomes == {None, Purged} \cup Key

SnapType ==
  [data : {None} \cup Key, invalidated : BOOLEAN, purged : BOOLEAN, key : {None} \cup Key, told : Outcomes, last : Outcomes]

InLane == At({"lane", "run"})

(* Besides the types: every caller in the lane is counted once, cancelled or not. *)
TypeOK ==
  /\ up \in BOOLEAN /\ gen \in 1 .. MaxGen /\ stale \in BOOLEAN
  /\ source \in 0 .. MaxSource /\ cutoff \in 0 .. MaxCutoff /\ revision \in 0 .. MaxRevision
  /\ task \in [Tasks -> {Idle} \cup Active]
  /\ lane = Cardinality(InLane) /\ lane <= MaxLane
  /\ snap \in SnapType

(* "Hold the lane until that exact job completes" (_async_run_cpu), and "an old      *)
(* worker thread must actually finish before the replacement coordinator starts     *)
(* one": one thread calculates, whoever was cancelled or reloaded in between.       *)
OneJob == jobs <= 1

(* "Reject answers overtaken by a confirmed edit, source normalization change, HA    *)
(* calendar change, or unload" (_async_refresh): a published snapshot is of the      *)
(* current tariff and cutoff and of the sources in force when it was calculated, an  *)
(* override of those sources, a price of the current tariff.                        *)
NothingStale == ~stale

(* A stopped coordinator publishes no values and fires no event, whatever still runs *)
(* for it (async_stop, _check_running).                                              *)
StoppedIsSilent == ~up => snap = Blank

(* After each tick the last event tells the cards its outcome: the tariff and bucket *)
(* of the accepted snapshot, or that it was withdrawn (_publish_energy_update).      *)
TicksTell == snap.told = snap.last

(***************************************************************************)
(* The inductive invariant of the safety properties.                        *)
(***************************************************************************)
(* The thread that calculates is the one whose caller is in the lane. *)
Threads ==
  \/ jobs = 0 /\ At({"run"}) = {}
  \/ jobs = 1 /\ \E t \in Tasks : At({"run"}) = {t}

(* The sources are read before, during and after the calculation, in this order; *)
(* they only move forward, so two equal reads enclose an equal third one.        *)
ReadInOrder(r) ==
  /\ r.pc \in {"coord", "measure"} => r.stage = "first"
  /\ r.pc = "fence" => r.src <= r.built
  /\ r.kind # "price" => /\ r.stage \in {"last", "own"} => r.src <= r.built
                         /\ r.stage = "last" => r.built <= r.seen

(* What the cards were told last, given the bits that decide about the next event. *)
Told ==
  /\ snap.purged => snap.told = Purged
  /\ ~snap.invalidated /\ ~snap.purged => snap.told = snap.key

(* Why the four properties above hold in every state. *)
SnapshotInv ==
  /\ TypeOK /\ Threads
  /\ \A t \in Tasks : task[t] # Idle => ReadInOrder(task[t])
  /\ NothingStale /\ StoppedIsSilent /\ TicksTell /\ Told

(* Every request ends: no lock of the coordinator, the storage and the lane is ever  *)
(* awaited forever.                                                                  *)
RequestsEnd == \A t \in Tasks : task[t] # Idle ~> task[t] = Idle
=============================================================================
