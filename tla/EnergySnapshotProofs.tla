------------------------ MODULE EnergySnapshotProofs ------------------------
(***************************************************************************)
(* The safety of EnergySnapshot for any number of requests, ticks, edits,   *)
(* reloads and cancelled callers, and any size of the lane.                 *)
(***************************************************************************)
EXTENDS EnergySnapshot, FiniteSetTheorems, TLAPS

Lane(r) == IF r.pc \in {"lane", "run"} THEN 1 ELSE 0
Thread(r) == IF r.pc = "run" THEN 1 ELSE 0

(* A step of task t that leaves record r, and what it must do to the lane. *)
Moves(t, r) ==
  /\ task' = [task EXCEPT ![t] = r]
  /\ r = Idle \/ (r \in Active /\ ReadInOrder(r))
  /\ lane' = lane - Lane(task[t]) + Lane(r) /\ lane' <= MaxLane
  /\ jobs' = jobs - Thread(task[t]) + Thread(r)
  /\ r.pc = "run" => At({"run"}) \subseteq {t}

World == UNCHANGED <<up, gen, envVars>>

(* The sources, the cutoff and the tariff only move forward. *)
Forward ==
  /\ source' \in source .. MaxSource /\ cutoff' \in cutoff .. MaxCutoff /\ revision' \in revision .. MaxRevision

(* What a step may do to the shared snapshot and the history. *)
SnapInv == snap \in SnapType /\ StoppedIsSilent /\ TicksTell /\ Told /\ stale = FALSE

LEMMA IdleFacts == Idle.pc = "idle" /\ Idle.kind = "none" /\ Idle \notin Active
BY DEF Idle, Active, Kinds, Refreshes

LEMMA WorldIsForward == ASSUME TypeOK, World PROVE Forward /\ UNCHANGED <<up, gen>>
BY SnapshotAssumption DEF TypeOK, World, Forward, envVars

(* What was a record of a task stays one. *)
LEMMA ActiveGrows == ASSUME TypeOK, Forward PROVE Active \subseteq Active'
<1>1. 0 .. source \subseteq 0 .. source' /\ 0 .. cutoff \subseteq 0 .. cutoff' /\ 0 .. revision \subseteq 0 .. revision'
  BY SnapshotAssumption DEF TypeOK, Forward
<1> QED
  BY <1>1 DEF Active

LEMMA LaneMoves ==
  ASSUME task \in [Tasks -> {Idle} \cup Active], NEW t \in Tasks, NEW r, NEW P,
         task' = [task EXCEPT ![t] = r]
  PROVE  /\ At(P)' = IF r.pc \in P THEN At(P) \cup {t} ELSE At(P) \ {t}
         /\ t \in At(P) <=> task[t].pc \in P
BY DEF At

LEMMA LaneCounts ==
  ASSUME TypeOK, NEW t \in Tasks, NEW r, task' = [task EXCEPT ![t] = r]
  PROVE  /\ Cardinality(InLane)' = Cardinality(InLane) - Lane(task[t]) + Lane(r)
         /\ Cardinality(InLane) \in Nat
<1> DEFINE L == {"lane", "run"}
<1>1. IsFiniteSet(At(L)) /\ Cardinality(At(L)) \in Nat
  BY SnapshotAssumption, FS_Subset, FS_CardinalityType DEF At
<1>2. At(L)' = IF r.pc \in L THEN At(L) \cup {t} ELSE At(L) \ {t}
  BY LaneMoves DEF TypeOK
<1>3. t \in At(L) <=> task[t].pc \in L
  BY LaneMoves DEF TypeOK
<1>4. Cardinality(At(L) \cup {t}) = IF t \in At(L) THEN Cardinality(At(L)) ELSE Cardinality(At(L)) + 1
  BY <1>1, FS_AddElement
<1>5. Cardinality(At(L) \ {t}) = IF t \in At(L) THEN Cardinality(At(L)) - 1 ELSE Cardinality(At(L))
  BY <1>1, FS_RemoveElement
<1>6. Cardinality(At(L)') = Cardinality(At(L)) - Lane(task[t]) + Lane(r)
  BY <1>1, <1>2, <1>3, <1>4, <1>5 DEF Lane
<1> QED
  BY <1>1, <1>6 DEF InLane

LEMMA ThreadMoves ==
  ASSUME SnapshotInv, NEW t \in Tasks, NEW r, Moves(t, r)
  PROVE  Threads'
<1>1. At({"run"})' = IF r.pc \in {"run"} THEN At({"run"}) \cup {t} ELSE At({"run"}) \ {t}
  BY LaneMoves DEF Moves, SnapshotInv, TypeOK
<1>2. t \in At({"run"}) <=> task[t].pc \in {"run"}
  BY LaneMoves DEF Moves, SnapshotInv, TypeOK
<1>3. CASE task[t].pc = "run"
  BY <1>1, <1>2, <1>3 DEF SnapshotInv, Threads, Moves, Thread
<1>4. CASE task[t].pc # "run"
  BY <1>1, <1>2, <1>4 DEF SnapshotInv, Threads, Moves, Thread
<1> QED
  BY <1>3, <1>4

(* A task's step keeps the invariant if the snapshot keeps its part of it. *)
LEMMA MoveKeeps ==
  ASSUME SnapshotInv, NEW t \in Tasks, NEW r, Moves(t, r), Forward, UNCHANGED <<up, gen>>, SnapInv'
  PROVE  SnapshotInv'
<1>1. Threads'
  BY ThreadMoves
<1>2. lane' = Cardinality(InLane)' /\ lane' <= MaxLane
  BY LaneCounts DEF SnapshotInv, TypeOK, Moves
<1>3. Active \subseteq Active'
  BY ActiveGrows DEF SnapshotInv
<1>4. task' \in [Tasks -> {Idle} \cup Active]
  BY DEF Moves, SnapshotInv, TypeOK
<1>5. \A u \in Tasks : task'[u] # Idle => ReadInOrder(task'[u])
  BY DEF Moves, SnapshotInv, TypeOK
<1>6. source' \in 0 .. MaxSource /\ cutoff' \in 0 .. MaxCutoff /\ revision' \in 0 .. MaxRevision
  BY SnapshotAssumption DEF SnapshotInv, TypeOK, Forward
<1>7. task' \in [Tasks -> {Idle} \cup Active']
  BY <1>3, <1>4
<1>8. TypeOK'
  BY <1>2, <1>6, <1>7 DEF SnapshotInv, TypeOK, SnapInv
<1>9. (\A u \in Tasks : task[u] # Idle => ReadInOrder(task[u]))'
  BY <1>5 DEF ReadInOrder
<1> QED
  BY <1>1, <1>8, <1>9 DEF SnapshotInv, SnapInv, NothingStale

(***************************************************************************)
(* The snapshot under failures.                                             *)
(***************************************************************************)
LEMMA InvalidateFacts ==
  ASSUME NEW s \in SnapType
  PROVE  /\ Invalidate(s) \in SnapType
         /\ Invalidate(s).invalidated = TRUE
         /\ Invalidate(s).purged = s.purged /\ Invalidate(s).key = s.key
         /\ Invalidate(s).told = s.told /\ Invalidate(s).last = s.last
BY DEF Invalidate, SnapType

LEMMA PurgeFacts ==
  ASSUME NEW s \in SnapType, s.invalidated, s.purged => s.told = Purged
  PROVE  /\ Purge(s) \in SnapType
         /\ Purge(s).purged = TRUE /\ Purge(s).invalidated = TRUE
         /\ Purge(s).told = Purged /\ Purge(s).last = Purged
BY DEF Purge, SnapType, Outcomes

LEMMA AcceptFacts ==
  ASSUME NEW s \in SnapType, s.data \in Key, ~s.invalidated /\ ~s.purged => s.told = s.key
  PROVE  /\ Accept(s) \in SnapType
         /\ Accept(s).purged = FALSE
         /\ Accept(s).told = Accept(s).key /\ Accept(s).last = Accept(s).told
BY DEF Accept, SnapType, Outcomes, Key

(* A failing task leaves the snapshot, withdraws it or purges it. *)
LEMMA FailKeepsSnap ==
  ASSUME SnapInv, NEW t \in Tasks, NEW s \in {snap, Withdrawn(t)},
         snap' = AfterFailure(t, s), stale' = stale, up' = up
  PROVE  SnapInv'
<1>1. CASE snap' = snap
  BY <1>1 DEF SnapInv, StoppedIsSilent, TicksTell, Told, SnapType, Key, Outcomes
<1>2. CASE snap' = Invalidate(snap) /\ up
  BY <1>2, InvalidateFacts DEF SnapInv, StoppedIsSilent, TicksTell, Told, SnapType, Key, Outcomes
<1>3. ASSUME up, NEW q \in {snap, Invalidate(snap)}, snap' = Purge(Invalidate(q))
      PROVE SnapInv'
  <2>1. q \in SnapType /\ (q.purged => q.told = Purged)
    BY <1>3, InvalidateFacts DEF SnapInv, Told
  <2>2. Invalidate(q) \in SnapType /\ Invalidate(q).invalidated
        /\ (Invalidate(q).purged => Invalidate(q).told = Purged)
    BY <2>1, InvalidateFacts
  <2>3. /\ Purge(Invalidate(q)) \in SnapType
        /\ Purge(Invalidate(q)).purged = TRUE /\ Purge(Invalidate(q)).invalidated = TRUE
        /\ Purge(Invalidate(q)).told = Purged /\ Purge(Invalidate(q)).last = Purged
    BY <2>2, PurgeFacts
  <2> QED
    BY <1>3, <2>3 DEF SnapInv, StoppedIsSilent, TicksTell, Told, SnapType, Key, Outcomes
<1>4. \/ snap' = snap
      \/ snap' = Invalidate(snap) /\ up
      \/ up /\ \E q \in {snap, Invalidate(snap)} : snap' = Purge(Invalidate(q))
  BY DEF AfterFailure, Withdrawn, Running
<1> QED
  BY <1>1, <1>2, <1>3, <1>4

(***************************************************************************)
(* The ways a task's step ends.                                             *)
(***************************************************************************)
LEMMA LaneSize == ASSUME TypeOK PROVE lane \in Nat
<1>1. IsFiniteSet(InLane)
  BY SnapshotAssumption, FS_Subset DEF InLane, At
<1> QED
  BY <1>1, FS_CardinalityType DEF TypeOK

LEMMA FailMove ==
  ASSUME SnapshotInv, World, NEW t \in Tasks, NEW s \in {snap, Withdrawn(t)}, Fails(t, s),
         lane' = lane - Lane(task[t]), jobs' = jobs - Thread(task[t])
  PROVE  SnapshotInv'
<1>1. Lane(Idle) = 0 /\ Thread(Idle) = 0 /\ Lane(task[t]) \in {0, 1} /\ Thread(task[t]) \in {0, 1}
  BY IdleFacts DEF Lane, Thread
<1>2. lane' <= MaxLane /\ lane' = lane - Lane(task[t]) + Lane(Idle)
  BY <1>1, LaneSize, SnapshotAssumption DEF SnapshotInv, TypeOK
<1>3. jobs' = jobs - Thread(task[t]) + Thread(Idle)
  BY <1>1 DEF SnapshotInv, Threads
<1>4. Moves(t, Idle)
  BY <1>2, <1>3, IdleFacts DEF Moves, Fails
<1>5. SnapInv'
  BY FailKeepsSnap DEF SnapshotInv, SnapInv, TypeOK, NothingStale, Fails, World
<1>6. Forward /\ UNCHANGED <<up, gen>>
  BY WorldIsForward DEF SnapshotInv
<1> QED
  BY <1>4, <1>5, <1>6, MoveKeeps

LEMMA SameSnap == SnapshotInv /\ UNCHANGED <<up, snap, stale>> => SnapInv'
BY DEF SnapshotInv, SnapInv, TypeOK, NothingStale, StoppedIsSilent, TicksTell, Told, SnapType, Key, Outcomes

LEMMA BecomeMove ==
  ASSUME SnapshotInv, World, NEW t \in Tasks, NEW r, Becomes(t, r),
         r = Idle \/ (r \in Active /\ ReadInOrder(r)),
         lane' = lane - Lane(task[t]) + Lane(r), lane' <= MaxLane,
         jobs' = jobs - Thread(task[t]) + Thread(r),
         r.pc = "run" => At({"run"}) \subseteq {t}
  PROVE  SnapshotInv'
<1>1. Moves(t, r) /\ SnapInv'
  BY SameSnap DEF Becomes, Moves, World
<1>2. Forward /\ UNCHANGED <<up, gen>>
  BY WorldIsForward DEF SnapshotInv
<1> QED
  BY <1>1, <1>2, MoveKeeps

(* A task that was not calculating waits for the lane, or finds it full. *)
LEMMA LaneMove ==
  ASSUME SnapshotInv, World, NEW t \in Tasks, NEW r \in Active, ToLane(t, r, lane - Lane(task[t])),
         jobs' = jobs - Thread(task[t]),
         r.kind # "price" /\ r.stage \in {"last", "own"} => r.src <= r.built,
         r.kind # "price" /\ r.stage = "last" => r.built <= r.seen
  PROVE  SnapshotInv'
<1>1. Lane(task[t]) \in {0, 1} /\ Thread(task[t]) \in {0, 1} /\ lane \in Nat /\ jobs \in Nat /\ MaxLane \in Nat
  BY LaneSize, SnapshotAssumption DEF Lane, Thread, SnapshotInv, Threads
<1>2. CASE lane - Lane(task[t]) >= MaxLane
  BY <1>1, <1>2, FailMove DEF ToLane
<1>3. CASE ~(lane - Lane(task[t]) >= MaxLane)
  <2> DEFINE q == [r EXCEPT !.pc = "lane"]
  <2>1. q \in Active /\ q.pc = "lane" /\ ReadInOrder(q)
    BY DEF Active, ReadInOrder
  <2> HIDE DEF q
  <2>2. Lane(q) = 1 /\ Thread(q) = 0
    BY <2>1 DEF Lane, Thread
  <2>3. Becomes(t, q) /\ lane' = lane - Lane(task[t]) + 1
    BY <1>3 DEF ToLane, q
  <2>4. lane' = lane - Lane(task[t]) + Lane(q) /\ lane' <= MaxLane /\ jobs' = jobs - Thread(task[t]) + Thread(q)
    BY <1>1, <1>3, <2>2, <2>3
  <2> QED
    BY <2>1, <2>3, <2>4, BecomeMove
<1> QED
  BY <1>2, <1>3

(* A task that keeps out of the lane. *)
LEMMA OutsideMove ==
  ASSUME SnapshotInv, World, NEW t \in Tasks, NEW r, Becomes(t, r),
         r = Idle \/ (r \in Active /\ ReadInOrder(r)),
         r.pc \notin {"lane", "run"}, task[t].pc \notin {"lane", "run"}, UNCHANGED <<lane, jobs>>
  PROVE  SnapshotInv'
<1>1. Lane(task[t]) = 0 /\ Lane(r) = 0 /\ Thread(task[t]) = 0 /\ Thread(r) = 0
  BY DEF Lane, Thread
<1>2. lane \in Nat /\ jobs \in Nat /\ lane <= MaxLane
  BY LaneSize DEF SnapshotInv, Threads, TypeOK
<1> QED
  BY <1>1, <1>2, BecomeMove

LEMMA OutsideFails ==
  ASSUME SnapshotInv, World, NEW t \in Tasks, NEW s \in {snap, Withdrawn(t)}, Fails(t, s),
         task[t].pc \notin {"lane", "run"}, UNCHANGED <<lane, jobs>>
  PROVE  SnapshotInv'
<1>1. Lane(task[t]) = 0 /\ Thread(task[t]) = 0 /\ lane \in Nat /\ jobs \in Nat
  BY LaneSize DEF Lane, Thread, SnapshotInv, Threads
<1> QED
  BY <1>1, FailMove

(* What a task may read now. *)
LEMMA Readable ==
  ASSUME SnapshotInv
  PROVE  /\ source \in 0 .. source /\ cutoff \in 0 .. cutoff /\ revision \in 0 .. revision
         /\ gen \in 1 .. MaxGen /\ up \in BOOLEAN
BY SnapshotAssumption DEF SnapshotInv, TypeOK

LEMMA ActiveTask ==
  ASSUME SnapshotInv, NEW t \in Tasks, task[t].pc # "idle"
  PROVE  task[t] \in Active /\ ReadInOrder(task[t])
BY IdleFacts DEF SnapshotInv, TypeOK

(***************************************************************************)
(* The steps.                                                               *)
(***************************************************************************)
LEMMA BeginsStep == ASSUME SnapshotInv, NEW t \in Tasks, NEW k \in Kinds, Begins(t, k) PROVE SnapshotInv'
<1>1. NewTask(k) \in Active /\ NewTask(k).pc \notin {"lane", "run", "fence"} /\ NewTask(k).stage = "first"
  BY DEF NewTask, Active, SnapshotInv, TypeOK, Stages
<1>2. ReadInOrder(NewTask(k))
  BY <1>1 DEF ReadInOrder
<1> QED
  BY <1>1, <1>2, IdleFacts, OutsideMove DEF Begins, World

LEMMA ToStoreStep ==
  ASSUME SnapshotInv, World, NEW t \in Tasks, NEW r \in Active, ToStore(t, r),
         task[t].pc \notin {"lane", "run"}, UNCHANGED <<lane, jobs>>,
         r.kind # "price" /\ r.stage \in {"last", "own"} => r.src <= r.built,
         r.kind # "price" /\ r.stage = "last" => r.built <= r.seen
  PROVE  SnapshotInv'
<1> DEFINE q == [r EXCEPT !.pc = "store"]
<1>1. q \in Active /\ q.pc = "store" /\ ReadInOrder(q)
  BY DEF Active, ReadInOrder
<1>2. Fails(t, snap) \/ Becomes(t, q)
  BY DEF ToStore
<1> HIDE DEF q
<1> QED
  BY <1>1, <1>2, OutsideMove, OutsideFails

LEMMA CoordLocksStep == ASSUME SnapshotInv, NEW t \in Tasks, CoordLocks(t) PROVE SnapshotInv'
<1>1. task[t].pc = "coord" /\ task[t] \in Active /\ ReadInOrder(task[t])
  BY ActiveTask DEF CoordLocks
<1>2. World /\ UNCHANGED <<lane, jobs>>
  BY DEF CoordLocks, World
<1>3. CASE ~Running(task[t].co)
  BY <1>1, <1>2, <1>3, OutsideFails DEF CoordLocks
<1> DEFINE p == [task[t] EXCEPT !.pc = "store"]
<1> DEFINE q == [task[t] EXCEPT !.pc = "measure", !.src = source, !.cut = cutoff]
<1>4. p \in Active /\ p.pc = "store" /\ ReadInOrder(p)
  BY <1>1 DEF Active, ReadInOrder
<1>5. CASE Running(task[t].co) /\ task[t].kind = "price"
  BY <1>1, <1>2, <1>4, <1>5, OutsideMove DEF CoordLocks
<1>6. CASE Running(task[t].co) /\ task[t].kind # "price"
  <2>0. task[t].stage = "first"
    BY <1>1 DEF ReadInOrder
  <2>1. q \in Active /\ q.pc = "measure" /\ q.stage = "first"
    BY <1>1, <2>0, Readable DEF Active
  <2>2. ReadInOrder(q)
    BY <2>1 DEF ReadInOrder
  <2>3. Becomes(t, q)
    BY <1>6, Zenon DEF CoordLocks
  <2> QED
    BY <1>1, <1>2, <2>1, <2>2, <2>3, OutsideMove
<1> QED
  BY <1>3, <1>5, <1>6

LEMMA MeasuredStep ==
  ASSUME SnapshotInv, NEW t \in Tasks, NEW cached, NEW ok, Measured(t, cached, ok)
  PROVE  SnapshotInv'
<1>1. task[t].pc = "measure" /\ task[t] \in Active /\ ReadInOrder(task[t])
  BY ActiveTask DEF Measured
<1>2. World /\ UNCHANGED <<lane, jobs>>
  BY DEF Measured, World
<1>3. Fails(t, snap) \/ Fails(t, Withdrawn(t)) \/ ToStore(t, task[t])
  BY Zenon DEF Measured
<1>4. CASE Fails(t, snap) \/ Fails(t, Withdrawn(t))
  BY <1>1, <1>2, <1>4, OutsideFails
<1>5. CASE ToStore(t, task[t])
  BY <1>1, <1>2, <1>5, ToStoreStep DEF ReadInOrder
<1> QED
  BY <1>3, <1>4, <1>5

LEMMA ReadsTariffStep == ASSUME SnapshotInv, NEW t \in Tasks, ReadsTariff(t) PROVE SnapshotInv'
<1>1. task[t].pc = "store" /\ task[t] \in Active /\ ReadInOrder(task[t])
  BY ActiveTask DEF ReadsTariff
<1>2. World /\ UNCHANGED jobs /\ Lane(task[t]) = 0 /\ Thread(task[t]) = 0 /\ lane \in Nat /\ jobs \in Nat
  BY <1>1, LaneSize DEF ReadsTariff, World, Lane, Thread, SnapshotInv, Threads
<1> DEFINE p == [task[t] EXCEPT !.stage = "build", !.rev = revision]
<1> DEFINE q == [task[t] EXCEPT !.via = gen,
                                !.rev = IF task[t].stage = "first" THEN revision ELSE @,
                                !.again = IF task[t].stage = "last" THEN revision ELSE @]
<1>3. p \in Active /\ p.stage = "build"
  BY <1>1, Readable DEF Active, Stages
<1>4. q \in Active /\ q.stage = task[t].stage /\ q.kind = task[t].kind /\ q.src = task[t].src
      /\ q.built = task[t].built /\ q.seen = task[t].seen
  BY <1>1, Readable DEF Active
<1>5. \/ ToLane(t, p, lane)
      \/ ToLane(t, q, lane)
      \/ Fails(t, snap) /\ UNCHANGED lane
      \/ PriceCurrent(t) /\ Serves(t, snap, Idle, revision = task[t].rev) /\ UNCHANGED lane
  BY Zenon DEF ReadsTariff
<1>6. CASE ToLane(t, p, lane)
  <2> HIDE DEF p
  <2> QED
    BY <1>2, <1>3, <1>6, LaneMove
<1>7. CASE ToLane(t, q, lane)
  <2> HIDE DEF q
  <2>1. q.kind # "price" /\ q.stage \in {"last", "own"} => q.src <= q.built
    BY <1>1, <1>4 DEF ReadInOrder
  <2>2. q.kind # "price" /\ q.stage = "last" => q.built <= q.seen
    BY <1>1, <1>4 DEF ReadInOrder
  <2> QED
    BY <1>2, <1>4, <1>7, <2>1, <2>2, LaneMove
<1>8. CASE Fails(t, snap) /\ UNCHANGED lane
  BY <1>1, <1>2, <1>8, OutsideFails
<1>9. CASE PriceCurrent(t) /\ Serves(t, snap, Idle, revision = task[t].rev) /\ UNCHANGED lane
  <2>1. stale' = stale
    <3>1. revision = task[t].rev /\ stale' = (stale \/ ~(revision = task[t].rev))
      BY <1>9 DEF PriceCurrent, Serves
    <3>2. stale = FALSE
      BY DEF SnapshotInv, TypeOK, NothingStale
    <3> QED
      BY <3>1, <3>2
  <2>2. Becomes(t, Idle)
    BY <1>9, <2>1 DEF Serves, Becomes
  <2> QED
    BY <1>1, <1>2, <1>9, <2>2, IdleFacts, OutsideMove
<1> QED
  BY <1>5, <1>6, <1>7, <1>8, <1>9

LEMMA EditLocksStep == ASSUME SnapshotInv, NEW t \in Tasks, EditLocks(t) PROVE SnapshotInv'
<1>1. task[t].pc = "store" /\ task[t] \in Active /\ ReadInOrder(task[t])
  BY ActiveTask DEF EditLocks
<1>2. World /\ UNCHANGED jobs /\ Lane(task[t]) = 0 /\ Thread(task[t]) = 0 /\ lane \in Nat /\ jobs \in Nat
  BY <1>1, LaneSize DEF EditLocks, World, Lane, Thread, SnapshotInv, Threads
<1> DEFINE q == [task[t] EXCEPT !.via = gen]
<1>3. q \in Active /\ q.stage = task[t].stage /\ q.kind = task[t].kind /\ q.src = task[t].src
      /\ q.built = task[t].built /\ q.seen = task[t].seen
  BY <1>1, Readable DEF Active
<1>4. ToLane(t, q, lane) \/ (Fails(t, snap) /\ UNCHANGED lane)
  BY Zenon DEF EditLocks
<1>5. CASE ToLane(t, q, lane)
  <2> HIDE DEF q
  <2>1. q.kind # "price" /\ q.stage \in {"last", "own"} => q.src <= q.built
    BY <1>1, <1>3 DEF ReadInOrder
  <2>2. q.kind # "price" /\ q.stage = "last" => q.built <= q.seen
    BY <1>1, <1>3 DEF ReadInOrder
  <2> QED
    BY <1>2, <1>3, <1>5, <2>1, <2>2, LaneMove
<1>6. CASE Fails(t, snap) /\ UNCHANGED lane
  BY <1>1, <1>2, <1>6, OutsideFails
<1> QED
  BY <1>4, <1>5, <1>6

LEMMA LaneLocksStep == ASSUME SnapshotInv, NEW t \in Tasks, LaneLocks(t) PROVE SnapshotInv'
<1>1. task[t].pc = "lane" /\ task[t] \in Active /\ ReadInOrder(task[t])
  BY ActiveTask DEF LaneLocks
<1>2. World /\ At({"run"}) = {} /\ Lane(task[t]) = 1 /\ Thread(task[t]) = 0
      /\ lane \in Nat /\ lane <= MaxLane /\ jobs \in Nat
  BY <1>1, LaneSize DEF LaneLocks, CpuHeld, World, Lane, Thread, SnapshotInv, Threads, TypeOK
<1> DEFINE q == [task[t] EXCEPT !.pc = "run"]
<1>3. q \in Active /\ q.pc = "run" /\ ReadInOrder(q)
  BY <1>1 DEF Active, ReadInOrder
<1>4. \/ Becomes(t, q) /\ jobs' = jobs + 1 /\ lane' = lane
      \/ Fails(t, snap) /\ lane' = lane - 1 /\ jobs' = jobs
  BY Zenon DEF LaneLocks
<1>5. CASE Becomes(t, q) /\ jobs' = jobs + 1 /\ lane' = lane
  <2> HIDE DEF q
  <2>1. Lane(q) = 1 /\ Thread(q) = 1
    BY <1>3 DEF Lane, Thread
  <2>2. lane' = lane - Lane(task[t]) + Lane(q) /\ jobs' = jobs - Thread(task[t]) + Thread(q) /\ lane' <= MaxLane
    BY <1>2, <1>5, <2>1
  <2> QED
    BY <1>2, <1>3, <1>5, <2>2, BecomeMove
<1>6. CASE Fails(t, snap) /\ lane' = lane - 1 /\ jobs' = jobs
  BY <1>2, <1>6, FailMove
<1> QED
  BY <1>4, <1>5, <1>6

(* The answer is of what is current, and the cards are told what the tick found. *)
LEMMA PublishesStep ==
  ASSUME SnapshotInv, World, NEW t \in Tasks, task[t] \in Active, ReadInOrder(task[t]), task[t].pc = "run",
         task[t].stage = "last", task[t].kind \in Refreshes, Running(task[t].co),
         FenceHolds(t), Publishes(t), jobs' = jobs - 1
  PROVE  SnapshotInv'
<1> DEFINE published == [snap EXCEPT !.data = Result(t)]
<1> DEFINE q == [task[t] EXCEPT !.pc = "lane", !.stage = "own", !.via = task[t].co]
<1> DEFINE current == revision = task[t].rev /\ cutoff = task[t].cut /\ task[t].built = task[t].src
<1>1. /\ Lane(task[t]) = 1 /\ Thread(task[t]) = 1 /\ Lane(Idle) = 0 /\ Thread(Idle) = 0
      /\ lane \in Nat /\ lane <= MaxLane /\ MaxLane \in Nat /\ jobs \in Nat
  BY LaneSize, IdleFacts, SnapshotAssumption DEF Lane, Thread, SnapshotInv, Threads, TypeOK
<1>2. task[t].src <= task[t].built /\ task[t].built <= task[t].seen /\ task[t].seen = task[t].src
  BY DEF ReadInOrder, FenceHolds, Refreshes
<1>3. task[t].src \in 0 .. source /\ task[t].built \in 0 .. source /\ task[t].seen \in 0 .. source /\ source \in Nat
  BY DEF Active, SnapshotInv, TypeOK
<1>4. current
  BY <1>2, <1>3 DEF FenceHolds
<1>5. Result(t) \in Key
  BY SnapshotAssumption DEF Result, Key, Active, SnapshotInv, TypeOK
<1>6. snap \in SnapType /\ (~snap.invalidated /\ ~snap.purged => snap.told = snap.key)
      /\ (snap.purged => snap.told = Purged) /\ snap.told = snap.last
  BY DEF SnapshotInv, TypeOK, Told, TicksTell
<1>7. /\ published \in SnapType /\ published.data \in Key
      /\ published.invalidated = snap.invalidated /\ published.purged = snap.purged
      /\ published.key = snap.key /\ published.told = snap.told /\ published.last = snap.last
  BY <1>5, <1>6 DEF SnapType
<1> HIDE DEF published
<1>8. up
  BY DEF Running
<1>9. stale = FALSE
  BY DEF SnapshotInv, TypeOK, NothingStale
<1>10. ASSUME NEW r, r = Idle \/ (r \in Active /\ ReadInOrder(r)), r.pc # "run",
              NEW s \in {published, Accept(published)}, Serves(t, s, r, current),
              lane' = lane - 1 + Lane(r)
       PROVE  SnapshotInv'
  <2>1. snap' = s /\ task' = [task EXCEPT ![t] = r]
    BY <1>10, Zenon DEF Serves
  <2>2. stale' = FALSE
    <3>1. stale' = (stale \/ ~current)
      BY <1>10, Zenon DEF Serves
    <3> HIDE DEF current
    <3> QED
      BY <1>4, <1>9, <3>1, Zenon
  <2>3. ASSUME s = published PROVE SnapInv'
    BY <1>6, <1>7, <1>8, <2>1, <2>2, <2>3
       DEF SnapInv, StoppedIsSilent, TicksTell, Told, World, SnapType, Key, Outcomes
  <2>4. ASSUME s = Accept(published) PROVE SnapInv'
    <3>1. /\ s \in SnapType /\ s.purged = FALSE /\ s.told = s.key /\ s.last = s.told
      BY <1>6, <1>7, <2>4, AcceptFacts
    <3> QED
      BY <1>8, <2>1, <2>2, <3>1
         DEF SnapInv, StoppedIsSilent, TicksTell, Told, World, SnapType, Key, Outcomes
  <2>5. Lane(r) \in {0, 1} /\ Thread(r) = 0
    BY <1>10 DEF Lane, Thread
  <2>6. lane' = lane - Lane(task[t]) + Lane(r) /\ lane' <= MaxLane /\ jobs' = jobs - Thread(task[t]) + Thread(r)
    BY <1>1, <1>10, <2>5
  <2>7. Moves(t, r)
    BY <1>10, <2>1, <2>6 DEF Moves
  <2>8. Forward /\ UNCHANGED <<up, gen>>
    BY WorldIsForward DEF SnapshotInv
  <2>9. SnapInv'
    BY <1>10, <2>3, <2>4
  <2> QED
    BY <2>7, <2>8, <2>9, MoveKeeps
<1>11. /\ q \in Active /\ q.pc = "lane" /\ q.stage = "own"
       /\ q.src = task[t].src /\ q.built = task[t].built
  BY DEF Active, Stages
<1>12. \/ Serves(t, published, q, current) /\ lane' = lane
       \/ \E s \in {published, Accept(published)} : Serves(t, s, Idle, current) /\ lane' = lane - 1
  BY Zenon DEF Publishes, published
<1>13. CASE Serves(t, published, q, current) /\ lane' = lane
  <2> HIDE DEF q
  <2>1. ReadInOrder(q) /\ Lane(q) = 1
    BY <1>2, <1>11 DEF ReadInOrder, Lane
  <2>2. lane' = lane - 1 + Lane(q)
    BY <1>1, <1>13, <2>1
  <2> HIDE DEF current
  <2> QED
    BY <1>10, <1>11, <1>13, <2>1, <2>2
<1>14. CASE \E s \in {published, Accept(published)} : Serves(t, s, Idle, current) /\ lane' = lane - 1
  <2>1. PICK s \in {published, Accept(published)} : Serves(t, s, Idle, current) /\ lane' = lane - 1
    BY <1>14
  <2>2. lane' = lane - 1 + Lane(Idle) /\ Idle.pc # "run"
    BY <1>1, <2>1, IdleFacts
  <2> HIDE DEF current
  <2> QED
    BY <1>10, <2>1, <2>2
<1> QED
  BY <1>12, <1>13, <1>14

LEMMA JobEndsStep == ASSUME SnapshotInv, NEW t \in Tasks, JobEnds(t) PROVE SnapshotInv'
<1>1. task[t].pc = "run" /\ task[t] \in Active /\ ReadInOrder(task[t]) /\ jobs' = jobs - 1 /\ World
  BY ActiveTask DEF JobEnds, World
<1>2. /\ Lane(task[t]) = 1 /\ Thread(task[t]) = 1 /\ Lane(Idle) = 0 /\ Thread(Idle) = 0
      /\ lane \in Nat /\ lane <= MaxLane /\ MaxLane \in Nat /\ jobs \in Nat
  BY <1>1, LaneSize, IdleFacts, SnapshotAssumption DEF Lane, Thread, SnapshotInv, Threads, TypeOK
(* Out of the lane. *)
<1>3. ASSUME NEW r, Becomes(t, r), lane' = lane - 1, r = Idle \/ (r \in Active /\ ReadInOrder(r)),
             r.pc \notin {"lane", "run"}
      PROVE  SnapshotInv'
  <2>1. Lane(r) = 0 /\ Thread(r) = 0
    BY <1>3 DEF Lane, Thread
  <2>2. lane' = lane - Lane(task[t]) + Lane(r) /\ lane' <= MaxLane /\ jobs' = jobs - Thread(task[t]) + Thread(r)
    BY <1>1, <1>2, <1>3, <2>1
  <2> QED
    BY <1>1, <1>3, <2>2, BecomeMove
<1>4. CASE task[t].cancelled
  <2>1. Becomes(t, Idle) /\ lane' = lane - 1
    BY <1>4, Zenon DEF JobEnds, Becomes
  <2> QED
    BY <1>3, <2>1, IdleFacts
<1>5. ASSUME NEW s \in {snap, Withdrawn(t)}, Fails(t, s), lane' = lane - 1 PROVE SnapshotInv'
  BY <1>1, <1>2, <1>5, FailMove
<1> DEFINE w == [task[t] EXCEPT !.pc = "write"]
<1> DEFINE b == [task[t] EXCEPT !.stage = "build", !.via = task[t].co]
<1> DEFINE l == [task[t] EXCEPT !.pc = "store", !.stage = "last"]
<1> DEFINE f == [task[t] EXCEPT !.pc = "fence", !.built = source]
<1>6. CASE Becomes(t, w) /\ lane' = lane - 1
  <2>1. w \in Active /\ w.pc = "write" /\ ReadInOrder(w)
    BY <1>1 DEF Active, ReadInOrder
  <2> HIDE DEF w
  <2> QED
    BY <1>3, <1>6, <2>1
<1>7. CASE ToLane(t, b, lane - 1)
  <2>1. b \in Active /\ b.stage = "build"
    BY <1>1 DEF Active, Stages
  <2> HIDE DEF b
  <2>2. ToLane(t, b, lane - Lane(task[t])) /\ jobs' = jobs - Thread(task[t])
    BY <1>1, <1>2, <1>7
  <2> QED
    BY <1>1, <2>1, <2>2, LaneMove
<1>8. CASE task[t].kind = "price" /\ Becomes(t, l) /\ lane' = lane - 1
  <2>1. l \in Active /\ l.pc = "store" /\ ReadInOrder(l)
    BY <1>1, <1>8 DEF Active, Stages, ReadInOrder
  <2> HIDE DEF l
  <2> QED
    BY <1>3, <1>8, <2>1
<1>9. CASE task[t].kind \in Refreshes /\ task[t].stage \in {"build", "own"} /\ Becomes(t, f) /\ lane' = lane - 1
  <2>1. f \in Active /\ f.pc = "fence" /\ f.stage = task[t].stage /\ f.src = task[t].src /\ f.built = source
    BY <1>1, Readable DEF Active
  <2>2. task[t].src \in 0 .. source
    BY <1>1 DEF Active
  <2>3. ReadInOrder(f)
    BY <1>9, <2>1, <2>2 DEF ReadInOrder
  <2> HIDE DEF f
  <2> QED
    BY <1>3, <1>9, <2>1, <2>3
<1>10. CASE task[t].kind \in Refreshes /\ task[t].stage = "last" /\ Running(task[t].co) /\ FenceHolds(t) /\ Publishes(t)
  BY <1>1, <1>10, PublishesStep
<1>11. \/ task[t].cancelled
       \/ Fails(t, snap) /\ lane' = lane - 1
       \/ Fails(t, Withdrawn(t)) /\ lane' = lane - 1
       \/ Becomes(t, w) /\ lane' = lane - 1
       \/ ToLane(t, b, lane - 1)
       \/ task[t].kind = "price" /\ Becomes(t, l) /\ lane' = lane - 1
       \/ task[t].kind \in Refreshes /\ task[t].stage \in {"build", "own"} /\ Becomes(t, f) /\ lane' = lane - 1
       \/ task[t].kind \in Refreshes /\ task[t].stage = "last" /\ Running(task[t].co) /\ FenceHolds(t) /\ Publishes(t)
  <2> HIDE DEF w, b, l, f
  <2>1. CASE task[t].cancelled
    BY <2>1
  <2>2. CASE ~task[t].cancelled /\ (~Running(task[t].via) \/ (task[t].kind # "edit" /\ ~Running(task[t].co)))
    BY <2>2, Zenon DEF JobEnds
  <2>3. CASE ~task[t].cancelled /\ ~(~Running(task[t].via) \/ (task[t].kind # "edit" /\ ~Running(task[t].co)))
    <3>1. "edit" \notin Refreshes
      BY DEF Refreshes
    <3> QED
      BY <2>3, <3>1, Zenon DEF JobEnds, w, b, l, f
  <2> QED
    BY <2>1, <2>2, <2>3
<1> HIDE DEF w, b, l, f
<1> QED
  BY <1>4, <1>5, <1>6, <1>7, <1>8, <1>9, <1>10, <1>11

LEMMA FencesStep == ASSUME SnapshotInv, NEW t \in Tasks, Fences(t) PROVE SnapshotInv'
<1>1. task[t].pc = "fence" /\ task[t] \in Active /\ ReadInOrder(task[t])
  BY ActiveTask DEF Fences
<1>2. World /\ UNCHANGED <<lane, jobs>>
  BY DEF Fences, World
<1>3. task[t].src \in 0 .. source /\ task[t].built \in 0 .. source /\ source \in Nat /\ task[t].src <= task[t].built
  BY <1>1 DEF Active, ReadInOrder, SnapshotInv, TypeOK
<1> DEFINE q == [task[t] EXCEPT !.stage = "last", !.seen = source]
<1>4. \/ ToStore(t, q)
      \/ Fails(t, snap)
      \/ Fails(t, Withdrawn(t))
      \/ source = task[t].src /\ Serves(t, snap, Idle, task[t].built = task[t].src)
  BY Zenon DEF Fences
<1>5. CASE ToStore(t, q)
  <2>1. q \in Active /\ q.stage = "last" /\ q.src = task[t].src /\ q.built = task[t].built /\ q.seen = source
    BY <1>1, Readable DEF Active, Stages
  <2> HIDE DEF q
  <2>2. q.src <= q.built /\ q.built <= q.seen
    BY <1>3, <2>1
  <2> QED
    BY <1>1, <1>2, <1>5, <2>1, <2>2, ToStoreStep
<1>6. CASE Fails(t, snap) \/ Fails(t, Withdrawn(t))
  BY <1>1, <1>2, <1>6, OutsideFails
<1>7. CASE source = task[t].src /\ Serves(t, snap, Idle, task[t].built = task[t].src)
  <2>1. task[t].built = task[t].src
    BY <1>3, <1>7
  <2>2. stale = FALSE
    BY DEF SnapshotInv, TypeOK, NothingStale
  <2>3. Becomes(t, Idle)
    BY <1>7, <2>1, <2>2 DEF Serves, Becomes
  <2> QED
    BY <1>1, <1>2, <2>3, IdleFacts, OutsideMove
<1> QED
  BY <1>4, <1>5, <1>6, <1>7

LEMMA WriteEndsStep ==
  ASSUME SnapshotInv, NEW t \in Tasks, NEW ok, WriteEnds(t, ok)
  PROVE  SnapshotInv'
<1>1. task[t].pc = "write" /\ UNCHANGED <<up, gen, source, cutoff, lane, jobs>> /\ Becomes(t, Idle)
  BY DEF WriteEnds
<1>2. revision' = revision \/ (revision < MaxRevision /\ revision' = revision + 1)
  BY Zenon DEF WriteEnds
<1>3. Forward
  BY <1>1, <1>2, SnapshotAssumption DEF Forward, SnapshotInv, TypeOK
<1>4. Lane(task[t]) = 0 /\ Lane(Idle) = 0 /\ Thread(task[t]) = 0 /\ Thread(Idle) = 0
  BY <1>1, IdleFacts DEF Lane, Thread
<1>5. lane \in Nat /\ lane <= MaxLane /\ jobs \in Nat
  BY LaneSize DEF SnapshotInv, Threads, TypeOK
<1>6. Moves(t, Idle)
  BY <1>1, <1>4, <1>5, IdleFacts DEF Moves, Becomes
<1>7. SnapInv'
  BY <1>1, SameSnap DEF Becomes
<1> QED
  BY <1>1, <1>3, <1>6, <1>7, MoveKeeps

(* A caller that is cancelled while its thread runs stays counted in the lane. *)
LEMMA CancelledStep == ASSUME SnapshotInv, NEW t \in Tasks, Cancelled(t) PROVE SnapshotInv'
<1>1. task[t] \in Active /\ ReadInOrder(task[t]) /\ World /\ jobs' = jobs
  BY DEF Cancelled, SnapshotInv, TypeOK, World
<1>2. lane \in Nat /\ lane <= MaxLane /\ jobs \in Nat /\ MaxLane \in Nat /\ Lane(Idle) = 0 /\ Thread(Idle) = 0
  BY LaneSize, SnapshotAssumption, IdleFacts DEF SnapshotInv, Threads, TypeOK, Lane, Thread
<1> DEFINE q == [task[t] EXCEPT !.cancelled = TRUE]
<1>3. CASE task[t].pc = "run"
  <2>1. q \in Active /\ q.pc = "run" /\ ReadInOrder(q)
    BY <1>1, <1>3 DEF Active, ReadInOrder
  <2>2. Becomes(t, q) /\ lane' = lane
    BY <1>3, Zenon DEF Cancelled, Shielded
  <2> HIDE DEF q
  <2>3. Lane(q) = Lane(task[t]) /\ Thread(q) = Thread(task[t]) /\ Lane(q) = 1 /\ Thread(q) = 1
    BY <1>3, <2>1 DEF Lane, Thread
  <2>4. lane' = lane - Lane(task[t]) + Lane(q) /\ lane' <= MaxLane /\ jobs' = jobs - Thread(task[t]) + Thread(q)
    BY <1>1, <1>2, <2>2, <2>3
  <2>5. t \in At({"run"}) /\ At({"run"}) \subseteq {t}
    BY <1>3 DEF At, SnapshotInv, Threads
  <2> QED
    BY <1>1, <2>1, <2>2, <2>4, <2>5, BecomeMove
<1>4. CASE task[t].pc # "run"
  <2>1. Becomes(t, Idle) /\ lane' = LaneWithout(t)
    BY <1>4, Zenon DEF Cancelled, Shielded
  <2>2. lane' = lane - Lane(task[t]) + Lane(Idle) /\ lane' <= MaxLane /\ jobs' = jobs - Thread(task[t]) + Thread(Idle)
    BY <1>1, <1>2, <1>4, <2>1 DEF LaneWithout, Lane, Thread
  <2> QED
    BY <1>1, <2>1, <2>2, IdleFacts, BecomeMove
<1> QED
  BY <1>3, <1>4

(***************************************************************************)
(* The world's steps.                                                       *)
(***************************************************************************)
(* A refused tick withdraws the snapshot and says so. *)
LEMMA TickRefusedStep == ASSUME SnapshotInv, TickRefused PROVE SnapshotInv'
<1>1. snap \in SnapType /\ up /\ (snap.purged => snap.told = Purged)
  BY DEF SnapshotInv, TypeOK, Told, TickRefused
<1>2. Invalidate(snap) \in SnapType /\ Invalidate(snap).invalidated
      /\ (Invalidate(snap).purged => Invalidate(snap).told = Purged)
  BY <1>1, InvalidateFacts
<1>3. /\ snap' \in SnapType
      /\ snap'.purged = TRUE /\ snap'.told = Purged /\ snap'.last = Purged
  BY <1>2, PurgeFacts DEF TickRefused
<1>4. StoppedIsSilent' /\ TicksTell' /\ Told'
  BY <1>1, <1>3 DEF StoppedIsSilent, TicksTell, Told, TickRefused
<1>5. /\ UNCHANGED <<up, gen, source, cutoff, revision, task, lane, jobs, stale>>
      /\ SnapType' = SnapType
  BY DEF TickRefused, envVars, SnapType, Key, Outcomes
<1>6. TypeOK' /\ Threads' /\ NothingStale' /\ (\A u \in Tasks : task[u] # Idle => ReadInOrder(task[u]))'
  BY <1>3, <1>5 DEF SnapshotInv, TypeOK, InLane, At, Active, Threads, NothingStale, ReadInOrder
<1> QED
  BY <1>4, <1>6 DEF SnapshotInv

(* Nothing but the coordinator and its state is replaced. *)
LEMMA ReloadStep ==
  ASSUME SnapshotInv, UNCHANGED <<envVars, task, lane, jobs, stale>>, up' \in BOOLEAN, gen' \in 1 .. MaxGen,
         snap' = Blank \/ (up' /\ snap' = snap)
  PROVE  SnapshotInv'
<1>1. Blank \in SnapType /\ Blank.told = Blank.last /\ ~Blank.purged /\ Blank.told = Blank.key
  BY DEF Blank, SnapType, Outcomes
<1>2. snap' \in SnapType /\ StoppedIsSilent' /\ TicksTell' /\ Told'
  BY <1>1 DEF SnapshotInv, TypeOK, StoppedIsSilent, TicksTell, Told
<1>3. UNCHANGED <<source, cutoff, revision>> /\ SnapType' = SnapType
  BY DEF envVars, SnapType, Key, Outcomes
<1>4. TypeOK' /\ Threads' /\ NothingStale' /\ (\A u \in Tasks : task[u] # Idle => ReadInOrder(task[u]))'
  BY <1>2, <1>3 DEF SnapshotInv, TypeOK, InLane, At, Active, Threads, NothingStale, ReadInOrder
<1> QED
  BY <1>2, <1>4 DEF SnapshotInv

LEMMA ForwardStep ==
  ASSUME SnapshotInv, Forward, UNCHANGED <<up, gen, task, lane, jobs, snap, stale>>
  PROVE  SnapshotInv'
<1>1. Active \subseteq Active'
  BY ActiveGrows DEF SnapshotInv
<1>2. source' \in 0 .. MaxSource /\ cutoff' \in 0 .. MaxCutoff /\ revision' \in 0 .. MaxRevision
  BY SnapshotAssumption DEF SnapshotInv, TypeOK, Forward
<1>3. task' \in [Tasks -> {Idle} \cup Active']
  BY <1>1 DEF SnapshotInv, TypeOK
<1>4. snap' \in SnapType' /\ lane' = Cardinality(InLane)' /\ Threads'
  BY DEF SnapshotInv, TypeOK, InLane, At, Threads, SnapType, Key, Outcomes
<1>5. (\A u \in Tasks : task[u] # Idle => ReadInOrder(task[u]))'
  BY DEF SnapshotInv, ReadInOrder
<1> QED
  BY <1>2, <1>3, <1>4, <1>5 DEF SnapshotInv, TypeOK, NothingStale, StoppedIsSilent, TicksTell, Told

LEMMA InitInv == Init => SnapshotInv
<1> SUFFICES ASSUME Init PROVE SnapshotInv
  OBVIOUS
<1>1. At({"lane", "run"}) = {} /\ At({"run"}) = {}
  BY IdleFacts DEF Init, At
<1>2. Cardinality(InLane) = 0
  BY <1>1, FS_EmptySet DEF InLane
<1>3. Blank \in SnapType /\ Blank.told = Blank.last /\ ~Blank.purged /\ Blank.told = Blank.key
  BY DEF Blank, SnapType, Outcomes
<1>4. 1 \in 1 .. MaxGen /\ 0 <= MaxLane /\ 0 \in 0 .. MaxSource /\ 0 \in 0 .. MaxCutoff /\ 0 \in 0 .. MaxRevision
  <2>1. {MaxGen, MaxLane} \subseteq Nat \ {0} /\ {MaxSource, MaxCutoff, MaxRevision} \subseteq Nat
    BY SnapshotAssumption
  <2> QED
    BY <2>1
<1>5. task \in [Tasks -> {Idle} \cup Active]
  BY DEF Init
<1>6. TypeOK
  BY <1>2, <1>3, <1>4, <1>5 DEF Init, TypeOK
<1> QED
  BY <1>1, <1>3, <1>6 DEF Init, SnapshotInv, Threads, NothingStale, StoppedIsSilent, TicksTell, Told

LEMMA NextKeepsInv == SnapshotInv /\ [Next]_vars => SnapshotInv'
<1> SUFFICES ASSUME SnapshotInv, [Next]_vars PROVE SnapshotInv'
  OBVIOUS
<1>1. CASE UNCHANGED vars
  <2>1. Forward
    BY <1>1, SnapshotAssumption DEF SnapshotInv, TypeOK, vars, envVars, Forward
  <2> QED
    BY <1>1, <2>1, ForwardStep DEF vars
<1>2. ASSUME NEW t \in Tasks, Progress(t) PROVE SnapshotInv'
  BY <1>2, CoordLocksStep, ReadsTariffStep, EditLocksStep, LaneLocksStep, JobEndsStep, FencesStep,
     MeasuredStep, WriteEndsStep, Zenon DEF Progress
<1>3. ASSUME NEW t \in Tasks, Cancelled(t) \/ \E k \in Kinds : Begins(t, k) PROVE SnapshotInv'
  BY <1>3, CancelledStep, BeginsStep, Zenon
<1>4. CASE TickRefused
  BY <1>4, TickRefusedStep
<1>5. CASE Unload
  BY <1>5, ReloadStep DEF Unload, SnapshotInv, TypeOK
<1>6. CASE SetUp
  BY <1>6, ReloadStep DEF SetUp
<1>7. CASE SourceChanges \/ CutoffPasses
  <2>1. Forward
    BY <1>7, SnapshotAssumption DEF SnapshotInv, TypeOK, SourceChanges, CutoffPasses, Forward
  <2> QED
    BY <1>7, <2>1, ForwardStep DEF SourceChanges, CutoffPasses
<1> QED
  BY <1>1, <1>2, <1>3, <1>4, <1>5, <1>6, <1>7, Zenon DEF Next

(***************************************************************************)
(* Theorems.                                                                *)
(***************************************************************************)
(* SnapshotInv holds in every reachable state: the steps of EnergySnapshotCoordinator *)
(* keep the lane's count, the order of the reads and the bits that decide what the    *)
(* cards are told next.                                                               *)
THEOREM SnapshotInductive == Spec => []SnapshotInv
<1>1. Init => SnapshotInv
  BY InitInv
<1>2. SnapshotInv /\ [Next]_vars => SnapshotInv'
  BY NextKeepsInv
<1> QED
  BY <1>1, <1>2, PTL DEF Spec

(* However many requests are cancelled and however often the entry is reloaded, one *)
(* executor thread calculates (_async_run_cpu).                                     *)
THEOREM SnapshotOneJob == Spec => []OneJob
<1>1. SnapshotInv => OneJob
  BY DEF SnapshotInv, Threads, OneJob
<1> QED
  BY <1>1, SnapshotInductive, PTL

(* No answer overtaken by an edit, a change of the sources, a new cutoff or an unload *)
(* is served (_async_refresh, async_price).                                           *)
THEOREM SnapshotNothingStale == Spec => []NothingStale
<1>1. SnapshotInv => NothingStale
  BY DEF SnapshotInv
<1> QED
  BY <1>1, SnapshotInductive, PTL

(* After async_stop neither values nor events are left, and none come back. *)
THEOREM SnapshotStoppedIsSilent == Spec => []StoppedIsSilent
<1>1. SnapshotInv => StoppedIsSilent
  BY DEF SnapshotInv
<1> QED
  BY <1>1, SnapshotInductive, PTL

(* The last event says what the last tick found (_publish_energy_update). *)
THEOREM SnapshotTicksTell == Spec => []TicksTell
<1>1. SnapshotInv => TicksTell
  BY DEF SnapshotInv
<1> QED
  BY <1>1, SnapshotInductive, PTL
=============================================================================
