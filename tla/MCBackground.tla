---------------------------- MODULE MCBackground ----------------------------
(* The two background workers whose requests must end: the hourly statistics *)
(* and the energy snapshot. They share no state; `part` says which one acts, *)
(* and the other one stays idle, with nothing that fairness could ask of it. *)
EXTENDS StatisticsRuntime

CONSTANTS Tasks, Purged

VARIABLES up, gen, source, cutoff, revision, task, cpu, jobs, snap, stale, part

Snap == INSTANCE EnergySnapshot WITH
  lane <- cpu, MaxLane <- 1, MaxSnapshots <- 2, MaxPrices <- 1, MaxBooks <- 1,
  MaxGen <- 2, MaxSource <- 0, MaxCutoff <- 0, MaxRevision <- 0

snapshotVars == <<up, gen, source, cutoff, revision, task, cpu, jobs, snap, stale>>

BackgroundInit == Init /\ Snap!Init /\ part \in {"runtime", "snapshot"}

BackgroundNext ==
  \/ part = "runtime" /\ Next /\ UNCHANGED <<snapshotVars, part>>
  \/ part = "snapshot" /\ Snap!Next /\ UNCHANGED <<vars, part>>

BackgroundSpec ==
  /\ BackgroundInit /\ [][BackgroundNext]_<<vars, snapshotVars, part>>
  /\ Fairness /\ Snap!Fairness

(* Every request and edit ends although the coordinator's lock, the Store's   *)
(* lock and the CPU lane are awaited in different orders.                      *)
RequestsEnd == Snap!RequestsEnd
=============================================================================
