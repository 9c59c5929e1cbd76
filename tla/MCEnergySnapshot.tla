-------------------------- MODULE MCEnergySnapshot --------------------------
(* Tasks are interchangeable for the safety properties; MCBackground checks  *)
(* that requests end, without this symmetry.                                 *)
EXTENDS EnergySnapshot, TLC

TaskSymmetry == Permutations(Tasks)
=============================================================================
