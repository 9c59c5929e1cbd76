------------------------ MODULE MCStatisticsRuntime ------------------------
(* Two runtimes, the second after a reload, and a few changes of the consent. *)
EXTENDS StatisticsRuntime
=============================================================================
