--------------------------- MODULE MCStatistics ---------------------------
(* A small instance of StatisticsSharing: two series, one of them supplied in *)
(* every hour, and one cost; a known hour that becomes unknown moves the sums. *)
EXTENDS StatisticsSharing

MCCosts == {1}
=============================================================================
