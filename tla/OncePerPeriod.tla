--------------------------- MODULE OncePerPeriod ---------------------------
(***************************************************************************)
(* What the scheduler promises for every schedule: a period is stamped      *)
(* before its report may leave, a stamped report leaves at most once, and   *)
(* nothing but an administrator's edit of the period basis (or a delete)    *)
(* opens an already reported period again.  No lock, callback, write or     *)
(* crash is visible here: Scheduler implements this specification.          *)
(***************************************************************************)
CONSTANTS Sids,     \* schedule ids
          Periods,  \* period keys, e.g. "daily:2026-01-05"
          None

VARIABLES stamp,    \* the period each schedule last stamped, or None
          reported  \* the periods of each schedule whose report has left

vars == <<stamp, reported>>

Init ==
  /\ stamp = [s \in Sids |-> None]
  /\ reported = [s \in Sids |-> {}]

(* A period whose report has not left is stamped. *)
Stamps(s) ==
  /\ stamp'[s] \in Periods \ reported[s]
  /\ reported'[s] = reported[s]

(* The report of the stamped period leaves, once. *)
Reports(s) ==
  /\ stamp[s] \in Periods \ reported[s]
  /\ reported'[s] = reported[s] \cup {stamp[s]}
  /\ stamp'[s] = stamp[s]

(* The schedule is deleted, or its period basis is edited. *)
Renews(s) ==
  /\ reported'[s] = {}
  /\ stamp'[s] \in Periods \cup {None}

Rests(s) == stamp'[s] = stamp[s] /\ reported'[s] = reported[s]

(* Schedules are independent: a restart may move several of them at once. *)
Next == \A s \in Sids : Stamps(s) \/ Reports(s) \/ Renews(s) \/ Rests(s)

Spec == Init /\ [][Next]_vars
=============================================================================
