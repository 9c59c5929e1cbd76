---------------------------- MODULE EmailNative ----------------------------
(***************************************************************************)
(* EmailNativeCoordinator: the owner of the e-mail entities.  A refresh     *)
(* reads the history and the schedules in one projection under the Store's  *)
(* lock, announces the attempts it has not seen and keeps one issue that    *)
(* says whether the newest report had a problem.  Requests coalesce; a      *)
(* refresh whose context changed while it read is dropped.                 *)
(*                                                                         *)
(* An entity exists as soon as its schedule is published; device names and  *)
(* the entities' other fields are left out.                                *)
(***************************************************************************)
EXTENDS Delivery

CONSTANTS
  Reports,      \* a set of sends: the dispatches of this part
  Scheduled,    \* those that name the schedule (the others are manual)
  MaxReloads    \* bound: how often the integration is set up again

ASSUME EmailNativeAssumption ==
  /\ Reports \subseteq DOMAIN StartedAt /\ Scheduled \subseteq Reports /\ MaxReloads \in Nat

VARIABLES
  native,       \* the coordinator of the current setup
  history,      \* the persisted attempts
  issue,        \* reports_delivery_problem exists
  configured,   \* the schedule exists
  announced,    \* events fired so far, per attempt
  excused,      \* attempts first seen as the baseline or while the schedule was gone
  recorded,     \* reports whose record was written
  reloads

nativeVars == <<native, history, issue, configured, announced, excused, recorded, reloads>>

(* _seen = None until a first history was published.  "refresh" is the place   *)
(* of the refresh under way; "initial": it is the one async_start awaits.      *)
NoNative == [running |-> FALSE, seen |-> {}, known |-> FALSE, requested |-> FALSE,
             refresh |-> "none", initial |-> FALSE, changed |-> FALSE,
             result |-> {}, rows |-> FALSE, problem |-> FALSE, stamp |-> 0, fresh |-> FALSE]

NativeInit ==
  /\ native = [NoNative EXCEPT !.running = TRUE, !.refresh = "begun", !.initial = TRUE]
  /\ history = {}
  /\ issue = FALSE
  /\ configured \in BOOLEAN
  /\ announced = [r \in Reports |-> 0]
  /\ excused = {}
  /\ recorded = {}
  /\ reloads = 0

(* async_request_refresh: a running loop is asked for another round. *)
Asked(n) ==
  IF ~n.running THEN n
  ELSE IF n.refresh # "none" THEN [n EXCEPT !.requested = TRUE]
  ELSE [n EXCEPT !.refresh = "begun", !.changed = FALSE]

(* The event of a confirmed write; async_start subscribes after its refresh.  *)
StatusEvent(n) == IF n.initial THEN n ELSE Asked(n)

(* The loop's next round, or its end. *)
NextRound(n) ==
  [n EXCEPT !.refresh = IF n.requested THEN "begun" ELSE "none", !.requested = FALSE,
            !.initial = FALSE, !.changed = FALSE, !.result = {}, !.rows = FALSE]

StoreFree == native.refresh # "read"

(* A dispatcher records some report: dispatches end in any order. *)
AttemptRecorded ==
  /\ StoreFree
  /\ \E r \in Reports \ recorded, o \in {"accepted", "send_failed"} :
       /\ history' = Appended(history, r, "email", o)
       /\ recorded' = recorded \cup {r}
  /\ native' = [StatusEvent(native) EXCEPT !.fresh = FALSE]
  /\ UNCHANGED <<issue, configured, announced, excused, reloads>>

(* The schedule is deleted or added again. *)
ScheduleEdited ==
  /\ StoreFree
  /\ configured' = ~configured
  /\ native' = [StatusEvent(native) EXCEPT !.changed = native.refresh # "none"]
  /\ UNCHANGED <<history, issue, announced, excused, recorded, reloads>>

(* The 30-second timer, or the end of a button's send. *)
TimerRequests ==
  /\ native.running /\ ~native.initial
  /\ native' = Asked(native)
  /\ UNCHANGED <<history, issue, configured, announced, excused, recorded, reloads>>

(* The generation, a consumed period or the zone changes while it reads. *)
HomeTurns ==
  /\ native.refresh # "none"
  /\ native' = [native EXCEPT !.changed = TRUE]
  /\ UNCHANGED <<history, issue, configured, announced, excused, recorded, reloads>>

(* One projection of one document, in a worker thread under the Store's lock. *)
RefreshReads ==
  /\ native.refresh = "begun"
  /\ native' = [native EXCEPT !.refresh = "read", !.result = history, !.rows = configured]
  /\ UNCHANGED <<history, issue, configured, announced, excused, recorded, reloads>>

Ids(attempts) == {a.send : a \in attempts}

Unseen == IF native.known THEN Ids(native.result) \ native.seen ELSE {}

Fresh == IF native.rows THEN Unseen \cap Scheduled ELSE {}

(* report_delivery_fact: the reports that started last have a problem when one *)
(* of their targets was not accepted.                                         *)
Newest(attempts) == {a \in attempts : \A b \in attempts : StartedAt[b.send] <= StartedAt[a.send]}

Pending(attempts) == \E a \in Newest(attempts) : a.outcome # "accepted"

NewestStamp(attempts) == StartedAt[(CHOOSE a \in Newest(attempts) : TRUE).send]

(* _update_report_problem: neither an empty history, nor an older report, nor  *)
(* one of the same moment is a recovery.                                      *)
Older_Mutant(n) == n.stamp # 0 /\ NewestStamp(n.result) < n.stamp

Older(n) ==
  /\ n.stamp # 0
  /\ \/ NewestStamp(n.result) < n.stamp
     \/ n.problem /\ ~Pending(n.result) /\ NewestStamp(n.result) = n.stamp

Judged(n) ==
  IF Newest(n.result) = {} \/ Older(n) THEN n
  ELSE [n EXCEPT !.problem = Pending(n.result), !.stamp = NewestStamp(n.result)]

Publishes ==
  /\ native.refresh = "read" /\ ~native.changed
  /\ native' = NextRound(Judged([native EXCEPT !.seen = Ids(native.result), !.known = TRUE, !.fresh = TRUE]))
  /\ issue' = IF Newest(native.result) = {} \/ Older(native) THEN issue ELSE Pending(native.result)
  /\ announced' = [k \in DOMAIN announced |-> announced[k] + IF k \in Fresh THEN 1 ELSE 0]
  /\ excused' = excused \cup IF native.known THEN Unseen \ Fresh ELSE Ids(native.result)
  /\ UNCHANGED <<history, configured, recorded, reloads>>

(* A stale refresh is dropped, not repeated; the next event or the timer asks. *)
Dropped_Mutant(n) == NextRound([n EXCEPT !.seen = Ids(n.result)])

Dropped(n) == NextRound(n)

Drops ==
  /\ native.refresh = "read" /\ native.changed
  /\ native' = Dropped(native)
  /\ UNCHANGED <<history, issue, configured, announced, excused, recorded, reloads>>

(* The projection raises (busy lane, unreadable schedules): no entity shows    *)
(* data, nothing is forgotten.                                                *)
RefreshRaises ==
  /\ native.refresh # "none"
  /\ native' = NextRound(native)
  /\ UNCHANGED <<history, issue, configured, announced, excused, recorded, reloads>>

(* Unload cancels the loop and removes the issue. *)
NativeStops_Mutant ==
  /\ native.running
  /\ native' = NoNative
  /\ UNCHANGED <<history, issue, configured, announced, excused, recorded, reloads>>

NativeStops ==
  /\ native.running
  /\ native' = NoNative
  /\ issue' = FALSE
  /\ UNCHANGED <<history, configured, announced, excused, recorded, reloads>>

NativeStarts ==
  /\ ~native.running /\ reloads < MaxReloads /\ reloads' = reloads + 1
  /\ native' = [NoNative EXCEPT !.running = TRUE, !.refresh = "begun", !.initial = TRUE]
  /\ UNCHANGED <<history, issue, configured, announced, excused, recorded>>

NativeNext ==
  \/ AttemptRecorded \/ ScheduleEdited \/ TimerRequests \/ HomeTurns
  \/ RefreshReads \/ Publishes \/ Drops \/ RefreshRaises \/ NativeStops \/ NativeStarts

NativeSpec == NativeInit /\ [][NativeNext]_nativeVars
-----------------------------------------------------------------------------
Published == native.running /\ native.fresh

(* Every attempt is announced at most once, over all setups; one that a refresh *)
(* took note of was announced, unless it was the baseline of a setup or its     *)
(* schedule was gone.                                                          *)
AnnouncedOnce ==
  /\ \A k \in DOMAIN announced : announced[k] <= 1
  /\ \A k \in native.seen : announced[k] = 1 \/ k \in excused

(* Once a refresh has published the current history, a problem of the newest   *)
(* report this setup ever saw has its issue; no setup, no issue.               *)
IssueTells ==
  /\ Published /\ history # {} /\ NewestStamp(history) >= native.stamp => (Pending(history) => issue)
  /\ ~native.running => ~issue

(* The issue goes only with the setup, or when a report that started later than *)
(* every report seen with a problem was accepted by all its targets.           *)
IssueClears ==
  [][issue /\ ~issue' /\ native'.running =>
       ~Pending(history) /\ NewestStamp(history) > native.stamp]_nativeVars
=============================================================================
