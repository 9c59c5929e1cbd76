------------------------------ MODULE Delivery ------------------------------
(***************************************************************************)
(* Sending a report to its targets: async_send_energy_channels (a schedule  *)
(* or an administrator chooses channels), async_send_report's SMTP path for *)
(* a pressed button, and the logical record that the dispatchers of         *)
(* history.py write around every handoff.  Sends run concurrently.          *)
(*                                                                         *)
(* A send takes turns, one per target, each of them a sequence of awaited    *)
(* steps.  What the code compares with a captured revision, generation,     *)
(* service or payload is kept as the set of things that changed since the    *)
(* send captured them.                                                     *)
(***************************************************************************)
EXTENDS Naturals, Sequences, FiniteSetsExt

CONSTANTS
  MaxSends,     \* bound: sends, numbered in the order they start
  Paths,        \* a subset of {"schedule", "manual", "press", "digest"}
  Channels,     \* the targets of a schedule or a manual send, none of them twice
  MaxTurns,     \* bound: changes of the world around the sends
  MaxKept,      \* HISTORY_LIMIT
  StartedAt     \* the timestamp of each send

ASSUME DeliveryAssumption ==
  /\ {MaxSends, MaxKept} \subseteq Nat \ {0} /\ MaxTurns \in Nat
  /\ StartedAt \in Seq(Nat \ {0}) /\ MaxSends <= Len(StartedAt)
  /\ \A i, j \in DOMAIN StartedAt : i <= j => StartedAt[i] <= StartedAt[j]
  /\ Paths \subseteq {"schedule", "manual", "press", "digest"}
  /\ Channels \in Seq(STRING) /\ Channels # << >>
  /\ \A i, j \in DOMAIN Channels : Channels[i] = Channels[j] => i = j

VARIABLES
  send,      \* per send: its path, its turn and step, what went stale
  right,     \* the author or actor may execute this report and control its button
  handed,    \* targets handed over, with what became of them
  log,       \* the persisted attempts, each with its place in the order they were recorded
  turns

deliveryVars == <<send, right, handed, log, turns>>

Sends == 1..MaxSends

Batches == {"schedule", "manual"}

Selected(path) == IF path \in Batches THEN Channels ELSE <<"email">>

(* The awaited steps of a turn, in the order of the code.  A batch composes     *)
(* once, in a turn before its first target, and validates again (reads its      *)
(* schedule, asks the service) before and after it loads a target's payload.    *)
Steps(path, turn) ==
  LET payload == IF Channels[turn] = "email" THEN "load" ELSE "draft" IN
  CASE path = "schedule" /\ turn = 0 -> <<"compose", "reread", "recheck">>
    [] path = "schedule" /\ turn > 0 ->
         <<"reread", "recheck", payload, "reread", "recheck", "handoff", "record">>
    [] path = "manual" /\ turn = 0 -> <<"compose", "recheck">>
    [] path = "manual" /\ turn > 0 -> <<"recheck", payload, "recheck", "handoff", "record">>
    [] path = "press" -> <<"compose", "load", "confirm", "recheck", "handoff", "record">>
    [] path = "digest" -> <<"load", "compose", "confirm", "handoff", "record">>

Unsent == [path |-> "none", turn |-> 0, at |-> 0, stale |-> {}, outcome |-> "none"]

DeliveryInit ==
  /\ send = [s \in Sends |-> Unsent]
  /\ right = TRUE
  /\ handed = {}
  /\ log = {}
  /\ turns = 0

Active(s) == send[s].at > 0

Step(s) == Steps(send[s].path, send[s].turn)[send[s].at]

Target(s) == Selected(send[s].path)[send[s].turn]

Energy(s) == send[s].path # "digest"

(* The step after this one, which may be the first of the next turn. *)
TurnEnds(s) == send[s].at = Len(Steps(send[s].path, send[s].turn))

NextTurn(s) == IF TurnEnds(s) THEN send[s].turn + 1 ELSE send[s].turn

NextAt(s) == IF TurnEnds(s) THEN 1 ELSE send[s].at + 1

NextStep(s) == Steps(send[s].path, NextTurn(s))[NextAt(s)]

IsValidation(step) == step \in {"reread", "confirm", "recheck"}

(* The synchronous fence before a validation and right before the handoff.  A   *)
(* log digest has none; the button's path also freezes the SMTP settings.      *)
Fenced(s, stale) ==
  Energy(s) => /\ stale \cap {"schedules", "service", "facts"} = {}
               /\ send[s].path = "press" => "smtp" \notin stale

(* What the answer of an awaited step must say. *)
Agrees_Mutant(s) ==
  LET stale == send[s].stale IN
  CASE Step(s) = "compose" -> Energy(s) => right /\ "service" \notin stale
    [] Step(s) = "reread" -> "row" \notin stale
    [] Step(s) = "confirm" -> right /\ stale \cap {"row", "schedules", "service", "smtp", "policy"} = {}
    [] Step(s) = "recheck" -> stale \cap {"facts", "service"} = {}
    [] OTHER -> TRUE

Agrees(s) ==
  LET stale == send[s].stale IN
  CASE Step(s) = "compose" -> Energy(s) => right /\ "service" \notin stale
    [] Step(s) = "reread" -> "row" \notin stale
    [] Step(s) = "confirm" -> right /\ stale \cap {"row", "schedules", "service", "smtp", "policy"} = {}
    [] Step(s) = "recheck" -> right /\ stale \cap {"facts", "service"} = {}
    [] OTHER -> TRUE

(* A composed payload is frozen to the facts of that moment, the SMTP revision  *)
(* to the one found when a target's turn begins.                               *)
Frozen(s) ==
  send[s].stale \ (IF Step(s) = "compose" THEN {"facts"} ELSE IF TurnEnds(s) THEN {"smtp"} ELSE {})

Ended(s) == [send EXCEPT ![s].turn = 0, ![s].at = 0, ![s].stale = {}]

(* An exception: in a target's turn it is recorded, before it the send just ends. *)
Raised(s) ==
  IF send[s].turn = 0 THEN Ended(s)
  ELSE [send EXCEPT ![s].at = Len(Steps(send[s].path, send[s].turn)), ![s].outcome = "preparation_failed"]

(* _fire, the service call or async_send froze its schedule before this: an edit *)
(* in between is stale from the start.                                         *)
Starts(s) ==
  /\ send[s] = Unsent /\ \A r \in 1..(s - 1) : send[r] # Unsent
  /\ \E path \in Paths, stale \in {{}, {"row"}} :
       /\ path = "manual" => stale = {}
       /\ send' = [send EXCEPT ![s] = [path |-> path, turn |-> IF path \in Batches THEN 0 ELSE 1, at |-> 1,
                                       stale |-> stale, outcome |-> "none"]]
  /\ UNCHANGED <<right, handed, log, turns>>

(* An awaited step answers; its checks and fences follow without an await, up  *)
(* to the next await, which may be the handoff itself.                         *)
AwaitEnds(s) ==
  /\ Active(s) /\ Step(s) \notin {"handoff", "record"}
  /\ Agrees(s)
  /\ NextStep(s) = "handoff" \/ IsValidation(NextStep(s)) \/ send[s].path = "press" => Fenced(s, Frozen(s))
  /\ NextStep(s) = "handoff" /\ Target(s) = "email" /\ Energy(s) => "smtp" \notin send[s].stale
  /\ handed' = IF NextStep(s) = "handoff" THEN handed \cup {[send |-> s, target |-> Target(s)]} ELSE handed
  /\ send' = [send EXCEPT ![s].turn = NextTurn(s), ![s].at = NextAt(s), ![s].stale = Frozen(s)]
  /\ UNCHANGED <<right, log, turns>>

(* Any step before the handoff may raise, and must when a check fails. *)
PreparationRaises(s) ==
  /\ Active(s) /\ Step(s) \notin {"handoff", "record"}
  /\ send' = Raised(s)
  /\ UNCHANGED <<right, handed, log, turns>>

(* The executor or the service call answers, fails, or its waiter is cancelled. *)
HandoffOutcomes == {"accepted", "send_failed", "cancelled_outcome_unknown"}

HandoffAnswers(s) ==
  /\ Active(s) /\ Step(s) = "handoff"
  /\ \E o \in HandoffOutcomes : send' = [send EXCEPT ![s].at = @ + 1, ![s].outcome = o]
  /\ UNCHANGED <<right, handed, log, turns>>

(* retained_attempts with the clock of this send: the entries that are not     *)
(* newer than its start, the last MaxKept of them.                             *)
Retained(kept, s) ==
  LET old == {a \in kept : StartedAt[a.send] <= StartedAt[s]}
  IN {a \in old : Cardinality({b \in old : b.place > a.place}) < MaxKept}

Appended(kept, s, target, outcome) ==
  LET old == Retained(kept, s)
      last == Max({0} \cup {a.place : a \in old})
  IN Retained(old \cup {[send |-> s, target |-> target, outcome |-> outcome, place |-> last + 1]}, s)

(* After its record an accepted target is followed by the next one; any other   *)
(* outcome raises.                                                             *)
AfterRecord_Mutant(s) ==
  IF send[s].turn < Len(Selected(send[s].path))
  THEN [send EXCEPT ![s].turn = @ + 1, ![s].at = 1, ![s].outcome = "none", ![s].stale = @ \ {"smtp"}]
  ELSE Ended(s)

AfterRecord(s) ==
  IF send[s].outcome = "accepted" /\ send[s].turn < Len(Selected(send[s].path))
  THEN IF Fenced(s, send[s].stale)
       THEN [send EXCEPT ![s].turn = @ + 1, ![s].at = 1, ![s].outcome = "none", ![s].stale = @ \ {"smtp"}]
       ELSE [send EXCEPT ![s].turn = @ + 1, ![s].at = Len(Steps(send[s].path, send[s].turn + 1)),
                         ![s].outcome = "preparation_failed"]
  ELSE Ended(s)

(* async_append_attempt publishes after the confirmed write; a failure of it is *)
(* swallowed.                                                                  *)
Records(s) ==
  /\ Active(s) /\ Step(s) = "record"
  /\ log' \in {log, Appended(log, s, Target(s), send[s].outcome)}
  /\ send' = AfterRecord(s)
  /\ UNCHANGED <<right, handed, turns>>

(* A cancellation while the record is written escapes; the write may be published. *)
RecordCancelled(s) ==
  /\ Active(s) /\ Step(s) = "record"
  /\ log' \in {log, Appended(log, s, Target(s), send[s].outcome)}
  /\ send' = Ended(s)
  /\ UNCHANGED <<right, handed, turns>>

(* What an edit, a reload, new settings, a new policy or new facts make stale.  *)
Consequences(x) ==
  CASE x = "row" -> {"row", "schedules"}
    [] x = "service" -> {"service", "schedules"}
    [] x = "policy" -> {"policy", "facts"}
    [] OTHER -> {x}

TurnedStale(xs) == [s \in Sends |-> IF Active(s) THEN [send[s] EXCEPT !.stale = @ \cup xs] ELSE send[s]]

WorldTurns ==
  /\ turns < MaxTurns /\ turns' = turns + 1
  /\ \E x \in {"row", "schedules", "service", "smtp", "policy", "facts"} : send' = TurnedStale(Consequences(x))
  /\ UNCHANGED <<right, handed, log>>

RightTurns ==
  /\ turns < MaxTurns /\ turns' = turns + 1
  /\ right' = ~right
  /\ UNCHANGED <<send, handed, log>>

DeliveryStep(s) ==
  Starts(s) \/ AwaitEnds(s) \/ PreparationRaises(s) \/ HandoffAnswers(s) \/ Records(s) \/ RecordCancelled(s)

DeliveryNext == WorldTurns \/ RightTurns \/ \E s \in Sends : DeliveryStep(s)

DeliverySpec == DeliveryInit /\ [][DeliveryNext]_deliveryVars
-----------------------------------------------------------------------------
Position(target) == CHOOSE i \in DOMAIN Channels : Channels[i] = target

(* Each target has at most one record, which says "preparation_failed" exactly  *)
(* when nothing was handed over; a target is handed over only after the one     *)
(* before it was accepted, so a failed or cancelled target ends the batch.      *)
BatchTruthful ==
  /\ \A a, b \in log : a.send = b.send /\ a.target = b.target => a = b
  /\ \A a \in log :
       (a.outcome = "preparation_failed") <=> ([send |-> a.send, target |-> a.target] \notin handed)
  /\ \A h \in handed, a \in log :
       /\ send[h.send].path \in Batches /\ a.send = h.send
       /\ Position(a.target) < Position(h.target)
       => a.outcome = "accepted"

(* What is handed over is allowed and current at that moment: the actor's right, *)
(* the schedule, the analysis service and its facts, the SMTP settings of a mail. *)
HandoffCurrent ==
  [][handed' # handed =>
       \A h \in handed' \ handed :
         /\ right /\ "service" \notin send[h.send].stale
         /\ send[h.send].path # "manual" => "row" \notin send[h.send].stale
         /\ Energy(h.send) => send[h.send].stale \cap {"schedules", "facts"} = {}
         /\ h.target = "email" => "smtp" \notin send[h.send].stale]_deliveryVars

(* "the last 128 completed dispatches win" (history.py:160): a record leaves the *)
(* history only when enough later ones push it out.                            *)
RecordsStay ==
  [][\A a \in log : Cardinality(log) < MaxKept => a \in log']_deliveryVars
=============================================================================
