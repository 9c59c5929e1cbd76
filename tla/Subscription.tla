---------------------------- MODULE Subscription ----------------------------
(***************************************************************************)
(* subscribe_analysis_updates: a card's connection is told that something    *)
(* changed, never what.  Only the reason "schedules changed" is authorized,  *)
(* by a task that may wait for the Store; it belongs to those who may read   *)
(* reports and are administrators.                                         *)
(***************************************************************************)
EXTENDS Access

CONSTANTS
  Cards,          \* connections
  EagerStart,     \* hass.async_create_task runs a task at once up to its first wait
  MaxEvents       \* bound: events of the bus

ASSUME SubscriptionAssumption == EagerStart \in BOOLEAN /\ MaxEvents \in Nat

VARIABLES
  service,        \* the analysis service of the setup: "running" or "stopped"
  busy,           \* the Store's lock is taken
  card,           \* per connection: its person, its listeners, its reason task
  told,           \* per connection: the last event sent, and how many
  events

subscriptionVars == <<service, busy, card, told, events>>

(* `listens` stands for removers, the service's set and not stopped; `task` for  *)
(* schedule_task: none, "waits" for the Store, or "done" but still referred to. *)
NoCard == [who |-> CHOOSE p \in Persons : TRUE, listens |-> FALSE, closed |-> FALSE, task |-> "none", policy |-> << >>]

SubscriptionInit ==
  /\ service = "running"
  /\ busy \in BOOLEAN
  /\ card = [c \in Cards |-> NoCard]
  /\ told = [c \in Cards |-> [reason |-> FALSE, count |-> 0]]
  /\ events = 0

Subscribes(c) ==
  /\ ~card[c].listens /\ ~card[c].closed /\ service = "running"
  /\ \E p \in Persons :
       /\ people[p].active
       /\ card' = [card EXCEPT ![c] = [NoCard EXCEPT !.who = p, !.listens = TRUE]]
  /\ UNCHANGED <<accessVars, service, busy, told, events>>

(* unsubscribe cancels a task under way. *)
Unsubscribed(k) == [k EXCEPT !.listens = FALSE, !.task = "none", !.closed = TRUE]

Closes(c) ==
  /\ card[c].listens
  /\ card' = [card EXCEPT ![c] = Unsubscribed(@)]
  /\ UNCHANGED <<accessVars, service, busy, told, events>>

(* schedule_changed: the reason, or an empty event for whoever may not know it.  *)
MayKnow(p) ==
  /\ policy.ready /\ ActiveAdmin(p)
  /\ Allowed(policy.rules, "energy_reports", "visible", p)
  /\ Allowed(policy.rules, "energy_reports", "read", p)

Sent(c, reason) == [told EXCEPT ![c] = [reason |-> reason, count |-> @.count + 1]]

(* `changed` for a schedule change: a task that is under way stands for it.     *)
(* A task that starts eagerly and never waits has ended before schedule_task is *)
(* assigned: the variable then keeps the finished task.                        *)
ScheduleEvent(c) ==
  IF card[c].task # "none" THEN UNCHANGED <<card, told>>
  ELSE IF EagerStart /\ ~busy
       THEN /\ told' = Sent(c, MayKnow(card[c].who))
            /\ card' = [card EXCEPT ![c].task = "done"]
       ELSE /\ card' = [card EXCEPT ![c].task = "waits"]
            /\ UNCHANGED told

(* An event reaches one connection; a service that is not the running one is a  *)
(* reason to unsubscribe.                                                      *)
Hears(c) ==
  /\ card[c].listens /\ events < MaxEvents /\ events' = events + 1
  /\ \/ service # "running" /\ card' = [card EXCEPT ![c] = Unsubscribed(@)] /\ UNCHANGED told
     \/ service = "running" /\ ScheduleEvent(c)
     \/ service = "running" /\ told' = Sent(c, FALSE) /\ UNCHANGED card
  /\ UNCHANGED <<accessVars, service, busy>>

(* The task reads the policy under the Store's lock and asks for the person; no *)
(* wait follows.  A raise withholds the reason.                                *)
Tells(c) ==
  /\ card[c].task = "waits" /\ ~busy
  /\ card' = [card EXCEPT ![c].task = "none"]
  /\ \E reason \in {FALSE, MayKnow(card[c].who)} :
       told' = IF card[c].listens /\ service = "running" THEN Sent(c, reason) ELSE told
  /\ UNCHANGED <<accessVars, service, busy, events>>

StoreTurns ==
  /\ busy' = ~busy
  /\ UNCHANGED <<accessVars, service, card, told, events>>

(* async_stop unsubscribes everyone; a connection of the next service is        *)
(* another card.                                                               *)
ServiceStops_Mutant ==
  /\ service = "running"
  /\ service' = "stopped"
  /\ UNCHANGED <<accessVars, busy, card, told, events>>

ServiceStops ==
  /\ service = "running"
  /\ service' = "stopped"
  /\ card' = [c \in Cards |-> IF card[c].listens THEN Unsubscribed(card[c]) ELSE card[c]]
  /\ UNCHANGED <<accessVars, busy, told, events>>

PolicyTurns ==
  /\ \E rules \in Policies, ready \in BOOLEAN : policy' = [rules |-> rules, ready |-> ready]
  /\ UNCHANGED <<people, roleTurns, subscriptionVars>>

SubscriptionNext ==
  \/ RolesTurn /\ UNCHANGED subscriptionVars
  \/ StoreTurns \/ ServiceStops \/ PolicyTurns
  \/ \E c \in Cards : Subscribes(c) \/ Closes(c) \/ Hears(c) \/ Tells(c)

SubscriptionSpec ==
  AccessInit /\ SubscriptionInit /\ [][SubscriptionNext]_<<accessVars, subscriptionVars>>
-----------------------------------------------------------------------------
(* A card hears nothing once it unsubscribed or the service stopped, the reason *)
(* goes only to an administrator who may read reports now, and a stopped        *)
(* service leaves no listener behind.                                          *)
QuietAfterEnd ==
  [][/\ \A c \in Cards : told'[c] # told[c] =>
          /\ card[c].listens /\ service = "running"
          /\ told'[c].reason => ActiveAdmin(card[c].who) /\ Allowed(policy.rules, "energy_reports", "read", card[c].who)
     /\ service' # "running" => \A c \in Cards : ~card'[c].listens]_<<accessVars, subscriptionVars>>
=============================================================================
