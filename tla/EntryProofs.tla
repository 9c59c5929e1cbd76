---------------------------- MODULE EntryProofs -----------------------------
(***************************************************************************)
(* The commands and the cards' subscription under a policy that changes,    *)
(* the setup of an entry and the Store document, for any number of commands, *)
(* persons, connections, setups, registry events, editors and restarts.      *)
(***************************************************************************)
EXTENDS Lifecycle, Commands, Subscription, EmailStore, TLAPS

(***************************************************************************)
(* The cards' subscription.                                                 *)
(***************************************************************************)
CardStates ==
  [who : Persons \cup {NoCard.who}, listens : BOOLEAN, closed : BOOLEAN, task : {"none", "waits", "done"}, policy : {<< >>}]

(* A card that does not listen has no reason task, and none listens to a       *)
(* service that is not running.                                               *)
SubscriptionInv ==
  /\ service \in {"running", "stopped"}
  /\ card \in [Cards -> CardStates]
  /\ told \in [Cards -> [reason : BOOLEAN, count : Nat]]
  /\ \A c \in Cards : card[c].listens => service = "running" /\ ~card[c].closed
  /\ \A c \in Cards : ~card[c].listens => card[c].task = "none"

LEMMA SubscriptionStarts == SubscriptionInit => SubscriptionInv
  BY DEF SubscriptionInit, SubscriptionInv, CardStates, NoCard

LEMMA UnsubscribedFacts ==
  ASSUME NEW k \in CardStates
  PROVE  /\ Unsubscribed(k) \in CardStates
         /\ ~Unsubscribed(k).listens /\ Unsubscribed(k).task = "none"
  BY DEF Unsubscribed, CardStates

LEMMA SubscriberFacts ==
  ASSUME NEW p \in Persons
  PROVE  LET k == [NoCard EXCEPT !.who = p, !.listens = TRUE] IN
         k \in CardStates /\ k.listens = TRUE /\ k.closed = FALSE /\ k.task = "none"
  BY DEF CardStates, NoCard

LEMMA SubscribesKeeps ==
  ASSUME SubscriptionInv, NEW c \in Cards, Subscribes(c)
  PROVE  SubscriptionInv'
<1>1. PICK p \in Persons : card' = [card EXCEPT ![c] = [NoCard EXCEPT !.who = p, !.listens = TRUE]]
  BY DEF Subscribes
<1> DEFINE k == [NoCard EXCEPT !.who = p, !.listens = TRUE]
<1>2. k \in CardStates /\ k.listens = TRUE /\ k.closed = FALSE /\ k.task = "none"
  BY SubscriberFacts
<1>3. card' = [card EXCEPT ![c] = k]
  BY <1>1
<1> HIDE DEF k
<1>4. service = "running" /\ UNCHANGED <<service, told>>
  BY DEF Subscribes
<1> QED BY <1>2, <1>3, <1>4 DEF SubscriptionInv

LEMMA ClosesKeeps ==
  ASSUME SubscriptionInv, NEW c \in Cards, Closes(c)
  PROVE  SubscriptionInv'
<1>1. card' = [card EXCEPT ![c] = Unsubscribed(card[c])] /\ UNCHANGED <<service, told>>
  BY DEF Closes
<1>2. card[c] \in CardStates
  BY DEF SubscriptionInv
<1>3. Unsubscribed(card[c]) \in CardStates /\ ~Unsubscribed(card[c]).listens /\ Unsubscribed(card[c]).task = "none"
  BY <1>2, UnsubscribedFacts
<1> QED BY <1>1, <1>3 DEF SubscriptionInv

LEMMA TaskFacts ==
  ASSUME NEW k \in CardStates, NEW t \in {"none", "waits", "done"}
  PROVE  LET m == [k EXCEPT !.task = t] IN
         m \in CardStates /\ m.listens = k.listens /\ m.closed = k.closed /\ m.task = t
  BY DEF CardStates

(* What an event, or the end of a reason task, may do to a card and send. *)
LEMMA TaskKeeps ==
  ASSUME SubscriptionInv, NEW c \in Cards, NEW t \in {"none", "waits", "done"}, UNCHANGED service,
         card' = [card EXCEPT ![c].task = t], ~card[c].listens => t = "none",
         told' \in [Cards -> [reason : BOOLEAN, count : Nat]]
  PROVE  SubscriptionInv'
<1> DEFINE m == [card[c] EXCEPT !.task = t]
<1>1. m \in CardStates /\ m.listens = card[c].listens /\ m.closed = card[c].closed /\ m.task = t
  BY TaskFacts DEF SubscriptionInv
<1>2. card' = [card EXCEPT ![c] = m]
  OBVIOUS
<1> HIDE DEF m
<1> QED BY <1>1, <1>2 DEF SubscriptionInv

LEMMA SentFacts ==
  ASSUME SubscriptionInv, NEW c \in Cards, NEW reason \in BOOLEAN
  PROVE  /\ Sent(c, reason) \in [Cards -> [reason : BOOLEAN, count : Nat]]
         /\ Sent(c, reason)[c].reason = reason
         /\ \A d \in Cards \ {c} : Sent(c, reason)[d] = told[d]
<1> DEFINE new == [reason |-> reason, count |-> told[c].count + 1]
<1>1. new \in [reason : BOOLEAN, count : Nat] /\ new.reason = reason
  BY DEF SubscriptionInv
<1>2. Sent(c, reason) = [told EXCEPT ![c] = new]
  BY DEF Sent
<1> HIDE DEF new
<1> QED BY <1>1, <1>2 DEF SubscriptionInv

(* What a step of a card may send: to that card, while it listens to a running *)
(* service, and the reason to whoever may know it.                            *)
Proper(c) ==
  /\ told' \in [Cards -> [reason : BOOLEAN, count : Nat]]
  /\ \A d \in Cards \ {c} : told'[d] = told[d]
  /\ told' # told => /\ card[c].listens /\ service = "running"
                     /\ told'[c].reason => MayKnow(card[c].who)

LEMMA EventIsProper ==
  ASSUME SubscriptionInv, NEW c \in Cards, Hears(c) \/ Tells(c)
  PROVE  Proper(c) /\ UNCHANGED service
<1>1. told \in [Cards -> [reason : BOOLEAN, count : Nat]] /\ MayKnow(card[c].who) \in BOOLEAN
  BY DEF SubscriptionInv, MayKnow
<1>2. told' = told \/ (card[c].listens /\ service = "running" /\
                       \E reason \in {FALSE, MayKnow(card[c].who)} : told' = Sent(c, reason))
  BY DEF Hears, Tells, ScheduleEvent
<1>3. CASE told' = told
  BY <1>1, <1>3 DEF Proper, Hears, Tells
<1>4. ASSUME card[c].listens, service = "running", NEW reason \in {FALSE, MayKnow(card[c].who)}, told' = Sent(c, reason)
      PROVE  Proper(c)
  <2>1. reason \in BOOLEAN /\ (reason => MayKnow(card[c].who))
    BY <1>1
  <2> QED BY <1>4, <2>1, SentFacts DEF Proper
<1>5. UNCHANGED service
  BY DEF Hears, Tells
<1> QED BY <1>2, <1>3, <1>4, <1>5

LEMMA EventKeeps ==
  ASSUME SubscriptionInv, NEW c \in Cards, Hears(c) \/ Tells(c)
  PROVE  SubscriptionInv'
<1>1. told' \in [Cards -> [reason : BOOLEAN, count : Nat]] /\ UNCHANGED service
  BY EventIsProper DEF Proper
<1>2. CASE card' = card
  BY <1>1, <1>2 DEF SubscriptionInv
<1>3. CASE card[c].listens /\ \E t \in {"waits", "done"} : card' = [card EXCEPT ![c].task = t]
  BY <1>1, <1>3, TaskKeeps
<1>4. CASE card' = [card EXCEPT ![c].task = "none"]
  BY <1>1, <1>4, TaskKeeps
<1>5. CASE card' = [card EXCEPT ![c] = Unsubscribed(card[c])]
  <2>1. card[c] \in CardStates
    BY DEF SubscriptionInv
  <2>2. Unsubscribed(card[c]) \in CardStates /\ ~Unsubscribed(card[c]).listens /\ Unsubscribed(card[c]).task = "none"
    BY <2>1, UnsubscribedFacts
  <2> QED BY <1>1, <1>5, <2>2 DEF SubscriptionInv
<1> QED BY <1>2, <1>3, <1>4, <1>5 DEF Hears, Tells, ScheduleEvent

LEMMA ServiceStopsKeeps ==
  ASSUME SubscriptionInv, ServiceStops
  PROVE  SubscriptionInv' /\ UNCHANGED told
<1>1. /\ service' = "stopped" /\ UNCHANGED told
      /\ card' = [c \in Cards |-> IF card[c].listens THEN Unsubscribed(card[c]) ELSE card[c]]
  BY DEF ServiceStops
<1>2. \A c \in Cards : card'[c] \in CardStates /\ ~card'[c].listens /\ card'[c].task = "none"
  <2> TAKE c \in Cards
  <2>1. card[c] \in CardStates
    BY DEF SubscriptionInv
  <2>2. Unsubscribed(card[c]) \in CardStates /\ ~Unsubscribed(card[c]).listens /\ Unsubscribed(card[c]).task = "none"
    BY <2>1, UnsubscribedFacts
  <2> QED BY <1>1, <2>1, <2>2 DEF SubscriptionInv
<1> QED BY <1>1, <1>2 DEF SubscriptionInv

LEMMA SubscriptionKept == SubscriptionInv /\ [SubscriptionNext]_<<accessVars, subscriptionVars>> => SubscriptionInv'
<1> SUFFICES ASSUME SubscriptionInv, [SubscriptionNext]_<<accessVars, subscriptionVars>> PROVE SubscriptionInv'
  OBVIOUS
<1>1. CASE UNCHANGED <<service, card, told>>
  BY <1>1 DEF SubscriptionInv
<1>2. CASE ServiceStops
  BY <1>2, ServiceStopsKeeps
<1>3. ASSUME NEW c \in Cards, Subscribes(c) \/ Closes(c) \/ Hears(c) \/ Tells(c) PROVE SubscriptionInv'
  BY <1>3, SubscribesKeeps, ClosesKeeps, EventKeeps
<1> QED BY <1>1, <1>2, <1>3 DEF SubscriptionNext, subscriptionVars, StoreTurns, PolicyTurns

(* Every reachable state of the subscription satisfies its invariant. *)
THEOREM SubscriptionInductive == SubscriptionSpec => []SubscriptionInv
<1> QED BY SubscriptionStarts, SubscriptionKept, PTL DEF SubscriptionSpec

(* After its end a connection is told nothing, and the reason goes only to an   *)
(* administrator who may read reports then, for any connections and events.   *)
THEOREM QuietAfterEndHolds == SubscriptionSpec => QuietAfterEnd
<1> DEFINE Quiet ==
      /\ \A c \in Cards : told'[c] # told[c] =>
           /\ card[c].listens /\ service = "running"
           /\ told'[c].reason => ActiveAdmin(card[c].who) /\ Allowed(policy.rules, "energy_reports", "read", card[c].who)
      /\ service' # "running" => \A c \in Cards : ~card'[c].listens
<1>1. SubscriptionInv /\ SubscriptionInv' /\ [SubscriptionNext]_<<accessVars, subscriptionVars>>
        => [Quiet]_<<accessVars, subscriptionVars>>
  <2> SUFFICES ASSUME SubscriptionInv, SubscriptionInv', SubscriptionNext PROVE Quiet
    OBVIOUS
  <2>1. service' # "running" => \A c \in Cards : ~card'[c].listens
    BY DEF SubscriptionInv
  <2>2. CASE told' = told
    BY <2>1, <2>2
  <2>3. ASSUME NEW c \in Cards, Hears(c) \/ Tells(c) PROVE Quiet
    <3>1. Proper(c)
      BY <2>3, EventIsProper
    <3> QED BY <2>1, <3>1 DEF Proper, MayKnow
  <2>4. told' = told \/ \E c \in Cards : Hears(c) \/ Tells(c)
    BY DEF SubscriptionNext, subscriptionVars, StoreTurns, PolicyTurns, ServiceStops, Subscribes, Closes
  <2> QED BY <2>2, <2>3, <2>4
<1> QED BY <1>1, SubscriptionInductive, PTL DEF SubscriptionSpec, QuietAfterEnd

(***************************************************************************)
(* The WebSocket commands.                                                  *)
(***************************************************************************)
Things ==
  {"expected", "policy", "storage", "coordinator", "tariff", "home", "sources", "service", "document", "calendar"}

Phases == {"idle", "policy", "read", "calculate", "lock", "locked", "save", "answer", "answered", "refused"}

AskStates ==
  [command : {"none"} \cup DOMAIN Command, who : Persons \cup {Nobody}, phase : Phases,
   rules : Policies \cup {<< >>}, stale : SUBSET Things]

(* The phases in which a command holds the policy it captured. *)
Captured == {"read", "calculate", "lock", "locked", "save", "answer"}

(* The Store's lock belongs to the command that compared its revision; nothing  *)
(* was published since.                                                        *)
HoldsStore(r, a, holder) == a.phase \in {"locked", "save"} => holder = r /\ "expected" \notin a.stale

(* A command that is asked again by its feature knows of a new policy. *)
KnowsPolicy(a, stored) ==
  a.phase \in Captured /\ Command[a.command].again = "feature" /\ "policy" \notin a.stale
    => stored.ready /\ stored.rules = a.rules

(* What a command under way has passed. *)
Passed(a) ==
  /\ a.phase \notin {"idle", "answered", "refused"} => a.command \in DOMAIN Command
  /\ a.phase = "save" => Command[a.command].work = "save"
  /\ a.phase = "save" /\ Command[a.command].again = "feature" => "policy" \notin a.stale

Good(r, a, stored, holder) ==
  a \in AskStates /\ HoldsStore(r, a, holder) /\ KnowsPolicy(a, stored) /\ Passed(a)

CommandsInv ==
  /\ ask \in [Asks -> AskStates]
  /\ policy \in [rules : Policies, ready : BOOLEAN]
  /\ \A r \in Asks : Good(r, ask[r], policy, store)

(* What the table of commands says of each of its records. *)
Sound(k) ==
  /\ k.again \in {"feature", "service", "admin", "person", "nobody"}
  /\ k.feature # "none" => k.again \in {"feature", "service"}
  /\ k.again = "feature" => k.admits = "feature" /\ k.feature # "none"
  /\ k.admits = "feature" /\ k.work = "save" => k.again = "feature"
  /\ k.feature = "energy_tariff" /\ k.work # "none" => "tariff" \in k.fence

LEMMA FeatureRecords ==
  /\ Sound(GetTariff) /\ Sound(GetTariffBook) /\ Sound(GetTariffProfile)
  /\ Sound(EnergyPriceQueries) /\ Sound(ListTariffTemplates) /\ Sound(SetTariff)
  /\ Sound(SetTariffBook) /\ Sound(SetTariffProfile) /\ Sound(PreviewTariffBook)
  /\ Sound(EnergySnapshotQuery) /\ Sound(GetReportStatus) /\ Sound(ListDeliveryTargets)
  BY DEF Sound, ByFeature, Book, GetTariff, GetTariffBook, GetTariffProfile, EnergyPriceQueries,
         ListTariffTemplates, SetTariff, SetTariffBook, SetTariffProfile, PreviewTariffBook,
         EnergySnapshotQuery, GetReportStatus, ListDeliveryTargets

LEMMA OtherRecords ==
  /\ Sound(EnergyAnalysisQuery) /\ Sound(EnergyPatterns) /\ Sound(EnergyReport) /\ Sound(EnergyModel)
  /\ Sound(PreviewEnergyReport) /\ Sound(GetFeatureAccess) /\ Sound(SetFeatureAccess)
  /\ Sound(FeatureCapabilities) /\ Sound(GetConfig) /\ Sound(ListSchedules)
  /\ Sound(GetAttemptHistory) /\ Sound(PreviewLogDigest)
  BY DEF Sound, ByService, ByPerson, EnergyAnalysisQuery, EnergyPatterns, EnergyReport, EnergyModel,
         PreviewEnergyReport, GetFeatureAccess, SetFeatureAccess, FeatureCapabilities, EntryOnly,
         GetConfig, ListSchedules, GetAttemptHistory, PreviewLogDigest

LEMMA CommandFacts ==
  /\ \A c \in DOMAIN Command : Sound(Command[c])
  /\ Command["get_feature_access"].again = "admin"
  /\ Command["set_feature_access"].again = "admin"
<1>1. \A c \in DOMAIN Command : Sound(Command[c])
  BY FeatureRecords, OtherRecords DEF Command
<1>2. Command["get_feature_access"].again = "admin" /\ Command["set_feature_access"].again = "admin"
  BY DEF Command, GetFeatureAccess, SetFeatureAccess, ByPerson
<1> QED BY <1>1, <1>2

LEMMA CommandsStart == AccessInit /\ CommandsInit => CommandsInv
  BY DEF AccessInit, CommandsInit, CommandsInv, Good, AskStates, Phases, Captured, Idle, HoldsStore,
         KnowsPolicy, Passed

(* A command that does not hold the Store does not care who does. *)
LEMMA OtherHolder ==
  ASSUME NEW r, NEW a, NEW stored, NEW holder, NEW next, Good(r, a, stored, holder), holder # r
  PROVE  Good(r, a, stored, next)
  BY DEF Good, HoldsStore

(* Things that change, the policy and the revision apart, are noted. *)
LEMMA Noted ==
  ASSUME NEW r, NEW a, NEW stored, NEW holder, Good(r, a, stored, holder),
         NEW things \in SUBSET (Things \ {"expected", "policy"})
  PROVE  Good(r, [a EXCEPT !.stale = @ \cup things], stored, holder)
<1> DEFINE b == [a EXCEPT !.stale = @ \cup things]
<1>1. a \in AskStates
  BY DEF Good
<1>2. /\ b \in AskStates /\ b.command = a.command /\ b.phase = a.phase /\ b.rules = a.rules
      /\ "policy" \in b.stale <=> "policy" \in a.stale
      /\ "expected" \in b.stale <=> "expected" \in a.stale
  BY <1>1 DEF AskStates, Things
<1> HIDE DEF b
<1>3. Good(r, b, stored, holder)
  BY <1>2 DEF Good, HoldsStore, KnowsPolicy, Passed
<1> QED BY <1>3 DEF b

(* What a command notes when another one, which held the Store, published.      *)
LEMMA Overtaken ==
  ASSUME NEW r, NEW a, NEW stored, NEW holder, NEW next, NEW committed,
         Good(r, a, stored, holder), holder # r,
         NEW things \in SUBSET Things, "policy" \in things \/ committed = stored
  PROVE  Good(r, [a EXCEPT !.stale = @ \cup things], committed, next)
<1> DEFINE b == [a EXCEPT !.stale = @ \cup things]
<1>1. a \in AskStates /\ a.phase \notin {"locked", "save"}
  BY DEF Good, HoldsStore
<1>2. /\ b \in AskStates /\ b.command = a.command /\ b.phase = a.phase /\ b.rules = a.rules
      /\ "policy" \notin b.stale => "policy" \notin a.stale /\ committed = stored
  BY <1>1 DEF AskStates
<1> HIDE DEF b
<1>3. Good(r, b, committed, next)
  BY <1>1, <1>2 DEF Good, HoldsStore, KnowsPolicy, Passed
<1> QED BY <1>3 DEF b

(* A step of one command that leaves the Store to the others. *)
LEMMA OneMoves ==
  ASSUME CommandsInv, NEW r \in Asks, NEW a, ask' = [ask EXCEPT ![r] = a], UNCHANGED policy,
         Good(r, a, policy, store'), store' = store \/ store \in {r, Nobody}
  PROVE  CommandsInv'
<1>1. a \in AskStates /\ ask' \in [Asks -> AskStates]
  BY DEF Good, CommandsInv
<1>2. ASSUME NEW q \in Asks PROVE Good(q, ask'[q], policy, store')
  <2>1. CASE q = r
    BY <2>1 DEF CommandsInv
  <2>2. CASE q # r /\ store' = store
    BY <2>2 DEF CommandsInv
  <2>3. CASE q # r /\ store \in {r, Nobody}
    <3>1. Good(q, ask[q], policy, store) /\ ask'[q] = ask[q] /\ store # q
      BY <2>3, CommandsAssumption DEF CommandsInv
    <3> QED BY <3>1, OtherHolder
  <2> QED BY <2>1, <2>2, <2>3
<1>3. policy' = policy /\ policy' \in [rules : Policies, ready : BOOLEAN]
  BY DEF CommandsInv
<1>4. \A q \in Asks : Good(q, ask'[q], policy', store')
  BY <1>2, <1>3
<1> QED BY <1>1, <1>3, <1>4 DEF CommandsInv

LEMMA WorkFacts == \A c \in DOMAIN Command : Command[c].work \in {"read", "calculate", "save", "preview", "none"}
<1> DEFINE Works == {"read", "calculate", "save", "preview", "none"}
<1>1. /\ GetTariff.work \in Works /\ GetTariffBook.work \in Works /\ GetTariffProfile.work \in Works
      /\ EnergyPriceQueries.work \in Works /\ ListTariffTemplates.work \in Works /\ SetTariff.work \in Works
      /\ SetTariffBook.work \in Works /\ SetTariffProfile.work \in Works /\ PreviewTariffBook.work \in Works
      /\ EnergySnapshotQuery.work \in Works /\ GetReportStatus.work \in Works /\ ListDeliveryTargets.work \in Works
  BY DEF ByFeature, Book, GetTariff, GetTariffBook, GetTariffProfile, EnergyPriceQueries,
         ListTariffTemplates, SetTariff, SetTariffBook, SetTariffProfile, PreviewTariffBook,
         EnergySnapshotQuery, GetReportStatus, ListDeliveryTargets
<1>2. /\ EnergyAnalysisQuery.work \in Works /\ EnergyPatterns.work \in Works /\ EnergyReport.work \in Works
      /\ EnergyModel.work \in Works /\ PreviewEnergyReport.work \in Works /\ GetFeatureAccess.work \in Works
      /\ SetFeatureAccess.work \in Works /\ FeatureCapabilities.work \in Works /\ GetConfig.work \in Works
      /\ ListSchedules.work \in Works /\ GetAttemptHistory.work \in Works /\ PreviewLogDigest.work \in Works
  BY DEF ByService, ByPerson, EnergyAnalysisQuery, EnergyPatterns, EnergyReport, EnergyModel,
         PreviewEnergyReport, GetFeatureAccess, SetFeatureAccess, FeatureCapabilities, EntryOnly,
         GetConfig, ListSchedules, GetAttemptHistory, PreviewLogDigest
<1> HIDE DEF Works
<1>3. \A c \in DOMAIN Command : Command[c].work \in Works
  BY <1>1, <1>2 DEF Command
<1> QED BY <1>3 DEF Works

LEMMA BegunFacts == \A c \in DOMAIN Command : Begun(c) \in {"read", "calculate", "lock", "answer"}
  BY WorkFacts DEF Begun

LEMMA ArrivesKeeps ==
  ASSUME CommandsInv, NEW r \in Asks, Arrives(r)
  PROVE  CommandsInv'
<1>1. PICK c \in Calls[r], p \in Persons, stale \in SUBSET {"expected"} :
        /\ Personal(Command[c].admits, p)
        /\ ask' = [ask EXCEPT ![r] = [command |-> c, who |-> p, rules |-> << >>, stale |-> stale,
                                      phase |-> IF Command[c].admits = "feature" THEN "policy" ELSE Begun(c)]]
  BY DEF Arrives
<1> DEFINE a == [command |-> c, who |-> p, rules |-> << >>, stale |-> stale,
                 phase |-> IF Command[c].admits = "feature" THEN "policy" ELSE Begun(c)]
<1>2. c \in DOMAIN Command
  BY CommandsAssumption
<1>3. Begun(c) \in {"read", "calculate", "lock", "answer"} /\ Sound(Command[c])
  BY <1>2, BegunFacts, CommandFacts
<1>4. a \in AskStates /\ a.command = c /\ a.phase \notin {"locked", "save"}
      /\ (Command[c].admits = "feature" => a.phase = "policy")
  BY <1>2, <1>3 DEF AskStates, Phases, Things
<1>5. ask' = [ask EXCEPT ![r] = a] /\ UNCHANGED <<policy, store>>
  BY <1>1 DEF Arrives, accessVars
<1> HIDE DEF a
<1>6. Good(r, a, policy, store')
  BY <1>2, <1>3, <1>4 DEF Good, HoldsStore, KnowsPolicy, Passed, Captured, Sound
<1> QED BY <1>5, <1>6, OneMoves

(* A command under way has a record of the table. *)
LEMMA UnderWayFacts ==
  ASSUME CommandsInv, NEW r \in Asks, UnderWay(ask[r])
  PROVE  /\ ask[r] \in AskStates /\ ask[r].command \in DOMAIN Command
         /\ Sound(Command[ask[r].command])
         /\ Begun(ask[r].command) \in {"read", "calculate", "lock", "answer"}
         /\ HoldsStore(r, ask[r], store) /\ KnowsPolicy(ask[r], policy) /\ Passed(ask[r])
<1>1. Good(r, ask[r], policy, store)
  BY DEF CommandsInv
<1>2. ask[r].command \in DOMAIN Command
  BY <1>1 DEF Good, Passed, UnderWay
<1>3. Sound(Command[ask[r].command]) /\ Begun(ask[r].command) \in {"read", "calculate", "lock", "answer"}
  BY <1>2, CommandFacts, BegunFacts
<1> QED BY <1>1, <1>2, <1>3 DEF Good

LEMMA ReadsPolicyKeeps ==
  ASSUME CommandsInv, NEW r \in Asks, ReadsPolicy(r)
  PROVE  CommandsInv'
<1> DEFINE begun == Begun(ask[r].command)
           a == [ask[r] EXCEPT !.phase = begun, !.rules = policy.rules, !.stale = @ \cap {"expected"}]
<1>1. UnderWay(ask[r]) /\ policy.ready /\ UNCHANGED <<policy, store>> /\ ask' = [ask EXCEPT ![r] = a]
  BY DEF ReadsPolicy, At, UnderWay, accessVars
<1>2. /\ ask[r] \in AskStates /\ ask[r].command \in DOMAIN Command
      /\ begun \in {"read", "calculate", "lock", "answer"}
  BY <1>1, UnderWayFacts
<1> HIDE DEF begun
<1>3. /\ a \in AskStates /\ a.command = ask[r].command /\ a.phase = begun /\ a.rules = policy.rules
  BY <1>2 DEF AskStates, Phases, Things, CommandsInv
<1> HIDE DEF a
<1>4. Good(r, a, policy, store')
  BY <1>1, <1>2, <1>3 DEF Good, HoldsStore, KnowsPolicy, Passed
<1> QED BY <1>1, <1>4, OneMoves

(* After its await a command looks at what it awaited, and nothing else. *)
LEMMA LookingFacts ==
  ASSUME CommandsInv, NEW r \in Asks, UnderWay(ask[r]), NEW phase \in {"answer", "locked", "save"},
         NEW things \in SUBSET Things
  PROVE  LET a == [ask[r] EXCEPT !.phase = phase, !.stale = @ \ things] IN
         /\ a \in AskStates /\ a.command = ask[r].command /\ a.phase = phase /\ a.rules = ask[r].rules
         /\ a.stale = ask[r].stale \ things
<1>1. ask[r] \in AskStates
  BY UnderWayFacts
<1> QED BY <1>1 DEF AskStates, Phases

LEMMA ReadsKeeps ==
  ASSUME CommandsInv, NEW r \in Asks, ReadsStore(r) \/ Calculates(r)
  PROVE  CommandsInv'
<1>1. UnderWay(ask[r]) /\ ask[r].phase \in Captured /\ UNCHANGED <<policy, store>>
  BY DEF ReadsStore, Calculates, At, UnderWay, Captured, accessVars
<1>2. /\ Sound(Command[ask[r].command]) /\ KnowsPolicy(ask[r], policy) /\ ask[r].command \in DOMAIN Command
  BY <1>1, UnderWayFacts
<1>3. PICK things \in SUBSET Things :
        /\ ask' = [ask EXCEPT ![r] = [ask[r] EXCEPT !.phase = "answer", !.stale = @ \ things]]
        /\ "policy" \in things => Command[ask[r].command].again # "feature"
  <2>1. CASE ReadsStore(r)
    <3> DEFINE x == IF Command[ask[r].command].feature = "none" THEN {"policy"} ELSE {"tariff", "document"}
    <3>1. x \in SUBSET Things /\ ("policy" \in x => Command[ask[r].command].again # "feature")
      BY <1>2 DEF Things, Sound
    <3>2. ask' = [ask EXCEPT ![r] = [ask[r] EXCEPT !.phase = "answer", !.stale = @ \ x]]
      BY <2>1 DEF ReadsStore, Looks
    <3> HIDE DEF x
    <3> QED BY <3>1, <3>2
  <2>2. CASE Calculates(r)
    <3> DEFINE x == {"sources", "tariff"} \cup IF Command[ask[r].command].again = "service" THEN {"policy"} ELSE {}
    <3>1. x \in SUBSET Things /\ ("policy" \in x => Command[ask[r].command].again # "feature")
      BY DEF Things
    <3>2. ask' = [ask EXCEPT ![r] = [ask[r] EXCEPT !.phase = "answer", !.stale = @ \ x]]
      BY <2>2 DEF Calculates, Looks
    <3> HIDE DEF x
    <3> QED BY <3>1, <3>2
  <2> QED BY <2>1, <2>2
<1> DEFINE a == [ask[r] EXCEPT !.phase = "answer", !.stale = @ \ things]
<1>4. /\ a \in AskStates /\ a.command = ask[r].command /\ a.phase = "answer" /\ a.rules = ask[r].rules
      /\ a.stale = ask[r].stale \ things
  BY <1>1, LookingFacts
<1> HIDE DEF a
<1>5. KnowsPolicy(a, policy)
  BY <1>1, <1>2, <1>3, <1>4 DEF KnowsPolicy
<1>6. Good(r, a, policy, store')
  BY <1>2, <1>4, <1>5 DEF Good, HoldsStore, Passed
<1> QED BY <1>1, <1>3, <1>6, OneMoves DEF a

LEMMA TakesStoreKeeps ==
  ASSUME CommandsInv, NEW r \in Asks, TakesStore(r)
  PROVE  CommandsInv'
<1> DEFINE a == [ask[r] EXCEPT !.phase = "locked"]
<1>1. /\ UnderWay(ask[r]) /\ ask[r].phase = "lock" /\ "expected" \notin ask[r].stale
      /\ UNCHANGED policy /\ ask' = [ask EXCEPT ![r] = a] /\ store = Nobody /\ store' = r
  BY DEF TakesStore, At, UnderWay, Moves, accessVars
<1>2. ask[r] \in AskStates /\ KnowsPolicy(ask[r], policy) /\ ask[r].command \in DOMAIN Command
  BY <1>1, UnderWayFacts
<1>3. /\ a \in AskStates /\ a.command = ask[r].command /\ a.phase = "locked" /\ a.rules = ask[r].rules
      /\ a.stale = ask[r].stale
  BY <1>2 DEF AskStates, Phases
<1> HIDE DEF a
<1>4. Good(r, a, policy, store')
  BY <1>1, <1>2, <1>3 DEF Good, HoldsStore, KnowsPolicy, Passed, Captured
<1> QED BY <1>1, <1>4, OneMoves

LEMMA StartsSaveKeeps ==
  ASSUME CommandsInv, NEW r \in Asks, StartsSave(r)
  PROVE  CommandsInv'
<1> DEFINE a == [ask[r] EXCEPT !.phase = "save"]
<1>1. /\ UnderWay(ask[r]) /\ ask[r].phase = "locked" /\ Command[ask[r].command].work = "save" /\ Reauthorized(r)
      /\ UNCHANGED <<policy, store>> /\ ask' = [ask EXCEPT ![r] = a]
  BY DEF StartsSave, At, UnderWay, Moves, accessVars
<1>2. /\ ask[r] \in AskStates /\ KnowsPolicy(ask[r], policy) /\ HoldsStore(r, ask[r], store)
      /\ ask[r].command \in DOMAIN Command
  BY <1>1, UnderWayFacts
<1>3. /\ a \in AskStates /\ a.command = ask[r].command /\ a.phase = "save" /\ a.rules = ask[r].rules
      /\ a.stale = ask[r].stale
  BY <1>2 DEF AskStates, Phases
<1>4. Command[ask[r].command].again = "feature" => "policy" \notin ask[r].stale
  BY <1>1 DEF Reauthorized
<1> HIDE DEF a
<1>5. Good(r, a, policy, store')
  BY <1>1, <1>2, <1>3, <1>4 DEF Good, HoldsStore, KnowsPolicy, Passed, Captured
<1> QED BY <1>1, <1>5, OneMoves

LEMMA PreviewedKeeps ==
  ASSUME CommandsInv, NEW r \in Asks, Previewed(r)
  PROVE  CommandsInv'
<1> DEFINE a == [ask[r] EXCEPT !.phase = "answer", !.stale = @ \ {"tariff"}]
<1>1. /\ UnderWay(ask[r]) /\ ask[r].phase = "locked" /\ UNCHANGED policy /\ store' = Nobody
      /\ ask' = [ask EXCEPT ![r] = a]
  BY DEF Previewed, At, UnderWay, Looks, accessVars
<1>2. /\ ask[r] \in AskStates /\ KnowsPolicy(ask[r], policy) /\ HoldsStore(r, ask[r], store)
      /\ ask[r].command \in DOMAIN Command
  BY <1>1, UnderWayFacts
<1>3. /\ a \in AskStates /\ a.command = ask[r].command /\ a.phase = "answer" /\ a.rules = ask[r].rules
      /\ a.stale = ask[r].stale \ {"tariff"}
  BY <1>1, LookingFacts DEF Things
<1> HIDE DEF a
<1>4. Good(r, a, policy, store') /\ store = r
  BY <1>1, <1>2, <1>3 DEF Good, HoldsStore, KnowsPolicy, Passed, Captured
<1> QED BY <1>1, <1>4, OneMoves

LEMMA EndedFacts ==
  ASSUME NEW phase \in {"answered", "refused"}, NEW r, NEW stored, NEW holder
  PROVE  Good(r, [Idle EXCEPT !.phase = phase], stored, holder)
  BY DEF Good, Idle, AskStates, Phases, HoldsStore, KnowsPolicy, Passed, Captured

LEMMA EndsKeeps ==
  ASSUME CommandsInv, NEW r \in Asks, Replies(r) \/ Refuses(r)
  PROVE  CommandsInv'
<1>1. PICK phase \in {"answered", "refused"} : ask' = [ask EXCEPT ![r] = [Idle EXCEPT !.phase = phase]]
  BY DEF Replies, Refuses
<1>2. UNCHANGED policy /\ (store' = store \/ store = r)
  BY DEF Replies, Refuses, accessVars
<1> QED BY <1>1, <1>2, EndedFacts, OneMoves

LEMMA ContextTurnsKeeps ==
  ASSUME CommandsInv, ContextTurns
  PROVE  CommandsInv'
<1>1. PICK x \in SUBSET (Things \ {"expected", "policy"}) : ask' = Staled(ask, x)
  <2> DEFINE changes == {{"home", "sources"}, {"sources"}, {"calendar"}, {"coordinator", "service", "sources"},
                         {"storage", "coordinator", "service", "sources"}}
  <2>1. \E x \in changes : ask' = Staled(ask, x)
    BY DEF ContextTurns
  <2>2. changes \subseteq SUBSET (Things \ {"expected", "policy"})
    BY DEF Things
  <2> QED BY <2>1, <2>2
<1>2. UNCHANGED <<policy, store>>
  BY DEF ContextTurns, accessVars
<1>3. ASSUME NEW q \in Asks PROVE Good(q, ask'[q], policy, store)
  <2>1. Good(q, ask[q], policy, store)
    BY DEF CommandsInv
  <2>2. CASE UnderWay(ask[q])
    <3> DEFINE things == x \cap Watched(ask[q].command)
    <3>1. ask'[q] = [ask[q] EXCEPT !.stale = @ \cup things]
      BY <1>1, <2>2 DEF Staled
    <3>2. things \in SUBSET (Things \ {"expected", "policy"})
      OBVIOUS
    <3> HIDE DEF things
    <3> QED BY <2>1, <3>1, <3>2, Noted
  <2>3. CASE ~UnderWay(ask[q])
    <3>1. ask'[q] = ask[q]
      BY <1>1, <2>3 DEF Staled
    <3> QED BY <2>1, <3>1
  <2> QED BY <2>2, <2>3
<1>4. ask' \in [Asks -> AskStates]
  BY <1>1, <1>3 DEF Staled, Good
<1> QED BY <1>2, <1>3, <1>4 DEF CommandsInv

(* What a commit does to the other commands. *)
LEMMA CommitsOvertakes ==
  ASSUME CommandsInv, NEW r \in Asks, Commits(r), NEW q \in Asks, q # r
  PROVE  Good(q, ask'[q], policy', store')
<1> DEFINE section == SectionOf(ask[r].command)
           other == {o \in Asks \ {r} : UnderWay(ask[o]) /\ SectionOf(ask[o].command) = section}
           noting == Staled(ask, {section, "document"})
<1>1. /\ UnderWay(ask[r]) /\ ask[r].phase = "save" /\ section \in {"policy", "tariff"}
      /\ section # "policy" => policy' = policy
      /\ ask'[q] = IF q \in other THEN [noting[q] EXCEPT !.stale = @ \cup {"expected"}] ELSE noting[q]
  BY DEF Commits, At, UnderWay, SectionOf
<1>2. Good(q, ask[q], policy, store) /\ store # q
  <2>1. HoldsStore(r, ask[r], store)
    BY <1>1, UnderWayFacts
  <2> QED BY <1>1, <2>1 DEF HoldsStore, CommandsInv
<1>3. CASE ~UnderWay(ask[q])
  <2>1. ask'[q] = ask[q]
    BY <1>1, <1>3 DEF Staled
  <2> QED BY <1>2, <1>3, <2>1 DEF Good, HoldsStore, KnowsPolicy, Passed, UnderWay, Captured
<1>4. CASE UnderWay(ask[q])
  <2> DEFINE noted == {section, "document"} \cap Watched(ask[q].command)
             things == IF q \in other THEN noted \cup {"expected"} ELSE noted
  <2>1. ask[q] \in AskStates
    BY <1>2 DEF Good
  <2>2. noting[q] = [ask[q] EXCEPT !.stale = @ \cup noted]
    BY <1>4 DEF Staled
  <2>3. section \in noted /\ noted \in SUBSET Things
    BY <1>1 DEF Watched, Things
  <2> HIDE DEF noted, section, noting, other
  <2>4. ask'[q] = [ask[q] EXCEPT !.stale = @ \cup things]
    BY <1>1, <2>1, <2>2 DEF AskStates
  <2>5. things \in SUBSET Things /\ ("policy" \in things \/ policy' = policy)
    BY <1>1, <2>3 DEF Things
  <2> HIDE DEF things
  <2> QED BY <1>2, <2>4, <2>5, Overtaken
<1> QED BY <1>3, <1>4

LEMMA CommitsKeeps ==
  ASSUME CommandsInv, NEW r \in Asks, Commits(r)
  PROVE  CommandsInv'
<1> DEFINE section == SectionOf(ask[r].command)
           a == [ask[r] EXCEPT !.phase = "answer", !.stale = @ \ {section}]
<1>1. /\ UnderWay(ask[r]) /\ ask[r].phase = "save" /\ section \in {"policy", "tariff"}
      /\ ask'[r] = a
  BY DEF Commits, At, UnderWay, SectionOf
<1>2. /\ ask[r] \in AskStates /\ KnowsPolicy(ask[r], policy) /\ Passed(ask[r]) /\ ask[r].command \in DOMAIN Command
  BY <1>1, UnderWayFacts
<1>3. policy' \in [rules : Policies, ready : BOOLEAN]
  <2>1. CASE ask[r].command = "set_feature_access"
    <3>1. PICK rules \in Policies : policy' = [rules |-> rules, ready |-> TRUE]
      BY <2>1 DEF Commits
    <3> QED BY <3>1
  <2>2. CASE ask[r].command # "set_feature_access"
    <3>1. policy' = policy
      BY <2>2 DEF Commits
    <3> QED BY <3>1 DEF CommandsInv
  <2> QED BY <2>1, <2>2
<1>4. /\ a \in AskStates /\ a.command = ask[r].command /\ a.phase = "answer" /\ a.rules = ask[r].rules
      /\ a.stale = ask[r].stale \ {section}
  <2>1. {section} \in SUBSET Things
    BY <1>1 DEF Things
  <2> HIDE DEF section
  <2> QED BY <1>1, <2>1, LookingFacts
<1>5. Command[a.command].again = "feature" => policy' = policy /\ "policy" \notin ask[r].stale
  <2>1. ask[r].command # "set_feature_access" => policy' = policy
    BY DEF Commits
  <2> QED BY <1>1, <1>2, <1>4, <2>1, CommandFacts DEF Passed
<1> HIDE DEF a, section
<1>6. KnowsPolicy(a, policy')
  BY <1>1, <1>2, <1>4, <1>5 DEF KnowsPolicy, Captured
<1>7. Good(r, ask'[r], policy', store')
  BY <1>1, <1>2, <1>4, <1>6 DEF Good, HoldsStore, Passed
<1>8. \A q \in Asks : Good(q, ask'[q], policy', store')
  BY <1>7, CommitsOvertakes
<1>9. ask' \in [Asks -> AskStates]
  <2>1. \A q \in Asks : ask'[q] \in AskStates
    BY <1>8 DEF Good
  <2> QED BY <2>1 DEF Commits
<1> QED BY <1>3, <1>8, <1>9 DEF CommandsInv

LEMMA CommandsKept == CommandsInv /\ [CommandsNext]_<<accessVars, commandVars>> => CommandsInv'
<1> SUFFICES ASSUME CommandsInv, [CommandsNext]_<<accessVars, commandVars>> PROVE CommandsInv'
  OBVIOUS
<1>1. CASE UNCHANGED <<policy, ask, store>>
  BY <1>1 DEF CommandsInv
<1>2. CASE ContextTurns
  BY <1>2, ContextTurnsKeeps
<1>3. ASSUME NEW r \in Asks,
             \/ Arrives(r) \/ ReadsPolicy(r) \/ ReadsStore(r) \/ Calculates(r) \/ TakesStore(r)
             \/ StartsSave(r) \/ Previewed(r) \/ Commits(r) \/ Replies(r) \/ Refuses(r)
      PROVE  CommandsInv'
  BY <1>3, ArrivesKeeps, ReadsPolicyKeeps, ReadsKeeps, TakesStoreKeeps, StartsSaveKeeps, PreviewedKeeps,
     CommitsKeeps, EndsKeeps
<1> QED BY <1>1, <1>2, <1>3 DEF CommandsNext, RolesTurn, commandVars, accessVars

(* Every reachable state of the commands satisfies their invariant. *)
THEOREM CommandsInductive == CommandsSpec => []CommandsInv
<1> QED BY CommandsStart, CommandsKept, PTL DEF CommandsSpec

(* Only the answer moves a command from its last check to its end. *)
LEMMA OnlyReplies ==
  ASSUME CommandsInv, CommandsNext, NEW r \in Asks, ask[r].phase = "answer", ask'[r].phase = "answered"
  PROVE  Replies(r)
<1>1. CASE UNCHANGED ask
  BY <1>1
<1>2. CASE ContextTurns
  <2>1. ask[r] \in AskStates
    BY DEF CommandsInv
  <2>2. ask'[r].phase = ask[r].phase
    BY <1>2, <2>1 DEF ContextTurns, Staled, AskStates
  <2> QED BY <2>2
<1>3. ASSUME NEW q \in Asks, q # r, ask'[r] = ask[r] PROVE FALSE
  BY <1>3
<1>4. ASSUME NEW q \in Asks, q # r, Commits(q) PROVE FALSE
  <2>1. ask[r] \in AskStates
    BY DEF CommandsInv
  <2>2. ask'[r].phase = ask[r].phase
    BY <1>4, <2>1 DEF Commits, Staled, AskStates
  <2> QED BY <2>2
<1>5. ASSUME NEW q \in Asks, q # r,
             \/ Arrives(q) \/ ReadsPolicy(q) \/ ReadsStore(q) \/ Calculates(q) \/ TakesStore(q)
             \/ StartsSave(q) \/ Previewed(q) \/ Replies(q) \/ Refuses(q)
      PROVE  FALSE
  BY <1>3, <1>5 DEF Arrives, ReadsPolicy, ReadsStore, Calculates, TakesStore, StartsSave, Previewed, Replies,
     Refuses, Moves, Looks, CommandsInv
<1>6. CASE \/ Arrives(r) \/ ReadsPolicy(r) \/ ReadsStore(r) \/ Calculates(r) \/ TakesStore(r)
           \/ StartsSave(r) \/ Previewed(r) \/ Commits(r)
  BY <1>6 DEF Arrives, ReadsPolicy, ReadsStore, Calculates, TakesStore, StartsSave, Previewed, Commits, At
<1>7. CASE Refuses(r)
  BY <1>7 DEF Refuses, Idle, CommandsInv
<1> QED BY <1>1, <1>2, <1>4, <1>5, <1>6, <1>7 DEF CommandsNext, commandVars

(* Whoever gets an answer may have it then, by the stored policy and the role of *)
(* that moment, for any commands, persons and policies.                        *)
THEOREM AnswersHoldHolds == CommandsSpec => AnswersHold
<1> DEFINE AnswerHolds(r) ==
      LET c == ask[r].command
          p == ask[r].who
      IN At(r, "answer") /\ ask'[r].phase = "answered" =>
           /\ c \in {"get_feature_access", "set_feature_access"} => ActiveAdmin(p)
           /\ Command[c].again # "nobody" => people[p].active
           /\ Command[c].feature # "none" => policy.ready /\ Entitled(c, policy.rules, p)
           /\ Command[c].feature = "energy_tariff" /\ Command[c].work # "none" => "tariff" \notin ask[r].stale
<1>1. CommandsInv /\ [CommandsNext]_<<accessVars, commandVars>> => [\A r \in Asks : AnswerHolds(r)]_commandVars
  <2> SUFFICES ASSUME CommandsInv, CommandsNext, NEW r \in Asks, ask[r].phase = "answer", ask'[r].phase = "answered"
               PROVE  AnswerHolds(r)
    BY DEF At, commandVars
  <2> DEFINE c == ask[r].command
             p == ask[r].who
  <2>1. Reauthorized(r) /\ ask[r].stale \cap Command[c].fence = {}
    BY OnlyReplies DEF Replies
  <2>2. Sound(Command[c]) /\ KnowsPolicy(ask[r], policy)
    BY UnderWayFacts DEF UnderWay
  <2>3. c \in {"get_feature_access", "set_feature_access"} => ActiveAdmin(p)
    BY <2>1, CommandFacts DEF Reauthorized, Personal
  <2>4. Command[c].again # "nobody" => people[p].active
    BY <2>1, <2>2 DEF Reauthorized, Personal, Entitled, Allowed, ActiveAdmin, Sound
  <2>5. Command[c].feature # "none" => policy.ready /\ Entitled(c, policy.rules, p)
    BY <2>1, <2>2 DEF Reauthorized, KnowsPolicy, Captured, Sound
  <2>6. Command[c].feature = "energy_tariff" /\ Command[c].work # "none" => "tariff" \notin ask[r].stale
    BY <2>1, <2>2 DEF Sound
  <2> QED BY <2>3, <2>4, <2>5, <2>6
<1> QED BY <1>1, CommandsInductive, PTL DEF CommandsSpec, AnswersHold

(* No save overwrites a revision its author has not seen or lands under another *)
(* policy than the captured one, for any commands, persons and policies.      *)
THEOREM SavesHoldHolds == CommandsSpec => SavesHold
<1> DEFINE SaveHolds(r) ==
      At(r, "save") /\ ask'[r].phase = "answer" =>
        /\ "expected" \notin ask[r].stale
        /\ Command[ask[r].command].admits = "feature" => policy.ready /\ policy.rules = ask[r].rules
<1>1. CommandsInv => [\A r \in Asks : SaveHolds(r)]_commandVars
  <2> SUFFICES ASSUME CommandsInv, NEW r \in Asks, ask[r].phase = "save" PROVE SaveHolds(r)
    BY DEF At
  <2>1. /\ Sound(Command[ask[r].command]) /\ KnowsPolicy(ask[r], policy) /\ Passed(ask[r])
        /\ HoldsStore(r, ask[r], store)
    BY UnderWayFacts DEF UnderWay
  <2> QED BY <2>1 DEF HoldsStore, KnowsPolicy, Passed, Captured, Sound
<1> QED BY <1>1, CommandsInductive, PTL DEF SavesHold

(***************************************************************************)
(* Setup and unload of the entry.                                           *)
(***************************************************************************)
Places ==
  {"unloaded", "ensure", "coordinator", "native", "forward", "association", "reload", "loaded", "unloading",
   "stuck", "cleanup", "failed"}

Entries == [gen : Nat, at : Places, forwarded : BOOLEAN]

Registries == [revision : Nat, told : Nat, waiting : Nat]

LifecycleType ==
  /\ entry \in Entries
  /\ published \in [Components -> Nat]
  /\ alive \subseteq Components \X Nat
  /\ repairs \in BOOLEAN
  /\ registry \in Registries

(* Between two setups and before a setup publishes anything.                 *)
Clean ==
  /\ alive = {} /\ registry.waiting = 0 /\ ~repairs
  /\ \A c \in Components : published[c] = 0

CleanBetween == entry.at \in {"unloaded", "failed", "cleanup", "ensure"} => Clean

NothingUnloaded == EntryAt("unloaded") => platforms = "none" /\ ~scheduler

(* What lives, waits or is published belongs to the present setup; at most   *)
(* one of them exists at a time.                                             *)
OneGeneration ==
  /\ \A o \in alive : o[2] = Gen
  /\ registry.waiting \in {0, Gen}
  /\ \A c \in Components : published[c] \in {0, Gen}

IssueOwned == repairs => \E g \in marked : Owns(g)

ChangesTold == \A g \in 1..Gen : Alive("registry", g) /\ registry.waiting = 0 => registry.told = registry.revision

LifecycleInv ==
  LifecycleType /\ CleanBetween /\ NothingUnloaded /\ OneGeneration /\ IssueOwned /\ ChangesTold

-----------------------------------------------------------------------------
(* Two fields of the registry's record change at once.                        *)
LEMMA RegistryRecords ==
  ASSUME NEW r \in Registries, NEW a \in Nat, NEW b \in Nat
  PROVE  /\ [r EXCEPT !.revision = a, !.told = b] \in Registries
         /\ [r EXCEPT !.revision = a, !.waiting = b] \in Registries
         /\ [r EXCEPT !.revision = a, !.waiting = b].waiting = b
         /\ r.revision + 1 \in Nat
<1>1. [r EXCEPT !.revision = a, !.told = b] \in Registries
  BY DEF Registries
<1>2. [r EXCEPT !.revision = a, !.waiting = b] \in Registries
  BY DEF Registries
<1>3. [r EXCEPT !.revision = a, !.waiting = b].waiting = b
  BY DEF Registries
<1>4. r.revision + 1 \in Nat
  BY DEF Registries
<1> QED BY <1>1, <1>2, <1>3, <1>4

(* An issue that exists is cleared by the present setup, whether its          *)
(* coordinator is still published or was just taken back.                     *)
LEMMA TakenBack ==
  ASSUME LifecycleInv, NEW holder \in {0, published["coordinator"]}, TakesBack(holder)
  PROVE  alive' = {} /\ registry'.waiting = 0 /\ ~repairs' /\ registry' \in Registries
         /\ repairs' \in BOOLEAN
<1>1. alive' = {}
  BY DEF LifecycleInv, OneGeneration, TakesBack
<1>2. registry'.waiting = 0 /\ registry' \in Registries
  BY DEF Registries, LifecycleInv, LifecycleType, OneGeneration, TakesBack
<1>3. ~repairs' /\ repairs' \in BOOLEAN
  <2>1. CASE ~repairs
    BY <2>1 DEF TakesBack, LifecycleInv, LifecycleType
  <2>2. CASE repairs
    <3>1. PICK g \in marked : Alive("coordinator", g) /\ published["coordinator"] = g
      BY <2>2 DEF LifecycleInv, IssueOwned, Owns
    <3>2. g = Gen
      BY <3>1 DEF Alive, LifecycleInv, OneGeneration
    <3>3. Clears(Gen, holder)
      BY <3>1, <3>2 DEF Clears
    <3> QED BY <3>3 DEF TakesBack
  <2> QED BY <2>1, <2>2 DEF LifecycleInv, LifecycleType
<1> QED BY <1>1, <1>2, <1>3

LEMMA LifecycleStarts == LifecycleInit => LifecycleInv
<1> SUFFICES ASSUME LifecycleInit PROVE LifecycleInv
  OBVIOUS
<1>1. entry.gen = 0 /\ alive = {} /\ ~repairs /\ registry.waiting = 0
  BY DEF LifecycleInit
<1>2. LifecycleType
  BY DEF Registries, LifecycleInit, LifecycleType, Entries, Places
<1>3. Clean
  BY DEF LifecycleInit, Clean
<1>4. OneGeneration
  BY <1>1, <1>3 DEF OneGeneration, Clean
<1> QED BY <1>1, <1>2, <1>3, <1>4
        DEF LifecycleInit, LifecycleInv, CleanBetween, NothingUnloaded, IssueOwned, ChangesTold, Alive

(* A step that only moves the entry, or that also lets the setup's own       *)
(* objects live and publishes its own keys.                                  *)
LEMMA MovesKeep ==
  ASSUME LifecycleInv, entry' \in Entries, entry'.gen = entry.gen,
         entry'.at \notin {"unloaded", "failed", "cleanup", "ensure"},
         NEW born \in SUBSET (Components \ {"registry"}),
         alive' = alive \cup {<<c, Gen>> : c \in born},
         \/ published' = published
         \/ published' = [published EXCEPT !["association"] = Gen],
         UNCHANGED <<repairs, marked, registry>>
  PROVE  LifecycleInv'
<1>0. Gen \in Nat /\ "coordinator" \in Components
  BY DEF LifecycleInv, LifecycleType, Gen, Entries, Components
<1>1. published' \in [Components -> Nat] /\ published'["coordinator"] = published["coordinator"]
      /\ \A c \in Components : published'[c] \in {published[c], Gen}
  BY <1>0 DEF LifecycleInv, LifecycleType
<1>a. alive' \subseteq Components \X Nat /\ \A o \in alive' : o \in alive \/ o[2] = Gen
  BY <1>0 DEF LifecycleInv, LifecycleType
<1>2. LifecycleType'
  BY <1>1, <1>a DEF LifecycleInv, LifecycleType
<1>3. OneGeneration'
  BY <1>1, <1>a DEF LifecycleInv, LifecycleType, OneGeneration, Gen
<1>4. CleanBetween' /\ NothingUnloaded'
  BY DEF CleanBetween, NothingUnloaded, EntryAt
<1>5. IssueOwned'
  BY <1>1 DEF LifecycleInv, IssueOwned, Owns, Alive
<1>6. \A g : Alive("registry", g)' => Alive("registry", g)
  BY DEF Alive
<1>7. ChangesTold'
  BY <1>6 DEF LifecycleInv, ChangesTold, Gen
<1> QED BY <1>2, <1>3, <1>4, <1>5, <1>7 DEF LifecycleInv

LEMMA EnsuresSetupKeeps ==
  ASSUME LifecycleInv, EnsuresSetup
  PROVE  LifecycleInv'
<1>1. Clean /\ Clean'
  BY DEF LifecycleInv, CleanBetween, Clean, EnsuresSetup
<1>2. LifecycleType' /\ entry'.at = "ensure"
  BY DEF LifecycleInv, LifecycleType, EnsuresSetup, Gen, Entries, Places
<1>3. OneGeneration'
  BY <1>1 DEF OneGeneration, Clean
<1> QED BY <1>1, <1>2, <1>3
        DEF LifecycleInv, CleanBetween, Clean, NothingUnloaded, IssueOwned, ChangesTold, EntryAt, Alive

LEMMA SetupKeeps ==
  ASSUME LifecycleInv,
         CoordinatorStarts \/ NativeListens \/ Forwards \/ AssociationStarts \/ ReloadsSchedules \/ UnloadBegins
  PROVE  LifecycleInv'
<1> USE DEF Goes, owned
<1>1. CASE CoordinatorStarts \/ ReloadsSchedules \/ UnloadBegins
  <2>1. entry' \in Entries /\ entry'.gen = entry.gen
        /\ entry'.at \in {"native", "loaded", "unloading"}
    BY <1>1 DEF CoordinatorStarts, ReloadsSchedules, UnloadBegins, LifecycleInv, LifecycleType, EntryAt, Entries, Places
  <2>2. alive' = alive \cup {<<c, Gen>> : c \in {}} /\ UNCHANGED <<published, repairs, marked, registry>>
    BY <1>1 DEF CoordinatorStarts, ReloadsSchedules, UnloadBegins
  <2> QED BY <2>1, <2>2, MovesKeep
<1>2. CASE NativeListens
  <2>1. entry' \in Entries /\ entry'.gen = entry.gen /\ entry'.at = "forward"
    BY <1>2 DEF NativeListens, LifecycleInv, LifecycleType, EntryAt, Entries, Places
  <2>2. alive' = alive \cup {<<c, Gen>> : c \in {"native"}} /\ UNCHANGED <<published, repairs, marked, registry>>
    BY <1>2 DEF NativeListens
  <2> QED BY <2>1, <2>2, MovesKeep DEF Components
<1>3. CASE Forwards
  <2>1. entry' \in Entries /\ entry'.gen = entry.gen /\ entry'.at = "association"
    BY <1>3 DEF Forwards, LifecycleInv, LifecycleType, EntryAt, Entries, Places
  <2>2. alive' = alive \cup {<<c, Gen>> : c \in {}} /\ UNCHANGED <<repairs, marked, registry>>
        /\ published' = [published EXCEPT !["association"] = Gen]
    BY <1>3 DEF Forwards
  <2> QED BY <2>1, <2>2, MovesKeep
<1>4. CASE AssociationStarts
  <2>1. entry' \in Entries /\ entry'.gen = entry.gen /\ entry'.at = "reload"
    BY <1>4 DEF AssociationStarts, LifecycleInv, LifecycleType, EntryAt, Entries, Places
  <2>2. alive' = alive \cup {<<c, Gen>> : c \in {"association", "runtime"}}
        /\ UNCHANGED <<published, repairs, marked, registry>>
    BY <1>4 DEF AssociationStarts
  <2> QED BY <2>1, <2>2, MovesKeep DEF Components
<1> QED BY <1>1, <1>2, <1>3, <1>4

LEMMA PublishesOwnersKeeps ==
  ASSUME LifecycleInv, PublishesOwners
  PROVE  LifecycleInv'
<1> USE DEF PublishesOwners, EntryAt, Gen, Goes, owned
<1>1. Clean
  BY DEF LifecycleInv, CleanBetween
<1>2. LifecycleType'
  <2>1. entry' \in Entries /\ Gen \in Nat
    BY DEF LifecycleInv, LifecycleType, Entries, Places
  <2>2. published' \in [Components -> Nat]
    BY <2>1 DEF LifecycleInv, LifecycleType
  <2>3. alive' \subseteq Components \X Nat
    BY <2>1 DEF LifecycleInv, LifecycleType, Components
  <2>4. registry' \in Registries
    <3>1. registry \in Registries
      BY DEF LifecycleInv, LifecycleType
    <3>2. registry' = [registry EXCEPT !.revision = registry.revision + 1, !.told = registry.revision + 1]
      OBVIOUS
    <3> HIDE DEF PublishesOwners
    <3> QED BY <3>1, <3>2, RegistryRecords
  <2> QED BY <2>1, <2>2, <2>3, <2>4 DEF LifecycleInv, LifecycleType
<1>3. entry'.at = "coordinator" /\ entry'.gen = entry.gen
  BY DEF LifecycleInv, LifecycleType, Entries, Places
<1>4. OneGeneration'
  BY <1>1, <1>3 DEF LifecycleInv, LifecycleType, OneGeneration, Clean, Components
<1>5. CleanBetween' /\ NothingUnloaded' /\ IssueOwned' /\ ChangesTold'
  BY <1>1, <1>3 DEF LifecycleInv, LifecycleType, CleanBetween, NothingUnloaded, IssueOwned, ChangesTold, Clean
<1> QED BY <1>2, <1>4, <1>5 DEF LifecycleInv

LEMMA StoppingKeeps ==
  ASSUME LifecycleInv, SetupFails \/ CleansUp \/ Unloads \/ UnloadFails
  PROVE  LifecycleInv'
<1> USE DEF EntryAt, Gen, Goes, owned
<1>1. CASE SetupFails
  <2>1. entry' \in Entries /\ entry'.gen = entry.gen
        /\ entry'.at \in {"failed", "cleanup"}
    BY <1>1 DEF SetupFails, LifecycleInv, LifecycleType, EntryAt, Entries, Places
  <2>2. Clean' /\ published' \in [Components -> Nat] /\ repairs' \in BOOLEAN
        /\ registry' \in Registries
    <3>1. CASE entry.at = "ensure"
      BY <1>1, <3>1 DEF SetupFails, LifecycleInv, LifecycleType, CleanBetween, Clean
    <3>2. CASE entry.at # "ensure"
      <4>1. TakesBack(published["coordinator"])
        BY <1>1, <3>2 DEF SetupFails
      <4>2. \A c \in Components : published'[c] = 0
        BY <1>1, <3>2 DEF SetupFails, LifecycleInv, OneGeneration, LifecycleType
      <4>3. published' \in [Components -> Nat]
        BY <1>1, <3>2 DEF SetupFails, LifecycleInv, LifecycleType, EntryAt, Entries, Places
      <4> QED BY <4>1, <4>2, <4>3, TakenBack DEF Clean
    <3> QED BY <3>1, <3>2
  <2> QED BY <2>1, <2>2 DEF LifecycleInv, LifecycleType, CleanBetween, Clean, NothingUnloaded, OneGeneration,
                         IssueOwned, ChangesTold, Alive
<1>2. CASE Unloads
  <2>1. TakesBack(0)
    BY <1>2 DEF Unloads
  <2>2. entry' \in Entries /\ entry'.gen = entry.gen /\ entry'.at = "unloaded"
    BY <1>2 DEF Unloads, LifecycleInv, LifecycleType, EntryAt, Entries, Places
  <2>3. \A c \in Components : published'[c] = 0
    BY <1>2 DEF Unloads
  <2>4. published' \in [Components -> Nat]
    BY <1>2 DEF Unloads
  <2> QED BY <1>2, <2>1, <2>2, <2>3, <2>4, TakenBack
          DEF Unloads, LifecycleInv, LifecycleType, CleanBetween, Clean, NothingUnloaded, OneGeneration,
              IssueOwned, ChangesTold, Alive
<1>3. CASE CleansUp \/ UnloadFails
  <2>1. entry' \in Entries /\ entry'.gen = entry.gen /\ entry'.at \in {"failed", "stuck"}
        /\ (entry'.at = "failed" => entry.at = "cleanup")
    BY <1>3 DEF CleansUp, UnloadFails, LifecycleInv, LifecycleType, Entries, Places
  <2>2. UNCHANGED <<published, alive, repairs, marked, registry>>
    BY <1>3 DEF CleansUp, UnloadFails
  <2>3. LifecycleType' /\ OneGeneration'
    BY <2>1, <2>2 DEF LifecycleInv, LifecycleType, OneGeneration
  <2>4. CleanBetween' /\ NothingUnloaded'
    BY <2>1, <2>2 DEF LifecycleInv, CleanBetween, Clean, NothingUnloaded
  <2>5. IssueOwned' /\ ChangesTold'
    BY <2>1, <2>2 DEF LifecycleInv, IssueOwned, ChangesTold, Alive, Owns
  <2> QED BY <2>3, <2>4, <2>5 DEF LifecycleInv
<1> QED BY <1>1, <1>2, <1>3

LEMMA MeanwhileKeeps ==
  ASSUME LifecycleInv, RegistryChanges \/ RegistryNotifies \/ TickReports \/ AnalysisReports
  PROVE  LifecycleInv'
<1> USE DEF EntryAt, Gen, owned
<1>1. CASE RegistryChanges
  <2>1. PICK g \in 1..Gen : Alive("registry", g) /\ registry' = Coalesced(g)
    BY <1>1 DEF RegistryChanges
  <2>2. g = Gen /\ g # 0 /\ alive # {}
    BY <2>1 DEF Alive, LifecycleInv, OneGeneration, LifecycleType
  <2>g. Gen \in Nat
    BY DEF LifecycleInv, LifecycleType, Entries
  <2>3. registry' \in Registries /\ registry'.waiting = Gen
    <3>1. registry \in Registries /\ registry.waiting \in {0, Gen}
      BY DEF LifecycleInv, LifecycleType, OneGeneration
    <3>2. registry' = [registry EXCEPT !.revision = registry.revision + 1, !.waiting = Gen]
      BY <2>1, <2>2, <2>g, <3>1 DEF Coalesced
    <3> QED BY <3>1, <3>2, <2>g, RegistryRecords
  <2> QED BY <1>1, <2>2, <2>3
          DEF RegistryChanges, LifecycleInv, LifecycleType, CleanBetween, Clean, NothingUnloaded, OneGeneration,
              IssueOwned, ChangesTold, Alive, Owns
<1>2. CASE RegistryNotifies
  BY <1>2 DEF Registries, RegistryNotifies, LifecycleInv, LifecycleType, CleanBetween, Clean, NothingUnloaded, OneGeneration,
              IssueOwned, ChangesTold, Alive, Owns
<1>3. CASE TickReports \/ AnalysisReports
  <2>1. PICK g \in 1..Gen : Owns(g) /\ Marks(g)
    BY <1>3 DEF TickReports, AnalysisReports
  <2>2. alive # {}
    BY <2>1 DEF Owns, Alive
  <2>3. IssueOwned'
    BY <2>1 DEF IssueOwned, Owns, Marks, Alive
  <2> QED BY <2>1, <2>2, <2>3
          DEF Marks, LifecycleInv, LifecycleType, CleanBetween, Clean, NothingUnloaded, OneGeneration, ChangesTold, Alive
<1> QED BY <1>1, <1>2, <1>3

(* One setup lives at a time, and between setups nothing does.               *)
THEOREM LifecycleInductive == LifecycleSpec => []LifecycleInv
<1>1. LifecycleInv /\ [LifecycleNext]_lifecycleVars => LifecycleInv'
  <2> SUFFICES ASSUME LifecycleInv, [LifecycleNext]_lifecycleVars PROVE LifecycleInv'
    OBVIOUS
  <2>1. CASE UNCHANGED lifecycleVars
    BY <2>1 DEF lifecycleVars, LifecycleInv, LifecycleType, CleanBetween, Clean, NothingUnloaded, OneGeneration,
                IssueOwned, ChangesTold, EntryAt, Gen, Alive, Owns
  <2>2. CASE LifecycleNext
    BY <2>2, EnsuresSetupKeeps, SetupKeeps, PublishesOwnersKeeps, StoppingKeeps, MeanwhileKeeps DEF LifecycleNext
  <2> QED BY <2>1, <2>2
<1> QED BY <1>1, LifecycleStarts, PTL DEF LifecycleSpec

(* After a failed setup and after an unload nothing of it listens, waits, is  *)
(* published or shown, and no step of a setup meets another generation.       *)
THEOREM NothingIsLeft == LifecycleSpec => []NothingLeft
<1>1. LifecycleInv => NothingLeft
  BY DEF LifecycleInv, CleanBetween, Clean, NothingUnloaded, OneGeneration, IssueOwned, ChangesTold, NothingLeft
<1> QED BY <1>1, LifecycleInductive, PTL

(***************************************************************************)
(* The Store document.                                                      *)
(***************************************************************************)
(* The step of an edit on one document. *)
LEMMA WithFacts ==
  ASSUME NEW d \in DocType, NEW s \in Sections, NEW n \in Int
  PROVE  /\ With(d, s, n) \in DocType
         /\ With(d, s, n).edit[s] = n
         /\ \A t \in Sections \ {s} : With(d, s, n).edit[t] = d.edit[t]
         /\ \A r \in Revised \ {s} : With(d, s, n).rev[r] = d.rev[r]
         /\ s \in Revised => With(d, s, n).rev[s] = d.rev[s] + 1
<1> DEFINE edit == [d.edit EXCEPT ![s] = n]
<1> DEFINE rev == [r \in Revised |-> IF r = s THEN d.rev[r] + 1 ELSE d.rev[r]]
<1>1. With(d, s, n) = [d EXCEPT !.edit = edit, !.rev = rev]
  BY DEF With
<1>2. edit \in [Sections -> Int] /\ rev \in [Revised -> Int]
  BY DEF DocType
<1>3. edit[s] = n /\ \A t \in Sections \ {s} : edit[t] = d.edit[t]
  BY DEF DocType
<1>4. (\A r \in Revised \ {s} : rev[r] = d.rev[r]) /\ (s \in Revised => rev[s] = d.rev[s] + 1)
  OBVIOUS
<1> HIDE DEF edit, rev
<1>5. With(d, s, n).edit = edit /\ With(d, s, n).rev = rev /\ With(d, s, n) \in DocType
  BY <1>1, <1>2 DEF DocType
<1> QED
  BY <1>3, <1>4, <1>5

LEMMA RevisedAreSections == Revised \subseteq Sections
BY DEF Sections, Revised

(* Steps of the cards, and the restart of nothing. *)
LEMMA SameInv ==
  ASSUME StoreInv, UNCHANGED <<docVars, known, edits, acked, cancels>>
  PROVE  StoreInv'
BY DEF StoreInv, VarTypes, Stages, InUse, SettingsInUse, AckedInUse, KnownInUse, DiskAhead, NoLostUpdate, docVars

(* No document comes into use that was not in use before. *)
LEMMA Shrinks ==
  ASSUME StoreInv, InUse' \subseteq InUse, orphans' \subseteq orphans,
         UNCHANGED <<legacy, known, edits, acked, cancels>>
  PROVE  SettingsInUse' /\ (cancels = 0 => orphans' = {} /\ AckedInUse' /\ KnownInUse')
BY DEF StoreInv, SettingsInUse, AckedInUse, KnownInUse

LEMMA InitStore == Init => StoreInv
<1> SUFFICES ASSUME Init PROVE StoreInv
  OBVIOUS
<1>1. Empty \in DocType /\ \A s \in Sections : Empty.edit[s] = 0
  BY DEF Empty, DocType, Unset
<1>2. VarTypes
  BY <1>1 DEF Init, VarTypes, Migrated
<1>3. Stages
  BY DEF Init, Stages, NoOp
<1>4. InUse = {Empty}
  BY DEF Init, InUse, NoOp
<1>5. SettingsInUse
  BY DEF Init, SettingsInUse
<1>6. AckedInUse
  BY <1>1, <1>4 DEF Init, AckedInUse, Migrated, Unset
<1>7. KnownInUse /\ DiskAhead /\ NoLostUpdate /\ orphans = {}
  BY DEF Init, KnownInUse, DiskAhead, NoLostUpdate, NoOp
<1> QED
  BY <1>2, <1>3, <1>5, <1>6, <1>7 DEF StoreInv

LEMMA LoadBeginsStep == StoreInv /\ LoadBegins => StoreInv'
<1> SUFFICES ASSUME StoreInv, LoadBegins PROVE StoreInv'
  OBVIOUS
<1>u. UNCHANGED <<disk, orphans, legacy, known, edits, acked, cancels>> /\ data = None /\ orphans = {}
  BY DEF LoadBegins, editVars, StoreInv, Stages
<1>0. disk \in DocType /\ "smtp" \in Sections /\ Migrated \in Int /\ "smtp" \notin Revised
  BY DEF StoreInv, VarTypes, Sections, Revised, Migrated
<1>1. CASE legacy = "present" /\ disk.edit["smtp"] = Unset
  <2>1. op' = [pc |-> "migrating", cand |-> With(disk, "smtp", Migrated)] /\ data' = data
    BY <1>1 DEF LoadBegins
  <2> DEFINE c == With(disk, "smtp", Migrated)
  <2>2. /\ c \in DocType /\ c.edit["smtp"] = Migrated
        /\ \A t \in Sections \ {"smtp"} : c.edit[t] = disk.edit[t]
        /\ \A r \in Revised : c.rev[r] = disk.rev[r]
    BY <1>0, WithFacts
  <2> HIDE DEF c
  <2>3. op'.cand = c /\ op'.pc = "migrating"
    BY <2>1 DEF c
  <2>4. InUse' = {disk, c} /\ disk \in InUse
    BY <2>3, <2>1, <1>u DEF InUse
  <2>5. VarTypes' /\ Stages' /\ SettingsInUse'
    BY <2>1, <1>u, <1>1 DEF StoreInv, VarTypes, Stages, SettingsInUse
  <2>6. ASSUME cancels = 0 PROVE AckedInUse'
    <3>1. AckedInUse
      BY <2>6 DEF StoreInv
    <3>2. acked["smtp"] = Migrated
      BY <3>1, <2>4, <1>0, <1>1 DEF AckedInUse, Unset, Migrated, StoreInv, VarTypes
    <3>3. \A s \in Sections : c.edit[s] >= acked[s]
      BY <3>1, <3>2, <2>2, <2>4 DEF AckedInUse, Migrated
    <3> QED
      BY <3>1, <3>3, <2>4, <1>u DEF AckedInUse
  <2>7. ASSUME cancels = 0 PROVE KnownInUse'
    <3>1. KnownInUse
      BY <2>7 DEF StoreInv
    <3>2. \A e \in Editors : known[e] # None => known[e].section \in Sections \ {"smtp"} /\ known[e].section \in Revised
      BY <1>0, RevisedAreSections DEF StoreInv, VarTypes
    <3> QED
      BY <3>1, <3>2, <2>2, <2>4, <1>u DEF KnownInUse
  <2> QED
    BY <2>1, <2>3, <2>5, <2>6, <2>7, <1>u DEF StoreInv, DiskAhead, NoLostUpdate
<1>2. CASE ~(legacy = "present" /\ disk.edit["smtp"] = Unset)
  <2>1. op' = [pc |-> "removing"] /\ data' = disk
    BY <1>2 DEF LoadBegins
  <2>2. InUse' \subseteq InUse /\ op'.pc = "removing"
    BY <2>1, <1>u DEF InUse
  <2>3. VarTypes' /\ Stages' /\ SettingsInUse'
    BY <2>1, <2>2, <1>0, <1>u, <1>2, NoneAssumption DEF StoreInv, VarTypes, Stages, SettingsInUse
  <2>4. DiskAhead' /\ NoLostUpdate'
    BY <2>1, <1>u, <1>0 DEF DiskAhead, NoLostUpdate, DocType
  <2>5. cancels = 0 => AckedInUse' /\ KnownInUse'
    BY <2>2, <1>u DEF StoreInv, AckedInUse, KnownInUse
  <2> QED
    BY <2>3, <2>4, <2>5, <1>u DEF StoreInv
<1> QED
  BY <1>1, <1>2

LEMMA MigrationEndsStep ==
  ASSUME StoreInv, NEW ok \in BOOLEAN, NEW durable \in BOOLEAN, MigrationEnds(ok, durable)
  PROVE  StoreInv'
<1> DEFINE c == op.cand
<1>u. UNCHANGED <<orphans, legacy, known, edits, acked, cancels>> /\ orphans = {}
  BY DEF MigrationEnds, editVars, StoreInv, Stages
<1>0. op.pc = "migrating" /\ data = None /\ c = With(disk, "smtp", Migrated) /\ InUse = {disk, c}
  BY DEF MigrationEnds, StoreInv, Stages, InUse
<1>d. disk \in DocType /\ "smtp" \in Sections /\ Migrated \in Int
  BY DEF StoreInv, VarTypes, Sections, Migrated
<1>1. c \in DocType /\ c.edit["smtp"] = Migrated
  BY <1>0, <1>d, WithFacts
<1>n. c.edit["smtp"] # Unset /\ c # None
  BY <1>1, NoneAssumption DEF Migrated, Unset
<1>2. disk' \in {disk, c}
  BY DEF MigrationEnds
<1> HIDE DEF c
<1>3. CASE ok = TRUE
  <2>1. disk' = c /\ data' = c /\ op' = [pc |-> "removing"]
    BY <1>3 DEF MigrationEnds, c
  <2>2. InUse' \subseteq InUse
    BY <2>1, <1>0 DEF InUse
  <2>3. VarTypes' /\ Stages'
    BY <2>1, <1>1, <1>n, <1>u DEF StoreInv, VarTypes, Stages
  <2>4. DiskAhead' /\ NoLostUpdate'
    BY <2>1, <1>1 DEF DiskAhead, NoLostUpdate, DocType
  <2> QED
    BY <2>2, <2>3, <2>4, <1>u, Shrinks DEF StoreInv
<1>4. CASE ok = FALSE
  <2>1. data' = None /\ op' = NoOp
    BY <1>4, <1>0 DEF MigrationEnds
  <2>2. InUse' \subseteq InUse
    BY <2>1, <1>0, <1>2 DEF InUse, NoOp
  <2>3. VarTypes' /\ Stages'
    BY <2>1, <1>1, <1>d, <1>2, <1>u DEF StoreInv, VarTypes, Stages, NoOp
  <2> QED
    BY <2>1, <2>2, <2>3, <1>u, Shrinks DEF StoreInv, DiskAhead, NoLostUpdate, NoOp
<1> QED
  BY <1>3, <1>4

(* The file goes only after the document that is durable holds its settings. *)
LEMMA LegacyRemovedStep == StoreInv /\ LegacyRemoved => StoreInv'
<1> SUFFICES ASSUME StoreInv, LegacyRemoved PROVE StoreInv'
  OBVIOUS
<1>1. op.pc = "removing" /\ op' = NoOp /\ orphans = {} /\ data = disk
  BY DEF LegacyRemoved, RemovesEarly, StoreInv, Stages
<1>2. UNCHANGED <<data, disk, orphans, known, edits, acked, cancels>>
  BY DEF LegacyRemoved, editVars
<1>3. InUse = {disk} /\ InUse' = {disk}
  BY <1>1, <1>2, NoneAssumption DEF InUse, NoOp, StoreInv, VarTypes
<1>4. VarTypes' /\ Stages'
  BY <1>1, <1>2, NoneAssumption DEF LegacyRemoved, StoreInv, VarTypes, Stages, NoOp
<1>5. SettingsInUse'
  BY <1>1, <1>2, <1>3 DEF LegacyRemoved, StoreInv, Stages, SettingsInUse
<1>6. cancels = 0 => AckedInUse' /\ KnownInUse'
  BY <1>2, <1>3 DEF StoreInv, AckedInUse, KnownInUse
<1> QED
  BY <1>1, <1>2, <1>4, <1>5, <1>6 DEF StoreInv, DiskAhead, NoLostUpdate, NoOp

LEMMA EditorReadsStep ==
  ASSUME StoreInv, NEW e \in Editors, NEW s \in Revised, EditorReads(e, s)
  PROVE  StoreInv'
<1> DEFINE k == [section |-> s, rev |-> data.rev[s], edit |-> data.edit[s]]
<1>1. UNCHANGED <<docVars, edits, acked, cancels>> /\ data # None /\ op = NoOp
  BY DEF EditorReads, Ready, Free
<1>2. data \in DocType /\ s \in Sections /\ InUse = {disk, data}
  BY <1>1, RevisedAreSections DEF StoreInv, VarTypes, InUse, NoOp
<1>3. k \in [section : Revised, rev : Int, edit : Int]
  BY <1>2 DEF DocType
<1>4. \A f \in Editors : known'[f] = known[f] \/ (f = e /\ known'[f] = k)
  BY DEF EditorReads, StoreInv, VarTypes
<1>5. UNCHANGED InUse
  BY <1>1 DEF InUse, docVars
<1> HIDE DEF k
<1>6. VarTypes' /\ Stages' /\ SettingsInUse'
  BY <1>1, <1>3, <1>4, <1>5 DEF StoreInv, VarTypes, Stages, SettingsInUse, docVars
<1>7. ASSUME cancels = 0 PROVE KnownInUse'
  <2> SUFFICES ASSUME NEW f \in Editors, NEW d \in InUse, known'[f] # None
               PROVE  /\ known'[f].rev <= d.rev[known'[f].section]
                      /\ known'[f].rev = d.rev[known'[f].section] =>
                           known'[f].edit = d.edit[known'[f].section]
    BY <1>5 DEF KnownInUse
  <2>1. CASE known'[f] = known[f]
    BY <2>1, <1>7 DEF StoreInv, KnownInUse
  <2>2. CASE known'[f] = k
    <3>1. data.rev[s] <= d.rev[s] /\ (data.rev[s] = d.rev[s] => data.edit[s] = d.edit[s])
      BY <1>1, <1>2, <1>7 DEF StoreInv, DiskAhead, DocType
    <3> QED
      BY <3>1, <2>2 DEF k
  <2> QED
    BY <1>4, <2>1, <2>2
<1>8. cancels = 0 => orphans' = {} /\ AckedInUse' /\ DiskAhead' /\ NoLostUpdate'
  BY <1>1, <1>5 DEF StoreInv, AckedInUse, DiskAhead, NoLostUpdate, docVars, NoOp
<1> QED
  BY <1>1, <1>6, <1>7, <1>8 DEF StoreInv

(* A save replaces one section of the published document. *)
LEMMA SaveBeginsStep ==
  ASSUME StoreInv, NEW s \in Sections, NEW seen, SaveBegins(s, seen),
         cancels = 0 /\ s \in Revised => seen = data.edit[s]
  PROVE  StoreInv'
<1> DEFINE c == With(data, s, edits + 1)
<1>1. /\ UNCHANGED <<data, disk, orphans, legacy, known, acked, cancels>>
      /\ data # None /\ op = NoOp /\ edits' = edits + 1
      /\ op' = [pc |-> "saving", section |-> s, seen |-> seen, cand |-> c]
  BY DEF SaveBegins, Ready, Free
<1>2. data \in DocType /\ disk \in DocType /\ edits \in Nat /\ acked \in [Sections -> Int]
  BY <1>1 DEF StoreInv, VarTypes
<1>3. /\ c \in DocType /\ c.edit[s] = edits + 1
      /\ \A t \in Sections \ {s} : c.edit[t] = data.edit[t]
      /\ \A r \in Revised \ {s} : c.rev[r] = data.rev[r]
      /\ s \in Revised => c.rev[s] = data.rev[s] + 1
  BY <1>2, WithFacts
<1> HIDE DEF c
<1>4. op'.pc = "saving" /\ op'.cand = c /\ op'.section = s /\ op'.seen = seen
  BY <1>1
<1>5. InUse = {disk, data} /\ InUse' = InUse \cup {c}
  BY <1>1, <1>4 DEF InUse, NoOp
<1>6. VarTypes'
  BY <1>1, <1>2 DEF StoreInv, VarTypes
<1>7. Stages'
  BY <1>1, <1>2, <1>4 DEF StoreInv, Stages, c
<1>8. SettingsInUse'
  <2>1. legacy = "removed" => data.edit["smtp"] # Unset
    BY <1>5 DEF StoreInv, SettingsInUse
  <2>2. legacy = "removed" => c.edit["smtp"] # Unset
    BY <2>1, <1>2, <1>3 DEF Sections, Unset
  <2> QED
    BY <2>2, <1>1, <1>5 DEF StoreInv, SettingsInUse
<1>9. ASSUME cancels = 0 PROVE AckedInUse'
  <2>1. AckedInUse
    BY <1>9 DEF StoreInv
  <2>2. \A t \in Sections : data.edit[t] >= acked[t] /\ acked[t] <= edits
    BY <2>1, <1>5 DEF AckedInUse
  <2>3. \A t \in Sections : c.edit[t] >= acked[t] /\ acked[t] <= edits + 1
    BY <2>2, <1>2, <1>3
  <2> QED
    BY <2>1, <2>3, <1>1, <1>5 DEF AckedInUse
<1>10. ASSUME cancels = 0 PROVE KnownInUse'
  <2>1. KnownInUse
    BY <1>10 DEF StoreInv
  <2> SUFFICES ASSUME NEW e \in Editors, known[e] # None
               PROVE  /\ known[e].rev <= c.rev[known[e].section]
                      /\ known[e].rev = c.rev[known[e].section] =>
                           known[e].edit = c.edit[known[e].section]
    BY <2>1, <1>1, <1>5 DEF KnownInUse
  <2> DEFINE r == known[e].section
  <2>2. r \in Revised /\ r \in Sections /\ known[e].rev \in Int /\ data.rev[r] \in Int
    BY <1>2, RevisedAreSections DEF StoreInv, VarTypes, DocType
  <2>3. known[e].rev <= data.rev[r] /\ (known[e].rev = data.rev[r] => known[e].edit = data.edit[r])
    BY <2>1, <1>5 DEF KnownInUse
  <2>4. CASE r = s
    BY <2>2, <2>3, <2>4, <1>3
  <2>5. CASE r # s
    BY <2>2, <2>3, <2>5, <1>3
  <2> QED
    BY <2>4, <2>5
<1>11. cancels = 0 => orphans' = {} /\ DiskAhead' /\ NoLostUpdate'
  BY <1>1, <1>4 DEF StoreInv, DiskAhead, NoLostUpdate
<1> QED
  BY <1>1, <1>6, <1>7, <1>8, <1>9, <1>10, <1>11 DEF StoreInv

LEMMA EditorSavesStep ==
  ASSUME StoreInv, NEW e \in Editors, NEW s \in Revised, EditorSaves(e, s)
  PROVE  StoreInv'
<1>1. /\ known[e] # None /\ known[e].section = s /\ known[e].rev = data.rev[s]
      /\ data # None /\ SaveBegins(s, known[e].edit)
  BY DEF EditorSaves, RevisionMatches
<1>2. cancels = 0 => known[e].edit = data.edit[s]
  BY <1>1 DEF StoreInv, KnownInUse, InUse
<1> QED
  BY <1>1, <1>2, SaveBeginsStep, RevisedAreSections

LEMMA UnrevisedSavesStep == StoreInv /\ (SmtpSaves \/ ListsSave) => StoreInv'
BY SaveBeginsStep DEF SmtpSaves, ListsSave, Sections

LEMMA SaveEndsStep ==
  ASSUME StoreInv, NEW ok \in BOOLEAN, NEW durable \in BOOLEAN, SaveEnds(ok, durable)
  PROVE  StoreInv'
<1> DEFINE c == op.cand
<1> DEFINE s == op.section
<1>u. UNCHANGED <<orphans, legacy, known, edits, cancels>> /\ op' = NoOp /\ op'.pc = "free"
  BY DEF SaveEnds, NoOp
<1>0. op.pc = "saving" /\ data # None /\ InUse = {disk, data, c}
  BY DEF SaveEnds, StoreInv, Stages, InUse
<1>1. s \in Sections /\ edits \in Nat /\ c = With(data, s, edits) /\ data \in DocType /\ disk \in DocType
  BY <1>0 DEF StoreInv, Stages, VarTypes
<1>2. /\ c \in DocType /\ c.edit[s] = edits /\ c # None
      /\ \A t \in Sections \ {s} : c.edit[t] = data.edit[t]
      /\ \A r \in Revised \ {s} : c.rev[r] = data.rev[r]
      /\ s \in Revised => c.rev[s] = data.rev[s] + 1
  BY <1>1, WithFacts, NoneAssumption
<1>3. disk' \in {disk, c}
  BY DEF SaveEnds
<1>4. CASE ok = TRUE
  <2>1. disk' = c /\ data' = c /\ acked' = [acked EXCEPT ![s] = c.edit[s]]
    BY <1>4 DEF SaveEnds, Confirmed
  <2> HIDE DEF c, s
  <2>2. InUse' = {c} /\ c \in InUse
    BY <2>1, <1>0, <1>u, <1>2 DEF InUse
  <2>3. /\ acked' \in [Sections -> Int] /\ acked'[s] = edits
        /\ \A t \in Sections \ {s} : acked'[t] = acked[t]
    BY <2>1, <1>1, <1>2 DEF StoreInv, VarTypes
  <2>4. VarTypes' /\ Stages'
    BY <2>1, <2>3, <1>1, <1>2, <1>u DEF StoreInv, VarTypes, Stages
  <2>5. SettingsInUse'
    BY <2>2, <1>u DEF StoreInv, SettingsInUse
  <2>6. ASSUME cancels = 0 PROVE AckedInUse'
    <3>1. AckedInUse /\ edits >= 1
      BY <2>6, <1>0 DEF StoreInv, Stages
    <3>2. \A t \in Sections : c.edit[t] >= acked'[t]
      BY <3>1, <2>2, <2>3, <1>1, <1>2 DEF AckedInUse
    <3>3. \A t \in Sections : acked'[t] <= edits /\ acked'[t] >= Migrated /\ acked'[t] # Unset
      BY <3>1, <2>3, <1>1 DEF AckedInUse, Migrated, Unset
    <3> QED
      BY <3>2, <3>3, <2>2, <1>u DEF AckedInUse
  <2>7. cancels = 0 => KnownInUse'
    BY <2>2, <1>u DEF StoreInv, KnownInUse
  <2>8. DiskAhead' /\ NoLostUpdate'
    BY <2>1, <1>u, <1>2 DEF DiskAhead, NoLostUpdate, DocType
  <2> QED
    BY <2>4, <2>5, <2>6, <2>7, <2>8, <1>u DEF StoreInv
<1>5. CASE ok = FALSE
  <2>1. UNCHANGED <<data, acked>>
    BY <1>5 DEF SaveEnds, Confirmed
  <2> HIDE DEF c, s
  <2>2. InUse' \subseteq InUse
    BY <2>1, <1>0, <1>u, <1>3 DEF InUse
  <2>3. VarTypes' /\ Stages'
    BY <2>1, <1>0, <1>1, <1>2, <1>3, <1>u DEF StoreInv, VarTypes, Stages
  <2>4. ASSUME cancels = 0 PROVE DiskAhead'
    <3>1. DiskAhead
      BY <2>4 DEF StoreInv
    <3>2. \A r \in Revised : data.rev[r] <= c.rev[r] /\ (data.rev[r] = c.rev[r] => data.edit[r] = c.edit[r])
      BY <1>1, <1>2, RevisedAreSections DEF DocType
    <3> QED
      BY <3>1, <3>2, <2>1, <1>3 DEF DiskAhead
  <2>5. NoLostUpdate'
    BY <1>u DEF NoLostUpdate
  <2> QED
    BY <2>1, <2>2, <2>3, <2>4, <2>5, <1>u, Shrinks DEF StoreInv
<1> QED
  BY <1>4, <1>5

LEMMA SaveCancelledStep == StoreInv /\ SaveCancelled => StoreInv'
<1> SUFFICES ASSUME StoreInv, SaveCancelled PROVE StoreInv'
  OBVIOUS
<1>1. /\ op.pc = "saving" /\ op' = NoOp /\ op'.pc = "free" /\ cancels \in Nat
      /\ cancels' = cancels + 1 /\ cancels' # 0
      /\ orphans' = orphans \cup {op.cand}
      /\ UNCHANGED <<data, disk, legacy, known, edits, acked>>
  BY DEF SaveCancelled, StoreInv, VarTypes, NoOp
<1>2. InUse = InUse' \cup {op.cand}
  BY <1>1 DEF InUse
<1>3. SettingsInUse'
  BY <1>1, <1>2 DEF StoreInv, SettingsInUse
<1>4. op.cand \in DocType
  BY <1>1, WithFacts DEF StoreInv, VarTypes, Stages
<1>5. VarTypes' /\ Stages'
  BY <1>1, <1>4 DEF StoreInv, VarTypes, Stages
<1> QED
  BY <1>1, <1>3, <1>5 DEF StoreInv

LEMMA OrphanLandsStep ==
  ASSUME StoreInv, NEW doc \in orphans, OrphanLands(doc)
  PROVE  StoreInv'
<1>1. /\ cancels # 0 /\ data # None /\ op.pc # "migrating" /\ op.pc # "removing"
      /\ disk' \in {disk, doc} /\ orphans' = orphans \ {doc} /\ doc \in DocType
      /\ UNCHANGED <<data, op, legacy, known, edits, acked, cancels>>
  BY DEF OrphanLands, editVars, StoreInv, VarTypes, Stages
<1>2. InUse' \cup orphans' \subseteq InUse \cup orphans
  BY <1>1 DEF InUse
<1>3. SettingsInUse'
  BY <1>1, <1>2 DEF StoreInv, SettingsInUse
<1>4. VarTypes' /\ Stages'
  BY <1>1 DEF StoreInv, VarTypes, Stages
<1> QED
  BY <1>1, <1>3, <1>4 DEF StoreInv

(* The lane of status requests takes and gives back the lock and no more. *)
LEMMA StatusStep ==
  ASSUME StoreInv, NEW r \in Readers,
         StatusBegins(r) \/ StatusLocks(r) \/ WorkerEnds(r) \/ StatusCancelled(r)
  PROVE  StoreInv'
<1>1. /\ UNCHANGED <<data, disk, orphans, legacy, known, edits, acked, cancels>>
      /\ \/ op' = op
         \/ data # None /\ op.pc \in {"free", "status"} /\ op'.pc \in {"free", "status"}
  BY DEF StatusBegins, StatusLocks, WorkerEnds, StatusCancelled, Ready, Free, NoOp, Holds,
         docVars, editVars, StoreInv, Stages
<1>2. CASE op' = op
  BY <1>1, <1>2, SameInv DEF docVars
<1>3. CASE data # None /\ op.pc \in {"free", "status"} /\ op'.pc \in {"free", "status"}
  <2>1. UNCHANGED InUse
    BY <1>1, <1>3 DEF InUse
  <2> QED
    BY <1>1, <1>3, <2>1
    DEF StoreInv, VarTypes, Stages, SettingsInUse, AckedInUse, KnownInUse, DiskAhead, NoLostUpdate
<1> QED
  BY <1>1, <1>2, <1>3

LEMMA RestartStep == StoreInv /\ Restart => StoreInv'
<1> SUFFICES ASSUME StoreInv, Restart PROVE StoreInv'
  OBVIOUS
<1>1. /\ disk' \in InUse \cup orphans
      /\ data' = None /\ op' = NoOp /\ op'.pc = "free" /\ orphans' = {}
      /\ UNCHANGED <<legacy, known, edits, acked, cancels>>
  BY DEF Restart, InUse, NoOp
<1>2. InUse' = {disk'}
  BY <1>1 DEF InUse
<1>3. op.pc \in {"saving", "migrating"} => op.cand \in DocType
  <2>1. CASE op.pc = "saving"
    BY <2>1, WithFacts DEF StoreInv, VarTypes, Stages
  <2>2. CASE op.pc = "migrating"
    <3>1. op.cand = With(disk, "smtp", Migrated) /\ disk \in DocType
      BY <2>2 DEF StoreInv, VarTypes, Stages
    <3>2. "smtp" \in Sections /\ Migrated \in Int
      BY DEF Sections, Migrated
    <3> QED
      BY <3>1, <3>2, WithFacts
  <2> QED
    BY <2>1, <2>2
<1>4. disk' \in DocType
  BY <1>1, <1>3 DEF InUse, StoreInv, VarTypes
<1>5. VarTypes' /\ Stages' /\ DiskAhead' /\ NoLostUpdate'
  BY <1>1, <1>4 DEF StoreInv, VarTypes, Stages, DiskAhead, NoLostUpdate
<1>6. SettingsInUse'
  BY <1>1, <1>2 DEF StoreInv, SettingsInUse
<1>7. cancels = 0 => AckedInUse' /\ KnownInUse'
  BY <1>1, <1>2 DEF StoreInv, AckedInUse, KnownInUse
<1> QED
  BY <1>1, <1>5, <1>6, <1>7 DEF StoreInv

(* StoreInv holds of every state, for any number of editors, cards, edits,     *)
(* restarts and cancelled callers (EmailStorage, storage.py).                  *)
THEOREM StoreInductive == Spec => []StoreInv
<1>1. Init => StoreInv
  BY InitStore
<1>2. StoreInv /\ [Next]_vars => StoreInv'
  <2> SUFFICES ASSUME StoreInv, [Next]_vars PROVE StoreInv'
    OBVIOUS
  <2>1. CASE LoadSteps
    BY <2>1, LoadBeginsStep, LegacyRemovedStep, MigrationEndsStep DEF LoadSteps
  <2>2. CASE EditSteps
    <3>1. ASSUME NEW e \in Editors,
                 PolicySaves(e) \/ TariffSaves(e) \/ \E s \in Revised : EditorReads(e, s)
          PROVE  StoreInv'
      BY <3>1, EditorSavesStep, EditorReadsStep DEF PolicySaves, TariffSaves, Revised
    <3> QED
      BY <2>2, <3>1, UnrevisedSavesStep, SaveCancelledStep, SaveEndsStep, OrphanLandsStep DEF EditSteps
  <2>3. CASE StatusSteps
    BY <2>3, StatusStep DEF StatusSteps
  <2>4. CASE Restart
    BY <2>4, RestartStep
  <2>5. CASE UNCHANGED vars
    BY <2>5, SameInv DEF vars, docVars, editVars
  <2> QED
    BY <2>1, <2>2, <2>3, <2>4, <2>5 DEF Next
<1> QED
  BY <1>1, <1>2, PTL DEF Spec

(* Whatever a save confirmed to its author is on disk, whichever writes of other *)
(* sections fail and however often the system restarts, as long as no caller is  *)
(* cancelled during its write (_ConfirmedStore, async_append_attempt).           *)
THEOREM ConfirmedStaysDurable == Spec => []AckedIsDurable
<1>1. StoreInv => AckedIsDurable
  BY DEF StoreInv, AckedInUse, InUse, AckedIsDurable, Durable
<1> QED
  BY <1>1, StoreInductive, PTL

(* An edit of a tariff or the policy replaces what its author was looking at     *)
(* (async_save_tariff, async_update_access_policy).                              *)
THEOREM NoUpdateIsLost == Spec => []NoLostUpdate
<1>1. StoreInv => NoLostUpdate
  BY DEF StoreInv, NoLostUpdate
<1> QED
  BY <1>1, StoreInductive, PTL

(* The SMTP settings are in the Store or in the legacy file at every step of the *)
(* migration, and cancelled saves do not revert them                             *)
(* (_async_migrate_legacy_smtp_config_locked).                                   *)
THEOREM SettingsAreNeverLost == Spec => []LegacyKept
<1>1. StoreInv => LegacyKept
  BY DEF StoreInv, SettingsInUse, InUse, LegacyKept
<1> QED
  BY <1>1, StoreInductive, PTL
=============================================================================
