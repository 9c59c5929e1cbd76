------------------------------ MODULE MCEntry ------------------------------
(* Components of one config entry that share no state in the models: one   *)
(* run explores each of them, `part` says which one acts.                    *)
EXTENDS EmailStore, EmailNative, Commands, Subscription, Lifecycle, Comparison, TariffBook, MCCalendar

VARIABLE part

Parts == {"store", "delivery", "native", "commands", "subscription", "lifecycle",
          "comparison", "tariff", "calendar"}

MCChannels == <<"notify", "email">>

(* Two targets of one dispatch, and two later dispatches. *)
MCStartedAt == <<1, 1, 2, 3>>

(* Nobody but administrators; or one chosen editor of the tariff, and reports    *)
(* for everybody.                                                              *)
MCPolicies ==
  LET Rule(mode, users) == [mode |-> mode, users |-> users]
  IN {<< >>,
      [f \in {<<"energy_tariff", "execute">>, <<"energy_reports", "read">>, <<"energy_reports", "visible">>} |->
         IF f[1] = "energy_tariff" THEN Rule("selected_users", {"p2"}) ELSE Rule("household", {})]}

(* Any command beside one that saves. *)
MCCalls == <<DOMAIN Command, {"set_tariff_book", "set_feature_access"}>>

-----------------------------------------------------------------------------
(* Comparison: a frame missing in one period, an additional one in the middle, *)
(* an hour that comes twice in another order, periods that only overlap, and   *)
(* one that is longer. An hour is whole, of one source, without the room, or   *)
(* empty; the price is the same everywhere, or missing and in another currency.*)
MCCalendars ==
  { <<(<<1, 2, 3>>), (<<1, 3>>)>>, <<(<<1, 2>>), (<<1, 9, 2>>)>>, <<(<<1, 2>>), (<<2, 1>>)>>,
    <<(<<2, 3>>), (<<1, 2>>)>>, <<(<<1>>), (<<1, 2, 3>>)>> }

MCHourShapes ==
  LET Shape(s, r, p) == [sources |-> s, rows |-> r, partition |-> p]
  IN { Shape({"m1", "m2"}, {"room", "unassigned"}, TRUE), Shape({"m1"}, {"room", "unassigned"}, FALSE),
       Shape({"m1", "m2"}, {"unassigned"}, FALSE), Shape({}, {"unassigned"}, FALSE) }

MCTariffs ==
  LET Price(c, k) == [identity |-> c, known |-> k]
  IN { [i \in 1..2 |-> [p \in 1..3 |-> Price("eur", TRUE)]],
       [i \in 1..2 |-> [p \in 1..3 |-> IF p < 3 THEN Price("eur", i = p) ELSE Price("pln", TRUE)]] }

(* Tariffs of three days: flat, cheap at night, and dynamic with a change      *)
(* inside a minute and no price after a while; two profiles have a validity.   *)
MCRateOf(name, t) ==
  CASE name = "flat" -> 1
    [] name = "night" -> IF t % 4 < 2 THEN 2 ELSE 1
    [] name = "dynamic" /\ t >= 10 -> Blank
    [] name = "dynamic" /\ t < 10 -> IF t = 5 THEN 4 ELSE 3

MCTurns(name) == IF name = "dynamic" THEN {5} ELSE {}

OpenFlat == [name |-> "flat", from |-> Blank, to |-> Blank]
FlatUntil0 == [OpenFlat EXCEPT !.to = 0]
MCProfiles ==
  { OpenFlat, FlatUntil0, [OpenFlat EXCEPT !.name = "night"], [OpenFlat EXCEPT !.name = "dynamic"],
    [name |-> "night", from |-> 1, to |-> 1] }

MCProposals ==
  LET Version(a, b, p) == [from |-> a, to |-> b, profile |-> p, unknown |-> FALSE]
      versions == { Version(a, Blank, p) : a \in {0, 1}, p \in MCProfiles }
                  \cup { Version(a, 2, p) : a \in {0, 1}, p \in { q \in MCProfiles : q.name # "flat" } }
                  \cup { Version(2, Blank, OpenFlat), Version(0, 1, OpenFlat), Version(0, 1, FlatUntil0),
                         Version(Blank, 1, OpenFlat), [Version(Blank, Blank, OpenFlat) EXCEPT !.unknown = TRUE] }
      first == { v \in versions : v.from = 0 /\ v.profile \in {OpenFlat, FlatUntil0} }
      second == { v \in versions : v.from = 1 /\ v.profile.name # "flat" /\ v.to = Blank }
                \cup {Version(2, Blank, OpenFlat)}
  IN { {v} : v \in versions } \cup { {v, w} : v \in first, w \in second }

-----------------------------------------------------------------------------
accessPart == <<accessVars, commandVars, subscriptionVars>>
laterParts == <<comparisonVars, tariffVars, calendarVars>>
allVars == <<part, vars, deliveryVars, nativeVars, accessPart, lifecycleVars, laterParts>>

PartsInit ==
  /\ part \in Parts
  /\ Init /\ DeliveryInit /\ NativeInit /\ CommandsInit /\ SubscriptionInit /\ LifecycleInit
  /\ part # "store" => legacy = "none"
  /\ part # "native" => configured
  /\ AccessInit
  /\ part \notin {"commands", "subscription"} => policy = [rules |-> << >>, ready |-> TRUE]
  /\ part # "subscription" => ~busy
  /\ ComparisonInit /\ (part # "comparison" => plan = CHOOSE p \in Plans : TRUE)
  /\ TariffInit /\ (part # "tariff" => oldStyle = Blank)
  /\ CalendarInit /\ (part # "calendar" => <<zone, schedule>> = CHOOSE z \in Zones \X Schedules : TRUE)

(* What the parts other than the acting one keep. *)
Others(rest) == UNCHANGED <<part, rest>>

PartsNext ==
  \/ /\ part \in {"comparison", "tariff", "calendar"}
     /\ Others(<<vars, deliveryVars, nativeVars, accessPart, lifecycleVars>>)
     /\ \/ part = "comparison" /\ ComparisonNext /\ UNCHANGED <<tariffVars, calendarVars>>
        \/ part = "tariff" /\ TariffNext /\ UNCHANGED <<comparisonVars, calendarVars>>
        \/ part = "calendar" /\ CalendarNext /\ UNCHANGED <<comparisonVars, tariffVars>>
  \/ /\ part \notin {"comparison", "tariff", "calendar"}
     /\ Others(laterParts)
     /\ \/ part = "store" /\ Next /\ UNCHANGED <<deliveryVars, nativeVars, accessPart, lifecycleVars>>
        \/ part = "delivery" /\ DeliveryNext /\ UNCHANGED <<vars, nativeVars, accessPart, lifecycleVars>>
        \/ part = "native" /\ NativeNext /\ UNCHANGED <<vars, deliveryVars, accessPart, lifecycleVars>>
        \/ part = "commands" /\ CommandsNext
             /\ UNCHANGED <<vars, deliveryVars, nativeVars, subscriptionVars, lifecycleVars>>
        \/ part = "subscription" /\ SubscriptionNext
             /\ UNCHANGED <<vars, deliveryVars, nativeVars, commandVars, lifecycleVars>>
        \/ part = "lifecycle" /\ LifecycleNext /\ UNCHANGED <<vars, deliveryVars, nativeVars, accessPart>>

PartsSpec == PartsInit /\ [][PartsNext]_allVars

(* The dialogs of the Store are interchangeable. *)
EditorSymmetry == Permutations(Editors)
=============================================================================
