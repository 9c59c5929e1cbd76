------------------------------ MODULE Commands ------------------------------
(***************************************************************************)
(* The WebSocket commands that read or save under an access policy          *)
(* (websocket_api.py).  Each one is authorized, awaits a read or a save, is  *)
(* authorized again with the policy it captured, compares what it captured   *)
(* with the present without an await, and answers.                          *)
(*                                                                         *)
(* Asking Home Assistant for a person does not suspend, so an authorization  *)
(* with a captured policy is one step with what follows it.  What a command *)
(* compares is kept as the set of things that changed since it looked.      *)
(***************************************************************************)
EXTENDS Access

CONSTANTS
  Asks,          \* commands under way
  Calls,         \* per command under way, the names it may have
  MaxContextTurns,
  Nobody         \* holds the Store's lock when it is free

VARIABLES
  ask,           \* per command: who, its phase, what went stale
  store,         \* the command that holds the Store's lock
  contextTurns

commandVars == <<ask, store, contextTurns>>

-----------------------------------------------------------------------------
(* What each command asks for *)

(* A command's record: the feature and operation it needs, who may call it   *)
(* (everybody whom the policy allows, an active person, an administrator), what *)
(* it awaits, what is asked again before the answer, and the things that must   *)
(* not have changed since it looked at them.                                   *)
ByFeature(feature, operation, work, fence) ==
  [feature |-> feature, operation |-> operation, admits |-> "feature", work |-> work,
   again |-> "feature", fence |-> fence]

(* async_validate_result of the analysis service, then its context.            *)
ByService(admits, feature) ==
  [feature |-> feature, operation |-> "read", admits |-> admits, work |-> "calculate",
   again |-> "service", fence |-> {"service", "sources", "policy", "tariff"}]

ByPerson(admits, again, work, fence) ==
  [feature |-> "none", operation |-> "read", admits |-> admits, work |-> work, again |-> again, fence |-> fence]

Book == {"tariff", "storage", "coordinator"}

GetTariff == ByFeature("energy_tariff", "read", "read", {"tariff"})

GetTariffBook == ByFeature("energy_tariff", "read", "read", Book)

GetTariffProfile == ByFeature("energy_tariff", "read", "read", Book)

EnergyPriceQueries == ByFeature("energy_tariff", "read", "calculate", {"tariff", "coordinator"})

(* The templates are built without an await from the home's settings. *)
ListTariffTemplates == ByFeature("energy_tariff", "read", "none", {"policy", "storage", "home"})

SetTariff == ByFeature("energy_tariff", "execute", "save", {"tariff"})

SetTariffBook == ByFeature("energy_tariff", "execute", "save", Book)

SetTariffProfile == ByFeature("energy_tariff", "execute", "save", Book)

PreviewTariffBook == ByFeature("energy_tariff", "execute", "preview", Book)

EnergySnapshotQuery ==
  ByFeature("energy_analysis", "read", "calculate", {"policy", "storage", "coordinator", "sources", "tariff"})

GetReportStatus == ByFeature("energy_reports", "read", "read", {"storage", "coordinator", "document", "calendar"})

(* Neither the settings nor the services of the answer are compared again. *)
ListDeliveryTargets == ByFeature("energy_reports", "execute", "read", {})

EnergyAnalysisQuery == ByService("person", "energy_analysis")

EnergyPatterns == ByService("person", "energy_analysis")

EnergyReport == ByService("feature", "energy_reports")

EnergyModel == ByService("feature", "energy_analysis")

PreviewEnergyReport == ByService("admin", "energy_reports")

GetFeatureAccess == ByPerson("admin", "admin", "read", {"policy", "storage"})

SetFeatureAccess == ByPerson("admin", "admin", "save", {"policy", "storage"})

FeatureCapabilities == ByPerson("person", "person", "read", {"policy", "storage"})

(* An administrator's command that is not asked again and compares nothing. *)
EntryOnly == ByPerson("admin", "nobody", "read", {})

GetConfig == EntryOnly

ListSchedules == EntryOnly

GetAttemptHistory == EntryOnly

PreviewLogDigest == EntryOnly

Command ==
  [get_tariff |-> GetTariff, get_tariff_book |-> GetTariffBook, get_tariff_profile |-> GetTariffProfile,
   energy_price_queries |-> EnergyPriceQueries, list_tariff_templates |-> ListTariffTemplates,
   set_tariff |-> SetTariff, set_tariff_book |-> SetTariffBook, set_tariff_profile |-> SetTariffProfile,
   preview_tariff_book |-> PreviewTariffBook, energy_snapshot |-> EnergySnapshotQuery,
   get_report_status |-> GetReportStatus, list_delivery_targets |-> ListDeliveryTargets,
   energy_analysis |-> EnergyAnalysisQuery, energy_patterns |-> EnergyPatterns,
   energy_report |-> EnergyReport, energy_model |-> EnergyModel, preview_energy_report |-> PreviewEnergyReport,
   get_feature_access |-> GetFeatureAccess, set_feature_access |-> SetFeatureAccess,
   feature_capabilities |-> FeatureCapabilities, get_config |-> GetConfig, list_schedules |-> ListSchedules,
   get_attempt_history |-> GetAttemptHistory, preview_log_digest |-> PreviewLogDigest]

ASSUME CommandsAssumption ==
  /\ MaxContextTurns \in Nat /\ Nobody \notin Asks
  /\ \A r \in Asks : Calls[r] \subseteq DOMAIN Command

SectionOf(c) == IF c = "set_feature_access" THEN "policy" ELSE "tariff"

(* _snapshot_authorized, _feature_user; require_admin and _book_authorized.     *)
Personal(how, p) ==
  CASE how = "person" -> people[p].active
    [] how = "admin" -> ActiveAdmin(p)
    [] OTHER -> TRUE

Entitled(c, rules, p) == Allowed(rules, Command[c].feature, Command[c].operation, p)

(* The last authorization before the answer, or before a save. *)
Reauthorized_Mutant(r) ==
  LET c == ask[r].command
      p == ask[r].who
  IN CASE Command[c].again = "feature" -> Entitled(c, ask[r].rules, p)
       [] Command[c].again = "service" -> policy.ready /\ Entitled(c, policy.rules, p)
       [] OTHER -> Personal(Command[c].again, p)

Reauthorized(r) ==
  LET c == ask[r].command
      p == ask[r].who
  IN CASE Command[c].again = "feature" -> Entitled(c, ask[r].rules, p) /\ "policy" \notin ask[r].stale
       [] Command[c].again = "service" -> policy.ready /\ Entitled(c, policy.rules, p)
       [] OTHER -> Personal(Command[c].again, p)

Idle == [command |-> "none", who |-> Nobody, phase |-> "idle", rules |-> << >>, stale |-> {}]

CommandsInit ==
  /\ ask = [r \in Asks |-> Idle]
  /\ store = Nobody
  /\ contextTurns = 0

At(r, phase) == ask[r].phase = phase

Moves(r, phase) == ask' = [ask EXCEPT ![r].phase = phase]

Looks(r, phase, things) == ask' = [ask EXCEPT ![r].phase = phase, ![r].stale = @ \ things]

Begun(c) ==
  CASE Command[c].work \in {"save", "preview"} -> "lock"
    [] Command[c].work = "none" -> "answer"
    [] OTHER -> Command[c].work

-----------------------------------------------------------------------------
(* A command arrives.  Its expected revision is the client's. *)
Arrives(r) ==
  /\ At(r, "idle")
  /\ \E c \in Calls[r], p \in Persons, stale \in SUBSET {"expected"} :
       /\ stale = {} \/ Command[c].work \in {"save", "preview"}
       /\ Personal(Command[c].admits, p)
       /\ ask' = [ask EXCEPT ![r] = [command |-> c, who |-> p, rules |-> << >>, stale |-> stale,
                                     phase |-> IF Command[c].admits = "feature" THEN "policy" ELSE Begun(c)]]
  /\ UNCHANGED <<accessVars, store, contextTurns>>

(* _feature_authorized without a token: the policy is read under the Store's    *)
(* lock, then the person is asked for; the command captures its collaborators. *)
ReadsPolicy(r) ==
  /\ At(r, "policy") /\ store = Nobody
  /\ policy.ready /\ Entitled(ask[r].command, policy.rules, ask[r].who)
  /\ ask' = [ask EXCEPT ![r].phase = Begun(ask[r].command), ![r].rules = policy.rules,
                        ![r].stale = @ \cap {"expected"}]
  /\ UNCHANGED <<accessVars, store, contextTurns>>

(* A read of the Store returns the document of that moment; a CPU job or the   *)
(* load of the SMTP settings may follow it.                                    *)
ReadsStore(r) ==
  /\ At(r, "read") /\ store = Nobody
  /\ Looks(r, "answer", IF Command[ask[r].command].feature = "none" THEN {"policy"} ELSE {"tariff", "document"})
  /\ UNCHANGED <<accessVars, store, contextTurns>>

(* The coordinator or the analysis service works on the facts of some moment,   *)
(* after its own check of the person's sources.                                *)
Calculates(r) ==
  /\ At(r, "calculate")
  /\ people[ask[r].who].active
  /\ Looks(r, "answer", {"sources", "tariff"} \cup IF Command[ask[r].command].again = "service" THEN {"policy"} ELSE {})
  /\ UNCHANGED <<accessVars, store, contextTurns>>

(* A save or a preview takes the Store's lock and compares the revision. *)
TakesStore_Mutant(r) ==
  /\ At(r, "lock") /\ store = Nobody
  /\ store' = r
  /\ Moves(r, "locked")
  /\ UNCHANGED <<accessVars, contextTurns>>

TakesStore(r) ==
  /\ At(r, "lock") /\ store = Nobody
  /\ "expected" \notin ask[r].stale
  /\ store' = r
  /\ Moves(r, "locked")
  /\ UNCHANGED <<accessVars, contextTurns>>

(* After the CPU job, before_save: set_tariff does not look at the coordinator. *)
StartsSave(r) ==
  /\ At(r, "locked") /\ Command[ask[r].command].work = "save"
  /\ Reauthorized(r)
  /\ Command[ask[r].command].fence = Book => "coordinator" \notin ask[r].stale
  /\ "storage" \notin ask[r].stale
  /\ Moves(r, "save")
  /\ UNCHANGED <<accessVars, store, contextTurns>>

Previewed(r) ==
  /\ At(r, "locked") /\ Command[ask[r].command].work = "preview"
  /\ store' = Nobody
  /\ Looks(r, "answer", {"tariff"})
  /\ UNCHANGED <<accessVars, contextTurns>>

UnderWay(a) == a.phase \notin {"idle", "answered", "refused"}

(* What a command looks at again, by itself or through the policy.             *)
Watched(c) == Command[c].fence \cup {"expected", "policy", "storage", "coordinator", "tariff"}

Staled(asks, things) ==
  [q \in Asks |-> IF UnderWay(asks[q])
                  THEN [asks[q] EXCEPT !.stale = @ \cup (things \cap Watched(asks[q].command))] ELSE asks[q]]

(* A confirmed write is published; the handler goes on without an await. *)
Commits(r) ==
  /\ At(r, "save")
  /\ store' = Nobody
  /\ LET section == SectionOf(ask[r].command)
         other == {q \in Asks \ {r} : UnderWay(ask[q]) /\ SectionOf(ask[q].command) = section}
         told == Staled(ask, {section, "document"})
     IN ask' = [q \in Asks |->
                  IF q = r THEN [ask[r] EXCEPT !.phase = "answer", !.stale = @ \ {section}]
                  ELSE IF q \in other THEN [told[q] EXCEPT !.stale = @ \cup {"expected"}] ELSE told[q]]
  /\ IF ask[r].command = "set_feature_access"
     THEN \E rules \in Policies : policy' = [rules |-> rules, ready |-> TRUE]
     ELSE UNCHANGED policy
  /\ UNCHANGED <<people, roleTurns, contextTurns>>

(* The answer; a saved tariff starts a tick of the coordinator. *)
Replies(r) ==
  /\ At(r, "answer") /\ Reauthorized(r) /\ ask[r].stale \cap Command[ask[r].command].fence = {}
  /\ ask' = [ask EXCEPT ![r] = [Idle EXCEPT !.phase = "answered"]]
  /\ UNCHANGED <<accessVars, store, contextTurns>>

(* Any check may fail, any await may raise; the Store's lock is released. *)
Refuses(r) ==
  /\ UnderWay(ask[r])
  /\ store' = IF store = r THEN Nobody ELSE store
  /\ ask' = [ask EXCEPT ![r] = [Idle EXCEPT !.phase = "refused"]]
  /\ UNCHANGED <<accessVars, contextTurns>>

(* The home's settings, sources, schedules or setup change. *)
ContextTurns ==
  /\ contextTurns < MaxContextTurns /\ contextTurns' = contextTurns + 1
  /\ \E x \in {{"home", "sources"}, {"sources"}, {"calendar"}, {"coordinator", "service", "sources"},
               {"storage", "coordinator", "service", "sources"}} : ask' = Staled(ask, x)
  /\ UNCHANGED <<accessVars, store>>

CommandsNext ==
  \/ RolesTurn /\ UNCHANGED commandVars
  \/ ContextTurns
  \/ \E r \in Asks :
       \/ Arrives(r) \/ ReadsPolicy(r) \/ ReadsStore(r) \/ Calculates(r) \/ TakesStore(r)
       \/ StartsSave(r) \/ Previewed(r) \/ Commits(r) \/ Replies(r) \/ Refuses(r)

CommandsSpec == AccessInit /\ CommandsInit /\ [][CommandsNext]_<<accessVars, commandVars>>
-----------------------------------------------------------------------------
(* Whoever gets an answer may have it at that moment: by the policy stored now  *)
(* and the person's role now, however long the command waited; an answer that   *)
(* shows the tariff shows the stored one.                                      *)
AnswersHold ==
  [][\A r \in Asks :
       LET c == ask[r].command
           p == ask[r].who
       IN At(r, "answer") /\ ask'[r].phase = "answered" =>
            /\ c \in {"get_feature_access", "set_feature_access"} => ActiveAdmin(p)
            /\ Command[c].again # "nobody" => people[p].active
            /\ Command[c].feature # "none" => policy.ready /\ Entitled(c, policy.rules, p)
            /\ Command[c].feature = "energy_tariff" /\ Command[c].work # "none" => "tariff" \notin ask[r].stale]_commandVars

(* A save never overwrites what its author has not seen, and never lands under  *)
(* another policy than the one its author was admitted by.                     *)
SavesHold ==
  [][\A r \in Asks : At(r, "save") /\ ask'[r].phase = "answer" =>
       /\ "expected" \notin ask[r].stale
       /\ Command[ask[r].command].admits = "feature" => policy.ready /\ policy.rules = ask[r].rules]_commandVars
=============================================================================
