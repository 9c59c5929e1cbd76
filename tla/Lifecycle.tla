----------------------------- MODULE Lifecycle -----------------------------
(***************************************************************************)
(* async_setup_entry and async_unload_entry: what a config entry owns, in    *)
(* the order it is published, started, stopped and taken back, when any      *)
(* awaited step of a setup may raise or be cancelled.  Around it: the        *)
(* registry's coalesced notifications and the Repairs issues that a tick or  *)
(* an analysis publishes for its coordinator.                               *)
(*                                                                         *)
(* Home Assistant runs one setup or unload of the entry at a time.  A setup  *)
(* is a generation; an object is the name of its component with it.          *)
(***************************************************************************)
EXTENDS Naturals, FiniteSets

CONSTANTS
  MaxGenerations,   \* bound: setups
  MaxChanges        \* bound: registry events

ASSUME LifecycleAssumption == {MaxGenerations, MaxChanges} \subseteq Nat

Components == {"runtime", "native", "association", "service", "registry", "coordinator"}

VARIABLES
  entry,       \* the setup or unload under way: its generation and its place
  published,   \* hass.data: the generation under each component's key, 0 if none
  alive,       \* objects with listeners, timers or work that may still act
  platforms,   \* entities exist: "none", "some" of them, "all"
  scheduler,   \* minute callbacks are armed
  repairs,     \* an Energy Repairs issue exists
  marked,      \* coordinators that published one (_energy_repairs_active)
  registry     \* the revision of the bucket, the one last announced, a waiting call

lifecycleVars == <<entry, published, alive, platforms, scheduler, repairs, marked, registry>>
owned == <<platforms, scheduler, repairs, marked>>

LifecycleInit ==
  /\ entry = [gen |-> 0, at |-> "unloaded", forwarded |-> FALSE]
  /\ published = [c \in Components |-> 0]
  /\ alive = {}
  /\ platforms = "none"
  /\ scheduler = FALSE
  /\ repairs = FALSE
  /\ marked = {}
  /\ registry = [revision |-> 0, told |-> 0, waiting |-> 0]

Gen == entry.gen

EntryAt(place) == entry.at = place

Goes(place) == entry' = [entry EXCEPT !.at = place]

Alive(c, g) == <<c, g>> \in alive

-----------------------------------------------------------------------------
(* Setup *)

(* _async_ensure_setup: storage, services, commands and the dispatcher, which   *)
(* stays when the rest of the setup fails.                                     *)
EnsuresSetup ==
  /\ entry.at \in {"unloaded", "failed"} /\ Gen < MaxGenerations
  /\ entry' = [gen |-> Gen + 1, at |-> "ensure", forwarded |-> FALSE]
  /\ scheduler' = TRUE
  /\ UNCHANGED <<published, alive, platforms, repairs, marked, registry>>

(* A runtime or service that is still published is stopped first.  Everything   *)
(* but the association is published and the registry listens, without an await. *)
PublishesOwners ==
  /\ EntryAt("ensure")
  /\ published' = [c \in Components |-> IF c = "association" THEN published[c] ELSE Gen]
  /\ alive' = (alive \ {<<c, published[c]>> : c \in {"runtime", "service"}})
                \cup {<<c, Gen>> : c \in {"registry", "service", "coordinator"}}
  /\ registry' = [registry EXCEPT !.revision = @ + 1, !.told = registry.revision + 1]
  /\ Goes("coordinator")
  /\ UNCHANGED owned

(* coordinator.async_start: its first tick, then its timers. *)
CoordinatorStarts ==
  /\ EntryAt("coordinator")
  /\ Goes("native")
  /\ UNCHANGED <<published, alive, owned, registry>>

NativeListens ==
  /\ EntryAt("native")
  /\ alive' = alive \cup {<<"native", Gen>>}
  /\ Goes("forward")
  /\ UNCHANGED <<published, owned, registry>>

Forwards ==
  /\ EntryAt("forward")
  /\ platforms' = "all"
  /\ published' = [published EXCEPT !["association"] = Gen]
  /\ entry' = [entry EXCEPT !.at = "association", !.forwarded = TRUE]
  /\ UNCHANGED <<alive, scheduler, repairs, marked, registry>>

(* The association waits for the Energy manager; the statistics runtime starts  *)
(* with it, without an await in between.                                       *)
AssociationStarts ==
  /\ EntryAt("association")
  /\ alive' = alive \cup {<<"association", Gen>>, <<"runtime", Gen>>}
  /\ Goes("reload")
  /\ UNCHANGED <<published, owned, registry>>

ReloadsSchedules ==
  /\ EntryAt("reload")
  /\ Goes("loaded")
  /\ UNCHANGED <<published, alive, owned, registry>>

-----------------------------------------------------------------------------
(* Stopping *)

(* clear_owned_issues: an old owner cannot erase what a new one published.     *)
Clears_Mutant(g, holder) == g \in marked /\ holder = g

Clears(g, holder) == g \in marked /\ holder \in {0, g}

(* The registry's stop cancels the call that waits; the coordinator's looks for *)
(* the key that holds a coordinator at that moment.                            *)
TakesBack(holder) ==
  /\ alive' = {o \in alive : o[2] # Gen}
  /\ registry' = [registry EXCEPT !.waiting = IF @ = Gen THEN 0 ELSE @]
  /\ repairs' = (repairs /\ ~Clears(Gen, holder))
  /\ marked' = marked \ {Gen}

(* The except path: stop everything, take back the keys that are this setup's, *)
(* then remove the entities, if all of them were forwarded.                    *)
SetupFails ==
  /\ entry.at \in {"ensure", "coordinator", "native", "forward", "association", "reload"}
  /\ IF EntryAt("ensure")
     THEN UNCHANGED <<published, alive, repairs, marked, registry>>
     ELSE /\ TakesBack(published["coordinator"])
          /\ published' = [c \in Components |-> IF published[c] = Gen THEN 0 ELSE published[c]]
  /\ platforms' \in IF EntryAt("forward") THEN {"none", "some"} ELSE {platforms}
  /\ Goes(IF entry.forwarded THEN "cleanup" ELSE "failed")
  /\ UNCHANGED scheduler

CleansUp ==
  /\ EntryAt("cleanup")
  /\ \/ platforms' = "none"
     \/ platforms' = "some"
  /\ Goes("failed")
  /\ UNCHANGED <<published, alive, scheduler, repairs, marked, registry>>

UnloadBegins ==
  /\ EntryAt("loaded")
  /\ Goes("unloading")
  /\ UNCHANGED <<published, alive, owned, registry>>

(* Only when every platform is gone are the keys taken back and their objects   *)
(* stopped, the coordinator last and no longer published.                      *)
Unloads ==
  /\ EntryAt("unloading")
  /\ platforms' = "none"
  /\ TakesBack(0)
  /\ published' = [c \in Components |-> 0]
  /\ scheduler' = FALSE
  /\ Goes("unloaded")

(* Home Assistant does not set up an entry that failed to unload. *)
UnloadFails ==
  /\ EntryAt("unloading")
  /\ platforms' \in {"some", "all"}
  /\ Goes("stuck")
  /\ UNCHANGED <<published, alive, scheduler, repairs, marked, registry>>

-----------------------------------------------------------------------------
(* What runs meanwhile *)

(* _changed: the first of several events asks for one call of _notify.         *)
Coalesced(g) == [registry EXCEPT !.revision = @ + 1, !.waiting = IF @ = 0 THEN g ELSE @]

RegistryChanges ==
  /\ registry.revision < MaxChanges + Gen
  /\ \E g \in 1..Gen : Alive("registry", g) /\ registry' = Coalesced(g)
  /\ UNCHANGED <<entry, published, alive, owned>>

RegistryNotifies ==
  /\ registry.waiting # 0
  /\ registry' = [registry EXCEPT !.waiting = 0,
                                  !.told = IF Alive("registry", registry.waiting) THEN registry.revision ELSE @]
  /\ UNCHANGED <<entry, published, alive, owned>>

(* _owned. *)
Owns(g) == Alive("coordinator", g) /\ published["coordinator"] = g

(* _publish: the issue appears or goes, and its coordinator will clear it. *)
Marks(g) ==
  /\ repairs' \in BOOLEAN
  /\ marked' = marked \cup {g}
  /\ UNCHANGED <<entry, published, alive, platforms, scheduler, registry>>

(* publish_missing_import after a tick, with the manager of a started           *)
(* association, whichever setup published it.                                  *)
TickReports ==
  \E g \in 1..Gen :
    /\ Owns(g)
    /\ published["association"] # 0 /\ Alive("association", published["association"])
    /\ Marks(g)

(* publish_analysis: a calculation may have begun before the service stopped.  *)
AnalysisReports ==
  \E g \in 1..Gen : Owns(g) /\ Alive("service", g) /\ published["service"] = g /\ Marks(g)

LifecycleNext ==
  \/ EnsuresSetup \/ PublishesOwners \/ CoordinatorStarts \/ NativeListens \/ Forwards
  \/ AssociationStarts \/ ReloadsSchedules \/ SetupFails \/ CleansUp
  \/ UnloadBegins \/ Unloads \/ UnloadFails
  \/ RegistryChanges \/ RegistryNotifies \/ TickReports \/ AnalysisReports

LifecycleSpec == LifecycleInit /\ [][LifecycleNext]_lifecycleVars
-----------------------------------------------------------------------------
(* After a failed setup and after an unload nothing of it is published, listens, *)
(* waits or is shown in Repairs; entities are left only where the removal or the *)
(* forwarding of the platforms itself failed, and the dispatcher where the setup *)
(* did.  Only one generation is alive at a time; changes of the registry        *)
(* coalesce, but while no call waits the present revision has been told.        *)
NothingLeft ==
  /\ entry.at \in {"unloaded", "failed", "cleanup"} =>
       /\ alive = {} /\ registry.waiting = 0 /\ ~repairs
       /\ \A c \in Components : published[c] = 0
  /\ EntryAt("unloaded") => platforms = "none" /\ ~scheduler
  /\ \A o \in alive : o[2] = Gen
  /\ repairs => \E g \in marked : Owns(g)
  /\ \A g \in 1..Gen : Alive("registry", g) /\ registry.waiting = 0 => registry.told = registry.revision
=============================================================================
