-------------------------- MODULE AnalysisService --------------------------
(***************************************************************************)
(* EnergyAnalysisService (analysis_service.py): requests for an analysis,   *)
(* a report, the patterns or the facts of an hour calculate one after the   *)
(* other under the service's lock, from data read over many awaits.         *)
(* Callers then validate what they were given, outside that lock, before    *)
(* they let it go.                                                          *)
(*                                                                          *)
(* The facts an answer rests on are versions.  Four of them are compared    *)
(* without an await wherever a context is checked; the Recorder's units     *)
(* and costs are known only by awaited reads, and what the last reader saw  *)
(* is shared by all requests.  A change never restores an earlier version.  *)
(***************************************************************************)
EXTENDS Naturals, Sequences, FiniteSets, Functions

CONSTANTS
  Requests,  \* callers' tasks
  Users,     \* who asks: native users, or a schedule's private actor
  None,
  Kinds,     \* of requests
  Max,       \* MAX_PENDING_ANALYSES
  Facts,     \* what is compared without an await
  Booked,    \* tariff revisions that hold a tariff book
  Changes    \* bound: changes of the world while requests run

ASSUME AnalysisAssumption ==
  /\ Max \in Nat \ {0} /\ Changes \in Nat /\ IsFiniteSet(Requests)
  /\ Kinds \subseteq {"analysis", "patterns", "report", "statistics"}
  /\ {"tariff", "registry"} \subseteq Facts
  /\ Facts \subseteq {"policy", "tariff", "registry", "preferences", "period"}

ASSUME NoneAssumption == None \notin Nat

(* Recorder units; cost metadata and price states of the native prices.     *)
Read == {"units", "costs", "prices"}

VARIABLES
  world,    \* the versions now
  rights,   \* what each user may read now: "energy", "native"
  running,  \* the service is installed and not stopped
  lock,     \* the request that holds _lock
  pending,  \* _pending
  normal,   \* _normalization; _native_normalization as costs and prices
  cache,    \* _cache
  req

vars == <<world, rights, running, lock, pending, normal, cache, req>>
outside == <<world, rights, running>>

NoRequest ==
  [phase |-> "idle", kind |-> "none", user |-> None, gate |-> "none", stage |-> "none",
   ctx |-> None, todo |-> << >>, saw |-> None, data |-> {}]

AnalysisInit ==
  /\ world = [f \in Facts \cup Read \cup {"roles"} |-> 0]
  /\ rights = [u \in Users |-> {"energy", "native"}]
  /\ running = TRUE
  /\ lock = None
  /\ pending = 0
  /\ normal = [f \in Read |-> None]
  /\ cache = None
  /\ req = [t \in Requests |-> NoRequest]

-----------------------------------------------------------------------------
(* Contexts and permissions *)

(* The part of the context every kind of request captures. *)
Captured == [f \in Facts |-> world[f]]

(* _capture, _capture_patterns, _capture_report and _capture_statistics.    *)
Capture(kind) == [kind |-> kind, native |-> "none", facts |-> Captured, normal |-> [f \in Read |-> None]]

(* Patterns and the facts of an hour know no native prices; the facts of an *)
(* hour are not cached; only a report is rendered after it was validated.   *)
AsksNative(kind) == kind \notin {"patterns", "statistics"}

UsesCache(kind) == kind # "statistics"

Rest(kind) == IF kind = "report" THEN <<"render">> ELSE << >>

(* Mutant: a calculation does not see that the service was stopped. *)
Current_Mutant(c) ==
  /\ \A f \in Facts : c.facts[f] = world[f]
  /\ \A f \in Read : c.normal[f] # None => c.normal[f] = normal[f]

(* _assert_current: the service runs, the recaptured context is the same,   *)
(* and no other request has seen a different normalization since.           *)
Current(c) ==
  /\ running
  /\ \A f \in Facts : c.facts[f] = world[f]
  /\ \A f \in Read : c.normal[f] # None => c.normal[f] = normal[f]

(* _require_access and _native_access at a gate of the guard: a fresh user  *)
(* under the captured policy, for the base sources or for all of them.      *)
Permitted(t) ==
  LET energy == "energy" \in rights[req[t].user]
      native == "native" \in rights[req[t].user]
      asked  == req[t].ctx.native
  IN CASE req[t].gate = "prices"  -> asked = "asked" \/ native = (asked = "allowed")
       [] req[t].gate = "states"  -> native
       [] req[t].gate = "last"    -> energy /\ (asked = "allowed" => native)
       [] req[t].gate \in {"access", "again"} -> energy
       [] OTHER -> TRUE

(* Requests that wait for the lock or validate are admitted; one that       *)
(* renders, or whose caller is busy elsewhere, is not.                      *)
Admitted(t) == req[t].phase \in {"lock", "policy", "access", "book", "guard", "chunk", "costs"}

-----------------------------------------------------------------------------
(* How a request ends without an answer *)

LeaveLock(t) == lock' = IF lock = t THEN None ELSE lock

Keep(t, r) == req' = [req EXCEPT ![t] = r]

Moves(t, r) == Keep(t, r) /\ UNCHANGED <<outside, lock, pending, normal, cache>>

(* Mutant: a request cancelled in the queue of the lock stays admitted. *)
(* An exception leaves no cached answer behind, except that the facts of an *)
(* hour never touch the cache and a cancelled validation does not either.   *)
Raises(t, kept) ==
  /\ pending' = IF Admitted(t) THEN pending - 1 ELSE pending
  /\ LeaveLock(t)
  /\ cache' = IF kept THEN cache ELSE None
  /\ Keep(t, NoRequest)
  /\ UNCHANGED outside

(* The awaited read, job or permission failed, or the task was cancelled.   *)
Fails(t) ==
  /\ Admitted(t) \/ req[t].phase = "render"
  /\ \E kept \in BOOLEAN :
       /\ ~UsesCache(req[t].kind) \/ req[t].phase = "render" => kept
       /\ kept => ~UsesCache(req[t].kind) \/ req[t].phase = "render" \/ req[t].stage = "check"
       /\ Raises(t, kept)
  /\ UNCHANGED normal

(* What is compared without an await differs after this one.                *)
Stale(t) ==
  /\ Admitted(t)
  /\ IF req[t].phase \in {"lock", "policy"} THEN ~running ELSE ~Current(req[t].ctx)
  /\ Raises(t, FALSE)
  /\ UNCHANGED normal

Denied(t) ==
  /\ req[t].phase \in {"access", "guard"}
  /\ Current(req[t].ctx)
  /\ ~Permitted(t)
  /\ Raises(t, ~UsesCache(req[t].kind))
  /\ UNCHANGED normal

-----------------------------------------------------------------------------
(* From the admission to the context *)

Admit(t) ==
  /\ req[t].phase \in {"idle", "done"}
  /\ running
  /\ pending < Max
  /\ pending' = pending + 1
  /\ \E k \in Kinds, u \in Users :
       Keep(t, [NoRequest EXCEPT !.phase = "lock", !.kind = k, !.user = u])
  /\ UNCHANGED <<outside, lock, normal, cache>>

Locks(t) ==
  /\ req[t].phase = "lock"
  /\ running
  /\ lock = None
  /\ lock' = t
  /\ Keep(t, [req[t] EXCEPT !.phase = "policy"])
  /\ UNCHANGED <<outside, pending, normal, cache>>

(* The policy is read before the context is captured, so that both hold its *)
(* revision.                                                                *)
Captures(t) ==
  /\ req[t].phase = "policy"
  /\ running
  /\ Moves(t, [req[t] EXCEPT !.phase = "access", !.gate = "access", !.ctx = Capture(req[t].kind)])

(* No metadata, Recorder or registry read precedes the access check.        *)
FirstAccess(t) ==
  /\ req[t].phase = "access"
  /\ Current(req[t].ctx)
  /\ Permitted(t)
  /\ Moves(t, [req[t] EXCEPT !.phase = "book"])

Guarded(r, stage) == [r EXCEPT !.phase = "guard", !.gate = "access", !.stage = stage]

(* Native prices are read only where there is no book.                      *)
ReadsBook(t) ==
  /\ req[t].phase = "book"
  /\ Current(req[t].ctx)
  /\ LET native == AsksNative(req[t].kind) /\ world["tariff"] \notin Booked
     IN Moves(t, Guarded([req[t] EXCEPT !.ctx.native = IF native THEN "asked" ELSE "none",
                                        !.data = {<<"tariff", world["tariff"]>>}], "lookup"))

-----------------------------------------------------------------------------
(* The end of a guard: what follows runs without an await *)

(* An entry of the same context may also be too old: 300 or 60 seconds.     *)
Cached(t) ==
  /\ UsesCache(req[t].kind)
  /\ cache # None
  /\ cache.ctx = req[t].ctx

Serves(t, data) ==
  /\ LeaveLock(t)
  /\ pending' = pending - 1
  /\ cache' = IF UsesCache(req[t].kind) THEN [ctx |-> req[t].ctx, data |-> data] ELSE cache
  /\ Keep(t, [req[t] EXCEPT !.phase = "held", !.gate = "none", !.data = data,
                            !.todo = Rest(req[t].kind)])
  /\ UNCHANGED <<outside, normal>>

(* The registry's membership is captured here, before the calculation.      *)
AfterLookup(t) ==
  \/ Cached(t) /\ Serves(t, cache.data)
  \/ /\ Keep(t, [Guarded(req[t], "work") EXCEPT
                   !.todo = <<"chunk">> \o IF req[t].ctx.native = "allowed" THEN <<"costs">> ELSE << >>,
                   !.data = @ \cup {<<"registry", world["registry"]>>}])
     /\ cache' = IF UsesCache(req[t].kind) THEN None ELSE cache
     /\ UNCHANGED <<outside, lock, pending, normal>>

(* The next chunk, job or native costs; after the last one the answer.      *)
AfterWork(t) ==
  IF req[t].todo = << >>
  THEN Serves(t, req[t].data)
  ELSE Moves(t, [req[t] EXCEPT !.phase = Head(req[t].todo), !.gate = "none"])

(* context_is_current, and the caller renders the answer or lets it go.     *)
AfterCheck(t) ==
  /\ pending' = pending - 1
  /\ Keep(t, [req[t] EXCEPT !.gate = "none", !.phase = IF req[t].todo = << >> THEN "done" ELSE Head(req[t].todo)])
  /\ UNCHANGED <<outside, lock, normal, cache>>

Continues(t) ==
  \/ req[t].stage = "lookup" /\ AfterLookup(t)
  \/ req[t].stage = "work" /\ AfterWork(t)
  \/ req[t].stage = "check" /\ AfterCheck(t)

-----------------------------------------------------------------------------
(* The guard: access, Recorder metadata, access, and the same for native    *)
(* prices if they were asked for                                            *)

Guards(t, gate) == req[t].phase = "guard" /\ req[t].gate = gate

Passes(t, gate) == Guards(t, gate) /\ Current(req[t].ctx) /\ Permitted(t)

Access(t) == Passes(t, "access") /\ Moves(t, [req[t] EXCEPT !.gate = "read"])

ReadsUnits(t) ==
  Guards(t, "read") /\ Moves(t, [req[t] EXCEPT !.gate = "units", !.saw = world["units"]])

(* Mutant: access is not asked again after the metadata. *)
AccessAgain_Mutant(t) ==
  /\ Guards(t, "again") /\ Current(req[t].ctx)
  /\ IF req[t].ctx.native = "none"
     THEN Continues(t)
     ELSE Moves(t, [req[t] EXCEPT !.gate = "prices"])

(* The value read is shared first and compared with the context's then.     *)
Normalizes(t) ==
  LET same == req[t].ctx.normal["units"] \in {None, req[t].saw}
  IN /\ Passes(t, "units")
     /\ normal' = [normal EXCEPT !["units"] = req[t].saw]
     /\ IF same
        THEN /\ Keep(t, [req[t] EXCEPT !.gate = "again", !.ctx.normal["units"] = req[t].saw, !.saw = None])
             /\ UNCHANGED <<outside, lock, pending, cache>>
        ELSE Raises(t, FALSE)

AccessAgain(t) ==
  /\ Passes(t, "again")
  /\ IF req[t].ctx.native = "none"
     THEN Continues(t)
     ELSE Moves(t, [req[t] EXCEPT !.gate = "prices"])

NativeAccess(t) ==
  LET native == "native" \in rights[req[t].user]
  IN /\ Passes(t, "prices")
     /\ Moves(t, [req[t] EXCEPT !.ctx.native = IF native THEN "allowed" ELSE "denied",
                                !.gate = IF native THEN "costs" ELSE "last"])

ReadsCosts(t) ==
  Guards(t, "costs") /\ Moves(t, [req[t] EXCEPT !.gate = "states", !.saw = world["costs"]])

(* The price states are read after the metadata and a second access check.  *)
NativeNormalizes(t) ==
  LET sign == [f \in Read |-> IF f = "costs" THEN req[t].saw ELSE world[f]]
      own  == req[t].ctx.normal
  IN /\ Passes(t, "states")
     /\ IF own["costs"] = None \/ (own["costs"] = sign["costs"] /\ own["prices"] = sign["prices"])
        THEN /\ normal' = [normal EXCEPT !["costs"] = sign["costs"], !["prices"] = sign["prices"]]
             /\ Keep(t, [req[t] EXCEPT !.gate = "last", !.saw = None,
                          !.ctx.normal = [own EXCEPT !["costs"] = sign["costs"], !["prices"] = sign["prices"]]])
             /\ UNCHANGED <<outside, lock, pending, cache>>
        ELSE Raises(t, FALSE) /\ UNCHANGED normal

PricesHold(t) == req[t].ctx.native = "allowed" => world["prices"] = normal["prices"]

LastAccess(t) ==
  /\ Passes(t, "last")
  /\ IF PricesHold(t) THEN Continues(t) ELSE Raises(t, FALSE) /\ UNCHANGED normal

-----------------------------------------------------------------------------
(* Between the guards *)

Resumes(t, saw) ==
  /\ Current(req[t].ctx)
  /\ Moves(t, [Guarded(req[t], "work") EXCEPT !.todo = Tail(@), !.data = @ \cup saw])

(* The Recorder's hours, in the units its metadata give, and the jobs in    *)
(* the CPU lane that take them.                                             *)
ReadsChunk(t) == req[t].phase = "chunk" /\ Resumes(t, {<<"units", world["units"]>>})

(* The native costs, with the metadata and states of the last guard.        *)
ReadsNative(t) ==
  req[t].phase = "costs" /\ Resumes(t, {<<"costs", world["costs"]>>, <<"prices", normal["prices"]>>})

Renders(t) ==
  req[t].phase = "render" /\ Moves(t, [req[t] EXCEPT !.phase = "held", !.todo = << >>])

(* async_validate_result and async_validate_statistics_hours: outside the   *)
(* lock, admitted like a request.                                           *)
Validates(t) ==
  /\ req[t].phase = "held"
  /\ IF Current(req[t].ctx) /\ pending < Max
     THEN /\ pending' = pending + 1
          /\ Keep(t, Guarded(req[t], "check"))
          /\ UNCHANGED <<outside, lock, normal, cache>>
     ELSE Raises(t, Current(req[t].ctx)) /\ UNCHANGED normal

-----------------------------------------------------------------------------
(* The world *)

Turned == SumFunction(world)

(* Any fact may change at any time.                                         *)
Turns ==
  /\ Turned < Changes
  /\ \E f \in Facts \cup Read : world' = [world EXCEPT ![f] = @ + 1]
  /\ UNCHANGED <<rights, running, lock, pending, normal, cache, req>>

(* A role is revoked or granted, or a schedule's actor expires, without any *)
(* change of a revision; "roles" only counts.                               *)
Revokes ==
  /\ Turned < Changes
  /\ world' = [world EXCEPT !["roles"] = @ + 1]
  /\ \E u \in Users, r \in SUBSET {"energy", "native"} : rights' = [rights EXCEPT ![u] = r]
  /\ UNCHANGED <<running, lock, pending, normal, cache, req>>

Stops ==
  /\ running
  /\ running' = FALSE
  /\ cache' = None
  /\ UNCHANGED <<world, rights, lock, pending, normal, req>>

Proceeds(t) ==
  \/ Captures(t) \/ FirstAccess(t) \/ ReadsBook(t)
  \/ Access(t) \/ ReadsUnits(t) \/ Normalizes(t) \/ AccessAgain(t)
  \/ NativeAccess(t) \/ ReadsCosts(t) \/ NativeNormalizes(t) \/ LastAccess(t)
  \/ ReadsChunk(t) \/ ReadsNative(t) \/ Renders(t) \/ Validates(t)
  \/ Stale(t) \/ Denied(t)

AnalysisNext ==
  \/ Turns \/ Revokes \/ Stops
  \/ \E t \in Requests : Admit(t) \/ Locks(t) \/ Proceeds(t) \/ Fails(t)

AnalysisSpec == AnalysisInit /\ [][AnalysisNext]_vars

-----------------------------------------------------------------------------
(* Properties *)

(* Whatever calculation was under way when the service stopped, it leaves   *)
(* no answer in a cache nobody would clear.                                 *)
StoppedKeepsNothing == ~running => cache = None

(* An answer is let go to a user who may read it at that moment, from facts *)
(* that are all current, whether calculated or cached: the book and the     *)
(* membership it used are the captured ones, and every chunk and cost was   *)
(* read in the units, metadata and prices the last guard saw.               *)
AnswersAreCurrent ==
  [][\A t \in Requests : (req[t].phase # "done" /\ req'[t].phase = "done") =>
       LET r == req'[t]
       IN /\ running
          /\ "energy" \in rights[r.user]
          /\ r.ctx.native = "allowed" => "native" \in rights[r.user] /\ r.ctx.normal["prices"] = world["prices"]
          /\ \A f \in Facts : r.ctx.facts[f] = world[f]
          /\ \A p \in r.data : p[2] = IF p[1] \in Facts THEN world[p[1]] ELSE r.ctx.normal[p[1]]]_vars
=============================================================================
