----------------------- MODULE AnalysisServiceProofs -----------------------
(***************************************************************************)
(* AnalysisService: a stopped service keeps no answer, and no answer is let  *)
(* go that is not current and permitted, for any number of requests, users, *)
(* facts and changes.                                                       *)
(***************************************************************************)
EXTENDS AnalysisService, SequenceTheorems, TLAPS

(***************************************************************************)
(* Types.                                                                   *)
(***************************************************************************)
Versions == [Facts \cup Read \cup {"roles"} -> Nat]

Normals == [Read -> Nat \cup {None}]

FactVersions == [Facts -> Nat]

Contexts == [kind : Kinds, native : {"none", "asked", "allowed", "denied"},
             facts : FactVersions, normal : Normals]

(* What an answer was made from: a fact or a reading, and its version. *)
Pairs == (Facts \cup Read) \X Nat

Steps == Seq({"chunk", "costs", "render"})

RequestStates ==
  [phase : {"idle", "lock", "policy", "access", "book", "guard", "chunk", "costs", "held", "render", "done"},
   kind : Kinds \cup {"none"}, user : Users \cup {None},
   gate : {"none", "access", "read", "units", "again", "prices", "costs", "states", "last"},
   stage : {"none", "lookup", "work", "check"},
   ctx : Contexts \cup {None}, todo : Steps, saw : Nat \cup {None}, data : SUBSET Pairs]

Entries == [ctx : Contexts, data : SUBSET Pairs]

(***************************************************************************)
(* The invariant.                                                           *)
(***************************************************************************)

(* A context never knows a version to come, and takes the native metadata and  *)
(* prices together.                                                            *)
GoodContext(c, w) ==
  /\ c \in Contexts
  /\ \A f \in {"units", "costs"} : c.normal[f] # None => c.normal[f] <= w[f]
  /\ c.normal["costs"] = None <=> c.normal["prices"] = None

(* A whole guard has been passed under it. *)
Complete(c) ==
  /\ c.normal["units"] # None
  /\ c.native # "asked"
  /\ c.native = "allowed" => c.normal["costs"] # None

Expected(c, f) == IF f \in Facts THEN c.facts[f] ELSE c.normal[f]

(* An answer made from what its context holds. *)
RestsOn(c, d) ==
  \A p \in d : p[2] = Expected(c, p[1]) /\ (p[1] = "costs" => c.native = "allowed")

(* A reading made after the context was normalized is not older than it; it is *)
(* known to be the same once a later reading is.                               *)
Between(n, v, now, saw, seen, same) ==
  /\ n # None
  /\ n <= v /\ v <= now
  /\ seen => v <= saw
  /\ same => v = n

Gate(r, gates) == r.phase = "guard" /\ r.gate \in gates

Witnessed(r, w) ==
  \A p \in r.data :
    /\ p[1] \in Facts \cup {"prices"} => p[2] = Expected(r.ctx, p[1])
    /\ p[1] = "units" =>
         Between(r.ctx.normal["units"], p[2], w["units"], r.saw, Gate(r, {"units"}),
                 ~Gate(r, {"access", "read", "units"}))
    /\ p[1] = "costs" =>
         /\ r.ctx.native = "allowed"
         /\ Between(r.ctx.normal["costs"], p[2], w["costs"], r.saw, Gate(r, {"states"}),
                    Gate(r, {"last"}) \/ r.phase # "guard")

(* Where in the guard a request is, and what it has seen there. *)
Passing(r, w) ==
  r.phase = "guard" =>
    /\ r.gate # "none" /\ r.stage # "none"
    /\ r.gate \in {"again", "prices", "costs", "states", "last"} => r.ctx.normal["units"] # None
    /\ r.gate \in {"prices", "costs", "states", "last"} => r.ctx.native # "none"
    /\ r.gate \in {"costs", "states"} => r.ctx.native = "allowed"
    /\ r.gate = "last" => Complete(r.ctx)
    /\ r.stage # "lookup" => Complete(r.ctx)
    /\ r.gate = "units" => r.saw \in Nat /\ r.saw <= w["units"]
    /\ r.gate = "states" => r.saw \in Nat /\ r.saw <= w["costs"]

Working(r) == r.phase \in {"chunk", "costs"} \/ (r.phase = "guard" /\ r.stage = "work")

(* What is left to do: native costs only with the permission to read them. *)
Planned(r) ==
  /\ Working(r) => \A i \in 1..Len(r.todo) : /\ r.todo[i] # "render"
                                             /\ r.todo[i] = "costs" => r.ctx.native = "allowed"
  /\ r.phase \in {"chunk", "costs"} => r.todo # << >>
  /\ r.phase = "costs" => r.ctx.native = "allowed"
  /\ r.phase = "held" \/ (r.phase = "guard" /\ r.stage = "check") =>
       \A i \in 1..Len(r.todo) : r.todo[i] = "render"

GoodRequest(r, w) ==
  /\ r \in RequestStates
  /\ r.phase \notin {"idle", "done"} => r.kind \in Kinds
  /\ r.phase \in {"lock", "policy"} => r.data = {} /\ r.todo = << >>
  /\ r.phase \notin {"idle", "lock", "policy"} =>
       /\ GoodContext(r.ctx, w)
       /\ r.phase \notin {"access", "book", "guard"} => Complete(r.ctx)
       /\ r.phase \in {"access", "book"} => r.data = {} /\ r.ctx.native = "none"
       /\ Witnessed(r, w)
       /\ Passing(r, w)
       /\ Planned(r)

GoodCache == cache # None => cache \in Entries /\ RestsOn(cache.ctx, cache.data)

AnalysisInv ==
  /\ world \in Versions /\ normal \in Normals
  /\ req \in [Requests -> RequestStates]
  /\ \A t \in Requests : GoodRequest(req[t], world)
  /\ GoodCache
  /\ StoppedKeepsNothing

(***************************************************************************)
(* Requests.                                                                *)
(***************************************************************************)
LEMMA NoStepsLeft == << >> \in Steps /\ Len(<< >>) = 0
  BY DEF Steps

LEMMA NoRequestIsGood ==
  ASSUME NEW w PROVE GoodRequest(NoRequest, w)
<1>1. NoRequest \in RequestStates
  BY NoStepsLeft DEF NoRequest, RequestStates
<1>2. QED
  BY <1>1 DEF GoodRequest, NoRequest

(* The versions only grow. *)
LEMMA OlderIsGood ==
  ASSUME NEW w \in Versions, NEW v \in Versions, NEW r, GoodRequest(r, w),
         w["units"] <= v["units"], w["costs"] <= v["costs"]
  PROVE  GoodRequest(r, v)
<1>1. w["units"] \in Nat /\ w["costs"] \in Nat /\ v["units"] \in Nat /\ v["costs"] \in Nat
  BY DEF Versions, Read
<1> SUFFICES ASSUME r.phase \notin {"idle", "lock", "policy"}
             PROVE  GoodContext(r.ctx, v) /\ Witnessed(r, v) /\ Passing(r, v)
  BY DEF GoodRequest
<1>2. r \in RequestStates /\ GoodContext(r.ctx, w) /\ Witnessed(r, w) /\ Passing(r, w)
  BY DEF GoodRequest
<1>3. /\ r.ctx.normal["units"] \in Nat \cup {None} /\ r.ctx.normal["costs"] \in Nat \cup {None}
      /\ r.saw \in Nat \cup {None}
  BY <1>2 DEF GoodContext, Contexts, Normals, Read, RequestStates
<1>4. GoodContext(r.ctx, v)
  BY <1>1, <1>2, <1>3 DEF GoodContext
<1>5. Witnessed(r, v)
  <2>1. \A p \in r.data : p[2] \in Nat
    BY <1>2 DEF RequestStates, Pairs
  <2>2. QED
    BY <1>1, <1>2, <2>1 DEF Witnessed, Between
<1>6. Passing(r, v)
  BY <1>1, <1>2 DEF Passing
<1>7. QED
  BY <1>4, <1>5, <1>6

(* At the end of the guard every reading is the one the context holds.         *)
LEMMA GuardSettles ==
  ASSUME NEW w, NEW r, GoodRequest(r, w), r.phase = "guard",
         (r.gate = "again" /\ r.ctx.native = "none") \/ r.gate = "last"
  PROVE  Complete(r.ctx) /\ RestsOn(r.ctx, r.data)
<1>1. /\ r \in RequestStates /\ Passing(r, w) /\ Witnessed(r, w)
  BY DEF GoodRequest
<1>2. Complete(r.ctx)
  BY <1>1 DEF Passing, Complete
<1>3. ASSUME NEW p \in r.data
      PROVE  p[2] = Expected(r.ctx, p[1]) /\ (p[1] = "costs" => r.ctx.native = "allowed")
  <2>1. p[1] \in Facts \cup {"units", "costs", "prices"}
    BY <1>1 DEF RequestStates, Pairs, Read
  <2>2. {"units", "costs", "prices"} \cap Facts = {}
    BY AnalysisAssumption
  <2>3. CASE p[1] \in Facts \cup {"prices"}
    BY <1>1, <2>2, <2>3 DEF Witnessed
  <2>4. CASE p[1] = "units"
    BY <1>1, <2>2, <2>4 DEF Witnessed, Between, Gate, Expected
  <2>5. CASE p[1] = "costs"
    BY <1>1, <2>2, <2>5 DEF Witnessed, Between, Gate, Expected
  <2>6. QED
    BY <2>1, <2>3, <2>4, <2>5
<1>4. QED
  BY <1>2, <1>3 DEF RestsOn

(* And an answer that its context supports is witnessed wherever no later      *)
(* reading is compared.                                                        *)
LEMMA SupportedIsWitnessed ==
  ASSUME NEW w \in Versions, NEW r \in RequestStates, GoodContext(r.ctx, w), RestsOn(r.ctx, r.data),
         ~Gate(r, {"units", "states"})
  PROVE  Witnessed(r, w)
<1>1. r.ctx.normal \in Normals /\ w["units"] \in Nat /\ w["costs"] \in Nat
  BY DEF GoodContext, Contexts, Versions, Read
<1>2. ASSUME NEW p \in r.data
      PROVE
        /\ p[1] = "units" =>
             Between(r.ctx.normal["units"], p[2], w["units"], r.saw, Gate(r, {"units"}),
                     ~Gate(r, {"access", "read", "units"}))
        /\ p[1] = "costs" =>
             Between(r.ctx.normal["costs"], p[2], w["costs"], r.saw, Gate(r, {"states"}),
                     Gate(r, {"last"}) \/ r.phase # "guard")
  <2>1. p[2] \in Nat
    BY DEF RequestStates, Pairs
  <2>2. p[1] \in {"units", "costs"} => p[2] = r.ctx.normal[p[1]]
    BY AnalysisAssumption DEF RestsOn, Expected
  <2>3. ~Gate(r, {"units"}) /\ ~Gate(r, {"states"})
    BY DEF Gate
  <2>4. p[1] \in {"units", "costs"} => r.ctx.normal[p[1]] # None /\ r.ctx.normal[p[1]] <= w[p[1]]
    BY <2>1, <2>2, NoneAssumption DEF GoodContext
  <2>5. QED
    BY <2>1, <2>2, <2>3, <2>4 DEF Between
<1>3. QED
  BY <1>2 DEF Witnessed, RestsOn

(***************************************************************************)
(* Each step of a request keeps its part of the invariant.                  *)
(***************************************************************************)
LEMMA AdmittedIsGood ==
  ASSUME NEW w, NEW k \in Kinds, NEW u \in Users
  PROVE  GoodRequest([NoRequest EXCEPT !.phase = "lock", !.kind = k, !.user = u], w)
<1> DEFINE s == [NoRequest EXCEPT !.phase = "lock", !.kind = k, !.user = u]
<1>1. NoRequest \in RequestStates /\ NoRequest.data = {} /\ NoRequest.todo = << >>
  BY NoRequestIsGood DEF GoodRequest, NoRequest
<1>2. /\ s \in RequestStates /\ s.phase = "lock" /\ s.kind = k
      /\ s.data = NoRequest.data /\ s.todo = NoRequest.todo
  BY <1>1 DEF RequestStates
<1> HIDE DEF s
<1>3. GoodRequest(s, w)
  BY <1>1, <1>2 DEF GoodRequest
<1>4. QED
  BY <1>3 DEF s

LEMMA LockedIsGood ==
  ASSUME NEW w, NEW r, GoodRequest(r, w), r.phase = "lock"
  PROVE  GoodRequest([r EXCEPT !.phase = "policy"], w)
<1>1. r \in RequestStates
  BY DEF GoodRequest
<1>2. QED
  BY <1>1 DEF GoodRequest, RequestStates

(* A context is captured from what is current. *)
LEMMA CaptureIsGood ==
  ASSUME world \in Versions, NEW k \in Kinds
  PROVE  GoodContext(Capture(k), world)
<1>1. Captured \in FactVersions
  BY DEF Captured, FactVersions, Versions
<1>2. [f \in Read |-> None] \in Normals
  BY DEF Normals
<1>3. Capture(k) \in Contexts
  BY <1>1, <1>2 DEF Capture, Contexts
<1>4. QED
  BY <1>3 DEF GoodContext, Capture, Read

LEMMA CapturesIsGood ==
  ASSUME world \in Versions, NEW r, GoodRequest(r, world), r.phase = "policy"
  PROVE  GoodRequest([r EXCEPT !.phase = "access", !.gate = "access", !.ctx = Capture(r.kind)], world)
<1> DEFINE s == [r EXCEPT !.phase = "access", !.gate = "access", !.ctx = Capture(r.kind)]
<1>1. r \in RequestStates /\ r.kind \in Kinds /\ r.data = {} /\ r.todo = << >>
  BY DEF GoodRequest
<1>2. GoodContext(Capture(r.kind), world) /\ Capture(r.kind).native = "none"
  BY <1>1, CaptureIsGood DEF Capture
<1>3. Capture(r.kind) \in Contexts
  BY <1>2 DEF GoodContext
<1> DEFINE c == Capture(r.kind)
<1> HIDE DEF c
<1>4. /\ s \in RequestStates /\ s.phase = "access" /\ s.ctx = c /\ s.data = {} /\ s.kind = r.kind
  BY <1>1, <1>3 DEF RequestStates, c
<1> HIDE DEF s
<1>5. Witnessed(s, world) /\ Passing(s, world) /\ Planned(s)
  BY <1>4 DEF Witnessed, Passing, Planned, Working
<1>6. GoodRequest(s, world)
  BY <1>1, <1>2, <1>4, <1>5 DEF GoodRequest, c
<1>7. QED
  BY <1>6 DEF s

LEMMA FirstAccessIsGood ==
  ASSUME NEW w, NEW r, GoodRequest(r, w), r.phase = "access"
  PROVE  GoodRequest([r EXCEPT !.phase = "book"], w)
<1> DEFINE s == [r EXCEPT !.phase = "book"]
<1>1. r \in RequestStates
  BY DEF GoodRequest
<1>2. /\ s \in RequestStates /\ s.phase = "book" /\ s.ctx = r.ctx /\ s.data = r.data /\ s.kind = r.kind
  BY <1>1 DEF RequestStates
<1> HIDE DEF s
<1>3. r.kind \in Kinds /\ GoodContext(r.ctx, w) /\ r.ctx.native = "none" /\ r.data = {}
  BY DEF GoodRequest
<1>4. Witnessed(s, w) /\ Passing(s, w) /\ Planned(s)
  BY <1>2, <1>3 DEF Witnessed, Passing, Planned, Working
<1>5. GoodRequest(s, w)
  BY <1>2, <1>3, <1>4 DEF GoodRequest
<1>6. QED
  BY <1>5 DEF s

(* A guard starts with nothing seen. *)
LEMMA GuardStarts ==
  ASSUME NEW w \in Versions, NEW s \in RequestStates, s.kind \in Kinds,
         s.phase = "guard", s.gate = "access", s.stage # "none",
         GoodContext(s.ctx, w), Witnessed(s, w), Planned(s),
         s.stage # "lookup" => Complete(s.ctx)
  PROVE  GoodRequest(s, w)
<1>1. Passing(s, w)
  BY DEF Passing
<1>2. QED
  BY <1>1 DEF GoodRequest

LEMMA ReadsBookIsGood ==
  ASSUME AnalysisInv, NEW r, GoodRequest(r, world), r.phase = "book", Current(r.ctx),
         NEW n \in {"asked", "none"}
  PROVE  GoodRequest(Guarded([r EXCEPT !.ctx.native = n, !.data = {<<"tariff", world["tariff"]>>}],
                             "lookup"), world)
<1> DEFINE s == Guarded([r EXCEPT !.ctx.native = n, !.data = {<<"tariff", world["tariff"]>>}], "lookup")
           p == <<"tariff", world["tariff"]>>
           c == [r.ctx EXCEPT !.native = n]
<1>1. r \in RequestStates /\ r.kind \in Kinds /\ GoodContext(r.ctx, world)
  BY DEF GoodRequest
<1>2. r.ctx \in Contexts
  BY <1>1 DEF GoodContext
<1>3. c \in Contexts /\ c.facts = r.ctx.facts /\ c.normal = r.ctx.normal /\ c.native = n
  BY <1>2 DEF Contexts
<1>4. world["tariff"] \in Nat /\ "tariff" \in Facts /\ p \in Pairs /\ p[1] = "tariff" /\ p[2] = world["tariff"]
  BY AnalysisAssumption DEF AnalysisInv, Versions, Pairs
<1> HIDE DEF p, c
<1>5. /\ s \in RequestStates /\ s.phase = "guard" /\ s.gate = "access" /\ s.stage = "lookup"
      /\ s.ctx = c /\ s.data = {p} /\ s.kind = r.kind
  BY <1>1, <1>3, <1>4 DEF RequestStates, Guarded, c, p
<1> HIDE DEF s
<1>6. GoodContext(c, world)
  BY <1>1, <1>3 DEF GoodContext
<1>7. p[2] = Expected(c, p[1])
  BY <1>3, <1>4 DEF Current, Expected
<1>8. Witnessed(s, world)
  BY <1>4, <1>5, <1>7, AnalysisAssumption DEF Witnessed
<1>9. Planned(s)
  BY <1>5 DEF Planned, Working
<1>10. GoodRequest(s, world)
  BY <1>1, <1>5, <1>6, <1>8, <1>9, GuardStarts DEF AnalysisInv
<1>11. QED
  BY <1>10 DEF s

(* The moves of a request through its guard.  Only what a move changes is      *)
(* looked at: the rest stands by this lemma.                                   *)
LEMMA GuardMoves ==
  ASSUME NEW w, NEW r, NEW s \in RequestStates, GoodRequest(r, w), r.phase = "guard",
         s.phase = "guard", s.kind = r.kind, s.stage = r.stage, s.todo = r.todo,
         r.stage # "lookup" => s.ctx.native = r.ctx.native,
         GoodContext(s.ctx, w), Witnessed(s, w), Passing(s, w)
  PROVE  GoodRequest(s, w)
<1>1. r.kind \in Kinds /\ Planned(r)
  BY DEF GoodRequest
<1>2. Planned(s)
  BY <1>1 DEF Planned, Working
<1>3. QED
  BY <1>1, <1>2 DEF GoodRequest

LEMMA AccessIsGood ==
  ASSUME NEW w, NEW r, GoodRequest(r, w), r.phase = "guard", r.gate = "access"
  PROVE  GoodRequest([r EXCEPT !.gate = "read"], w)
<1> DEFINE s == [r EXCEPT !.gate = "read"]
<1>1. r \in RequestStates /\ GoodContext(r.ctx, w) /\ Witnessed(r, w) /\ Passing(r, w)
  BY DEF GoodRequest
<1>2. /\ s \in RequestStates /\ s.phase = "guard" /\ s.gate = "read" /\ s.stage = r.stage
      /\ s.ctx = r.ctx /\ s.data = r.data /\ s.kind = r.kind /\ s.todo = r.todo /\ s.saw = r.saw
  BY <1>1 DEF RequestStates
<1> HIDE DEF s
<1>3. Witnessed(s, w)
  BY <1>1, <1>2 DEF Witnessed, Gate, Between, Expected
<1>4. Passing(s, w)
  BY <1>1, <1>2 DEF Passing
<1>5. GoodRequest(s, w)
  BY <1>1, <1>2, <1>3, <1>4, GuardMoves
<1>6. QED
  BY <1>5 DEF s

LEMMA UnitsReadIsGood ==
  ASSUME NEW w \in Versions, NEW r, GoodRequest(r, w), r.phase = "guard", r.gate = "read"
  PROVE  GoodRequest([r EXCEPT !.gate = "units", !.saw = w["units"]], w)
<1> DEFINE s == [r EXCEPT !.gate = "units", !.saw = w["units"]]
<1>1. r \in RequestStates /\ GoodContext(r.ctx, w) /\ Witnessed(r, w) /\ Passing(r, w)
  BY DEF GoodRequest
<1>2. w["units"] \in Nat /\ w["costs"] \in Nat
  BY DEF Versions, Read
<1>3. /\ s \in RequestStates /\ s.phase = "guard" /\ s.gate = "units" /\ s.stage = r.stage
      /\ s.ctx = r.ctx /\ s.data = r.data /\ s.kind = r.kind /\ s.todo = r.todo /\ s.saw = w["units"]
  BY <1>1, <1>2 DEF RequestStates
<1> HIDE DEF s
<1>4. Witnessed(s, w)
  BY <1>1, <1>3 DEF Witnessed, Gate, Between, Expected
<1>5. Passing(s, w)
  BY <1>1, <1>2, <1>3 DEF Passing
<1>6. GoodRequest(s, w)
  BY <1>1, <1>3, <1>4, <1>5, GuardMoves
<1>7. QED
  BY <1>6 DEF s

(* The units read now are those of the context, and of everything read between. *)
LEMMA NormalizedIsGood ==
  ASSUME NEW w \in Versions, NEW r, GoodRequest(r, w), r.phase = "guard", r.gate = "units",
         r.ctx.normal["units"] \in {None, r.saw}
  PROVE  GoodRequest([r EXCEPT !.gate = "again", !.ctx.normal["units"] = r.saw, !.saw = None], w)
<1> DEFINE s == [r EXCEPT !.gate = "again", !.ctx.normal["units"] = r.saw, !.saw = None]
           c == [r.ctx EXCEPT !.normal["units"] = r.saw]
<1>1. r \in RequestStates /\ GoodContext(r.ctx, w) /\ Witnessed(r, w) /\ Passing(r, w)
  BY DEF GoodRequest
<1>2. r.ctx \in Contexts /\ r.saw \in Nat /\ r.saw <= w["units"]
  BY <1>1 DEF GoodContext, Passing
<1>3. [r.ctx.normal EXCEPT !["units"] = r.saw] \in Normals
  BY <1>2 DEF Contexts, Normals
<1>4. /\ c \in Contexts /\ c.facts = r.ctx.facts /\ c.native = r.ctx.native
      /\ c.normal = [r.ctx.normal EXCEPT !["units"] = r.saw]
  BY <1>2, <1>3 DEF Contexts
<1>5. /\ c.normal["units"] = r.saw
      /\ c.normal["costs"] = r.ctx.normal["costs"]
      /\ c.normal["prices"] = r.ctx.normal["prices"]
  BY <1>2, <1>4 DEF Contexts, Normals, Read
<1> HIDE DEF c
<1>6. /\ s \in RequestStates /\ s.phase = "guard" /\ s.gate = "again" /\ s.stage = r.stage
      /\ s.ctx = c /\ s.data = r.data /\ s.kind = r.kind /\ s.todo = r.todo
  BY <1>1, <1>4 DEF RequestStates, c
<1> HIDE DEF s
<1>7. GoodContext(c, w)
  BY <1>1, <1>2, <1>4, <1>5 DEF GoodContext
<1>8. Witnessed(s, w)
  <2>1. r.data \subseteq Pairs
    BY <1>1 DEF RequestStates
  <2>2. ASSUME NEW p \in r.data
        PROVE
         /\ p[1] \in Facts \cup {"prices"} => p[2] = Expected(c, p[1])
         /\ p[1] = "units" => Between(r.saw, p[2], w["units"], s.saw, FALSE, TRUE)
         /\ p[1] = "costs" => /\ c.native = "allowed"
                              /\ Between(c.normal["costs"], p[2], w["costs"], s.saw, FALSE, FALSE)
    <3>1. p[2] \in Nat
      BY <2>1 DEF Pairs
    <3>2. p[1] \in Facts \cup {"prices"} => p[2] = Expected(c, p[1])
      BY <1>1, <1>4, <1>5 DEF Witnessed, Expected
    <3>3. p[1] = "costs" => /\ c.native = "allowed"
                            /\ Between(c.normal["costs"], p[2], w["costs"], s.saw, FALSE, FALSE)
      BY <1>1, <1>4, <1>5 DEF Witnessed, Between
    <3>4. p[1] = "units" => /\ r.ctx.normal["units"] # None /\ r.ctx.normal["units"] <= p[2]
                            /\ p[2] <= w["units"] /\ p[2] <= r.saw
      BY <1>1 DEF Witnessed, Between, Gate
    <3>5. p[1] = "units" => Between(r.saw, p[2], w["units"], s.saw, FALSE, TRUE)
      BY <1>2, <3>1, <3>4, NoneAssumption DEF Between
    <3>6. QED
      BY <3>2, <3>3, <3>5
  <2>3. QED
    BY <1>5, <1>6, <2>2 DEF Witnessed, Gate, Between
<1>9. Complete(r.ctx) => Complete(c)
  BY <1>2, <1>4, <1>5, NoneAssumption DEF Complete
<1>10. Passing(s, w)
  BY <1>1, <1>2, <1>5, <1>6, <1>9, NoneAssumption DEF Passing
<1>11. GoodRequest(s, w)
  BY <1>4, <1>6, <1>7, <1>8, <1>10, GuardMoves
<1>12. QED
  BY <1>11 DEF s

LEMMA AsksPricesIsGood ==
  ASSUME NEW w, NEW r, GoodRequest(r, w), r.phase = "guard", r.gate = "again", r.ctx.native # "none"
  PROVE  GoodRequest([r EXCEPT !.gate = "prices"], w)
<1> DEFINE s == [r EXCEPT !.gate = "prices"]
<1>1. r \in RequestStates /\ GoodContext(r.ctx, w) /\ Witnessed(r, w) /\ Passing(r, w)
  BY DEF GoodRequest
<1>2. /\ s \in RequestStates /\ s.phase = "guard" /\ s.gate = "prices" /\ s.stage = r.stage
      /\ s.ctx = r.ctx /\ s.data = r.data /\ s.kind = r.kind /\ s.todo = r.todo /\ s.saw = r.saw
  BY <1>1 DEF RequestStates
<1> HIDE DEF s
<1>3. Witnessed(s, w)
  BY <1>1, <1>2 DEF Witnessed, Gate, Between, Expected
<1>4. Passing(s, w)
  BY <1>1, <1>2 DEF Passing
<1>5. GoodRequest(s, w)
  BY <1>1, <1>2, <1>3, <1>4, GuardMoves
<1>6. QED
  BY <1>5 DEF s

(* The permission for native prices is decided once, by the first guard.       *)
LEMMA NativeAccessIsGood ==
  ASSUME NEW w \in Versions, NEW r, GoodRequest(r, w), r.phase = "guard", r.gate = "prices",
         NEW n \in {"allowed", "denied"}, r.ctx.native # "asked" => n = r.ctx.native,
         NEW g, g = IF n = "allowed" THEN "costs" ELSE "last"
  PROVE  GoodRequest([r EXCEPT !.ctx.native = n, !.gate = g], w)
<1> DEFINE s == [r EXCEPT !.ctx.native = n, !.gate = g]
           c == [r.ctx EXCEPT !.native = n]
<1>1. r \in RequestStates /\ GoodContext(r.ctx, w) /\ Witnessed(r, w) /\ Passing(r, w)
  BY DEF GoodRequest
<1>2. r.ctx \in Contexts
  BY <1>1 DEF GoodContext
<1>3. c \in Contexts /\ c.facts = r.ctx.facts /\ c.normal = r.ctx.normal /\ c.native = n
  BY <1>2 DEF Contexts
<1> HIDE DEF c
<1>4. /\ s \in RequestStates /\ s.phase = "guard" /\ s.gate = g /\ s.stage = r.stage
      /\ s.ctx = c /\ s.data = r.data /\ s.kind = r.kind /\ s.todo = r.todo /\ s.saw = r.saw
  BY <1>1, <1>3 DEF RequestStates, c
<1> HIDE DEF s
<1>5. GoodContext(c, w)
  BY <1>1, <1>3 DEF GoodContext
<1>6. Witnessed(s, w)
  <2>1. \A p \in r.data : p[1] = "costs" => n = "allowed"
    BY <1>1 DEF Witnessed
  <2>2. \A p \in r.data : p[1] \in Facts \cup {"prices"} => p[2] = Expected(c, p[1])
    BY <1>1, <1>3 DEF Witnessed, Expected
  <2>3. g = "last" => \A p \in r.data : p[1] # "costs"
    BY <2>1
  <2>4. QED
    BY <1>1, <1>3, <1>4, <2>1, <2>2, <2>3 DEF Witnessed, Gate, Between
<1>7. Passing(s, w)
  BY <1>1, <1>3, <1>4 DEF Passing, Complete
<1>8. r.stage # "lookup" => n = r.ctx.native
  BY <1>1 DEF Passing, Complete
<1>9. GoodRequest(s, w)
  BY <1>3, <1>4, <1>5, <1>6, <1>7, <1>8, GuardMoves
<1>10. QED
  BY <1>9 DEF s

LEMMA CostsReadIsGood ==
  ASSUME NEW w \in Versions, NEW r, GoodRequest(r, w), r.phase = "guard", r.gate = "costs"
  PROVE  GoodRequest([r EXCEPT !.gate = "states", !.saw = w["costs"]], w)
<1> DEFINE s == [r EXCEPT !.gate = "states", !.saw = w["costs"]]
<1>1. r \in RequestStates /\ GoodContext(r.ctx, w) /\ Witnessed(r, w) /\ Passing(r, w)
  BY DEF GoodRequest
<1>2. w["units"] \in Nat /\ w["costs"] \in Nat
  BY DEF Versions, Read
<1>3. /\ s \in RequestStates /\ s.phase = "guard" /\ s.gate = "states" /\ s.stage = r.stage
      /\ s.ctx = r.ctx /\ s.data = r.data /\ s.kind = r.kind /\ s.todo = r.todo /\ s.saw = w["costs"]
  BY <1>1, <1>2 DEF RequestStates
<1> HIDE DEF s
<1>4. Witnessed(s, w)
  BY <1>1, <1>3 DEF Witnessed, Gate, Between, Expected
<1>5. Passing(s, w)
  BY <1>1, <1>2, <1>3 DEF Passing
<1>6. GoodRequest(s, w)
  BY <1>1, <1>3, <1>4, <1>5, GuardMoves
<1>7. QED
  BY <1>6 DEF s

(* The same for the native costs, and the prices that go with them.            *)
LEMMA NativeNormalizedIsGood ==
  ASSUME NEW w \in Versions, NEW r, GoodRequest(r, w), r.phase = "guard", r.gate = "states",
         NEW price \in Nat,
         \/ r.ctx.normal["costs"] = None
         \/ r.ctx.normal["costs"] = r.saw /\ r.ctx.normal["prices"] = price
  PROVE  GoodRequest([r EXCEPT !.gate = "last", !.saw = None,
                        !.ctx.normal = [r.ctx.normal EXCEPT !["costs"] = r.saw, !["prices"] = price]], w)
<1> DEFINE m == [r.ctx.normal EXCEPT !["costs"] = r.saw, !["prices"] = price]
           s == [r EXCEPT !.gate = "last", !.saw = None, !.ctx.normal = m]
           c == [r.ctx EXCEPT !.normal = m]
<1>1. r \in RequestStates /\ GoodContext(r.ctx, w) /\ Witnessed(r, w) /\ Passing(r, w)
  BY DEF GoodRequest
<1>2. r.ctx \in Contexts /\ r.saw \in Nat /\ r.saw <= w["costs"]
  BY <1>1 DEF GoodContext, Passing
<1>3. m \in Normals
  BY <1>2 DEF Contexts, Normals
<1>4. m["costs"] = r.saw /\ m["prices"] = price /\ m["units"] = r.ctx.normal["units"]
  BY <1>2 DEF Contexts, Normals, Read
<1> HIDE DEF m
<1>5. c \in Contexts /\ c.facts = r.ctx.facts /\ c.native = r.ctx.native /\ c.normal = m
  BY <1>2, <1>3 DEF Contexts
<1> HIDE DEF c
<1>6. /\ s \in RequestStates /\ s.phase = "guard" /\ s.gate = "last" /\ s.stage = r.stage
      /\ s.ctx = c /\ s.data = r.data /\ s.kind = r.kind /\ s.todo = r.todo
  BY <1>1, <1>5 DEF RequestStates, c
<1> HIDE DEF s
<1>7. GoodContext(c, w)
  BY <1>1, <1>2, <1>4, <1>5, NoneAssumption DEF GoodContext
<1>8. Witnessed(s, w)
  <2>1. r.data \subseteq Pairs
    BY <1>1 DEF RequestStates
  <2>2. ASSUME NEW p \in r.data
        PROVE
         /\ p[1] \in Facts \cup {"prices"} => p[2] = Expected(c, p[1])
         /\ p[1] = "units" => Between(c.normal["units"], p[2], w["units"], s.saw, FALSE, TRUE)
         /\ p[1] = "costs" => /\ c.native = "allowed"
                              /\ Between(r.saw, p[2], w["costs"], s.saw, FALSE, TRUE)
    <3>1. p[2] \in Nat
      BY <2>1 DEF Pairs
    <3>2. p[1] \in Facts => p[2] = Expected(c, p[1])
      BY <1>1, <1>5 DEF Witnessed, Expected
    <3>3. p[1] = "prices" => p[2] = r.ctx.normal["prices"]
      BY <1>1, AnalysisAssumption DEF Witnessed, Expected
    <3>4. p[1] = "prices" => r.ctx.normal["costs"] # None
      BY <1>1, <3>1, <3>3, NoneAssumption DEF GoodContext
    <3>5. p[1] = "prices" => p[2] = Expected(c, p[1])
      BY <1>4, <1>5, <3>3, <3>4, AnalysisAssumption DEF Expected
    <3>6. p[1] = "units" => Between(c.normal["units"], p[2], w["units"], s.saw, FALSE, TRUE)
      BY <1>1, <1>4, <1>5 DEF Witnessed, Between, Gate
    <3>7. p[1] = "costs" => /\ c.native = "allowed" /\ r.ctx.normal["costs"] # None
                            /\ r.ctx.normal["costs"] <= p[2]
                            /\ p[2] <= w["costs"] /\ p[2] <= r.saw
      BY <1>1, <1>5 DEF Witnessed, Between, Gate
    <3>8. p[1] = "costs" => Between(r.saw, p[2], w["costs"], s.saw, FALSE, TRUE)
      BY <1>2, <3>1, <3>7, NoneAssumption DEF Between
    <3>9. QED
      BY <3>2, <3>5, <3>6, <3>7, <3>8
  <2>3. QED
    BY <1>4, <1>5, <1>6, <2>2 DEF Witnessed, Gate, Between
<1>9. Complete(c)
  BY <1>1, <1>2, <1>4, <1>5, NoneAssumption DEF Complete, Passing
<1>10. Passing(s, w)
  BY <1>1, <1>4, <1>5, <1>6, <1>9 DEF Passing
<1>11. GoodRequest(s, w)
  BY <1>5, <1>6, <1>7, <1>8, <1>10, GuardMoves
<1>12. QED
  BY <1>11 DEF s, m

(* A request that is past its guard and not in another one. *)
LEMMA SettledIsGood ==
  ASSUME NEW w \in Versions, NEW s \in RequestStates, s.kind \in Kinds,
         s.phase \in {"chunk", "costs", "held", "render", "done"},
         GoodContext(s.ctx, w), Complete(s.ctx), RestsOn(s.ctx, s.data), Planned(s)
  PROVE  GoodRequest(s, w)
<1>1. Witnessed(s, w)
  BY SupportedIsWitnessed DEF Gate
<1>2. Passing(s, w)
  BY DEF Passing
<1>3. QED
  BY <1>1, <1>2 DEF GoodRequest

LEMMA RestIsRender ==
  ASSUME NEW k
  PROVE  Rest(k) \in Steps /\ \A i \in 1..Len(Rest(k)) : Rest(k)[i] = "render"
<1>1. << >> \in Steps /\ Len(<< >>) = 0
  BY NoStepsLeft
<1>2. <<"render">> \in Steps /\ Len(<<"render">>) = 1 /\ <<"render">>[1] = "render"
  BY DEF Steps
<1>3. QED
  BY <1>1, <1>2 DEF Rest

LEMMA ServedIsGood ==
  ASSUME NEW w \in Versions, NEW r, GoodRequest(r, w), r.phase = "guard", Complete(r.ctx),
         NEW d \in SUBSET Pairs, RestsOn(r.ctx, d)
  PROVE  GoodRequest([r EXCEPT !.phase = "held", !.gate = "none", !.data = d, !.todo = Rest(r.kind)], w)
<1> DEFINE s == [r EXCEPT !.phase = "held", !.gate = "none", !.data = d, !.todo = Rest(r.kind)]
<1>1. r \in RequestStates /\ r.kind \in Kinds /\ GoodContext(r.ctx, w)
  BY DEF GoodRequest
<1>2. /\ s \in RequestStates /\ s.phase = "held" /\ s.ctx = r.ctx /\ s.data = d /\ s.kind = r.kind
      /\ s.todo = Rest(r.kind)
  BY <1>1, RestIsRender DEF RequestStates
<1> HIDE DEF s
<1>3. Planned(s)
  BY <1>2, RestIsRender DEF Planned, Working
<1>4. GoodRequest(s, w)
  BY <1>1, <1>2, <1>3, SettledIsGood
<1>5. QED
  BY <1>4 DEF s

(* What a calculation will do is known when its lookup found nothing. *)
LEMMA WorkIsPlanned ==
  ASSUME NEW native \in BOOLEAN
  PROVE  LET todo == <<"chunk">> \o IF native THEN <<"costs">> ELSE << >>
         IN /\ todo \in Steps
            /\ \A i \in 1..Len(todo) : todo[i] # "render" /\ (todo[i] = "costs" => native)
<1> DEFINE tail == IF native THEN <<"costs">> ELSE << >>
           todo == <<"chunk">> \o tail
           S == {"chunk", "costs", "render"}
<1>1. <<"chunk">> \in Seq(S) /\ Len(<<"chunk">>) = 1 /\ <<"chunk">>[1] = "chunk"
  OBVIOUS
<1>2. tail \in Seq(S) /\ Len(tail) \in Nat /\ \A i \in 1..Len(tail) : tail[i] = "costs" /\ native
  <2>1. CASE native
    BY <2>1
  <2>2. CASE ~native
    <3>1. tail = << >>
      BY <2>2
    <3>2. << >> \in Seq(S) /\ Len(<< >>) = 0
      OBVIOUS
    <3>3. QED
      BY <3>1, <3>2
  <2>3. QED
    BY <2>1, <2>2
<1> HIDE DEF tail, S
<1>3. /\ todo \in Seq(S) /\ Len(todo) = Len(<<"chunk">>) + Len(tail)
      /\ \A i \in 1..Len(<<"chunk">>) + Len(tail) :
           todo[i] = IF i <= Len(<<"chunk">>) THEN <<"chunk">>[i] ELSE tail[i - Len(<<"chunk">>)]
  BY <1>1, <1>2, ConcatProperties, Zenon
<1>4. ASSUME NEW i \in 1..Len(todo)
      PROVE  todo[i] # "render" /\ (todo[i] = "costs" => native)
  <2>1. CASE i = 1
    BY <1>1, <1>2, <1>3, <2>1
  <2>2. CASE i # 1
    <3>1. i - 1 \in 1..Len(tail) /\ todo[i] = tail[i - 1]
      BY <1>1, <1>2, <1>3, <2>2
    <3>2. QED
      BY <1>2, <3>1
  <2>3. QED
    BY <2>1, <2>2
<1>5. todo \in Steps
  BY <1>3 DEF S, Steps
<1>6. QED
  BY <1>4, <1>5 DEF tail

(* A calculation resumes its guard with what it read in between. *)
LEMMA ReadingIsGood ==
  ASSUME NEW w \in Versions, NEW r, GoodRequest(r, w), r.kind \in Kinds,
         GoodContext(r.ctx, w), Complete(r.ctx), RestsOn(r.ctx, r.data),
         NEW todo \in Steps,
         \A i \in 1..Len(todo) : todo[i] # "render" /\ (todo[i] = "costs" => r.ctx.native = "allowed"),
         NEW seen \in SUBSET Pairs,
         \A p \in seen :
           /\ p[1] \in Facts \cup {"prices"} => p[2] = Expected(r.ctx, p[1])
           /\ p[1] = "units" => p[2] = w["units"]
           /\ p[1] = "costs" => p[2] = w["costs"] /\ r.ctx.native = "allowed"
  PROVE  GoodRequest([Guarded(r, "work") EXCEPT !.todo = todo, !.data = r.data \cup seen], w)
<1> DEFINE s == [Guarded(r, "work") EXCEPT !.todo = todo, !.data = r.data \cup seen]
<1>1. r \in RequestStates
  BY DEF GoodRequest
<1>2. /\ s \in RequestStates /\ s.phase = "guard" /\ s.gate = "access" /\ s.stage = "work"
      /\ s.ctx = r.ctx /\ s.data = r.data \cup seen /\ s.kind = r.kind /\ s.todo = todo /\ s.saw = r.saw
  BY <1>1 DEF RequestStates, Guarded
<1> HIDE DEF s
<1>3. w["units"] \in Nat /\ w["costs"] \in Nat /\ r.ctx.normal \in Normals
  BY DEF Versions, Read, GoodContext, Contexts
<1>4. Witnessed(s, w)
  <2>1. ASSUME NEW p \in r.data \cup seen
        PROVE
         /\ p[1] \in Facts \cup {"prices"} => p[2] = Expected(r.ctx, p[1])
         /\ p[1] = "units" => Between(r.ctx.normal["units"], p[2], w["units"], s.saw, FALSE, FALSE)
         /\ p[1] = "costs" => /\ r.ctx.native = "allowed"
                              /\ Between(r.ctx.normal["costs"], p[2], w["costs"], s.saw, FALSE, FALSE)
    <3>1. CASE p \in seen
      <4>1. r.ctx.normal["units"] # None /\ r.ctx.normal["units"] <= w["units"]
        BY DEF Complete, GoodContext
      <4>2. p[1] = "costs" => r.ctx.normal["costs"] # None /\ r.ctx.normal["costs"] <= w["costs"]
        BY <3>1 DEF Complete, GoodContext
      <4>3. QED
        BY <1>3, <3>1, <4>1, <4>2 DEF Between
    <3>2. CASE p \in r.data
      <4>1. p[2] \in Nat
        BY <1>1, <3>2 DEF RequestStates, Pairs
      <4>2. p[2] = Expected(r.ctx, p[1]) /\ (p[1] = "costs" => r.ctx.native = "allowed")
        BY <3>2 DEF RestsOn
      <4>3. p[1] \in {"units", "costs"} => p[2] = r.ctx.normal[p[1]]
        BY <4>2, AnalysisAssumption DEF Expected
      <4>4. p[1] \in {"units", "costs"} => r.ctx.normal[p[1]] # None /\ r.ctx.normal[p[1]] <= w[p[1]]
        BY <4>1, <4>3, NoneAssumption DEF GoodContext
      <4>5. QED
        BY <1>3, <4>1, <4>2, <4>3, <4>4 DEF Between
    <3>3. QED
      BY <3>1, <3>2
  <2>2. QED
    BY <1>2, <2>1 DEF Witnessed, Gate, Between
<1>5. Planned(s)
  BY <1>2 DEF Planned, Working
<1>6. GoodRequest(s, w)
  BY <1>2, <1>4, <1>5, GuardStarts
<1>7. QED
  BY <1>6 DEF s

(* The next chunk, or the native costs. *)
LEMMA NextWorkIsGood ==
  ASSUME NEW w \in Versions, NEW r, GoodRequest(r, w), r.phase = "guard", r.stage = "work",
         Complete(r.ctx), RestsOn(r.ctx, r.data), r.todo # << >>
  PROVE  GoodRequest([r EXCEPT !.phase = Head(r.todo), !.gate = "none"], w)
<1> DEFINE s == [r EXCEPT !.phase = Head(r.todo), !.gate = "none"]
<1>1. r \in RequestStates /\ r.kind \in Kinds /\ GoodContext(r.ctx, w) /\ Planned(r)
  BY DEF GoodRequest
<1>2. r.todo \in Seq({"chunk", "costs", "render"})
  BY <1>1 DEF RequestStates, Steps
<1>3. Len(r.todo) \in Nat /\ Len(r.todo) >= 1 /\ Head(r.todo) = r.todo[1] /\ r.todo[1] \in {"chunk", "costs", "render"}
  BY <1>2
<1>4. Head(r.todo) \in {"chunk", "costs"} /\ (Head(r.todo) = "costs" => r.ctx.native = "allowed")
  BY <1>1, <1>3 DEF Planned, Working
<1>5. /\ s \in RequestStates /\ s.phase = Head(r.todo) /\ s.ctx = r.ctx /\ s.data = r.data
      /\ s.kind = r.kind /\ s.todo = r.todo
  BY <1>1, <1>4 DEF RequestStates
<1> HIDE DEF s
<1>6. Planned(s)
  BY <1>1, <1>4, <1>5 DEF Planned, Working
<1>7. GoodRequest(s, w)
  BY <1>1, <1>4, <1>5, <1>6, SettledIsGood
<1>8. QED
  BY <1>7 DEF s

(* The answer was validated: it is rendered, or let go. *)
LEMMA CheckedIsGood ==
  ASSUME NEW w \in Versions, NEW r, GoodRequest(r, w), r.phase = "guard", r.stage = "check",
         Complete(r.ctx), RestsOn(r.ctx, r.data),
         NEW phase, phase = IF r.todo = << >> THEN "done" ELSE Head(r.todo)
  PROVE  GoodRequest([r EXCEPT !.gate = "none", !.phase = phase], w)
<1> DEFINE s == [r EXCEPT !.gate = "none", !.phase = phase]
<1>1. r \in RequestStates /\ r.kind \in Kinds /\ GoodContext(r.ctx, w) /\ Planned(r)
  BY DEF GoodRequest
<1>2. r.todo \in Seq({"chunk", "costs", "render"})
  BY <1>1 DEF RequestStates, Steps
<1>3. r.todo # << >> => Len(r.todo) \in Nat /\ Len(r.todo) >= 1 /\ Head(r.todo) = r.todo[1]
  BY <1>2
<1>4. phase \in {"done", "render"}
  BY <1>1, <1>3 DEF Planned
<1>5. /\ s \in RequestStates /\ s.phase = phase /\ s.ctx = r.ctx /\ s.data = r.data /\ s.kind = r.kind
  BY <1>1, <1>4 DEF RequestStates
<1> HIDE DEF s
<1>6. Planned(s)
  BY <1>4, <1>5 DEF Planned, Working
<1>7. GoodRequest(s, w)
  BY <1>1, <1>4, <1>5, <1>6, SettledIsGood
<1>8. QED
  BY <1>7 DEF s

LEMMA RenderedIsGood ==
  ASSUME NEW w \in Versions, NEW r, GoodRequest(r, w), r.phase = "render"
  PROVE  GoodRequest([r EXCEPT !.phase = "held", !.todo = << >>], w)
<1> DEFINE s == [r EXCEPT !.phase = "held", !.todo = << >>]
<1>1. r \in RequestStates /\ r.kind \in Kinds /\ GoodContext(r.ctx, w) /\ Complete(r.ctx) /\ Witnessed(r, w)
  BY DEF GoodRequest
<1>2. /\ s \in RequestStates /\ s.phase = "held" /\ s.ctx = r.ctx /\ s.data = r.data /\ s.kind = r.kind
      /\ s.todo = << >> /\ s.saw = r.saw
  BY <1>1, NoStepsLeft DEF RequestStates
<1> HIDE DEF s
<1>3. Planned(s)
  BY <1>2, NoStepsLeft DEF Planned, Working
<1>4. Witnessed(s, w)
  BY <1>1, <1>2 DEF Witnessed, Gate, Between, Expected
<1>5. Passing(s, w)
  BY <1>2 DEF Passing
<1>6. GoodRequest(s, w)
  BY <1>1, <1>2, <1>3, <1>4, <1>5 DEF GoodRequest
<1>7. QED
  BY <1>6 DEF s

LEMMA ValidatedIsGood ==
  ASSUME NEW w \in Versions, NEW r, GoodRequest(r, w), r.phase = "held"
  PROVE  GoodRequest(Guarded(r, "check"), w)
<1> DEFINE s == Guarded(r, "check")
<1>1. /\ r \in RequestStates /\ r.kind \in Kinds /\ GoodContext(r.ctx, w) /\ Complete(r.ctx)
      /\ Witnessed(r, w) /\ Planned(r)
  BY DEF GoodRequest
<1>2. /\ s \in RequestStates /\ s.phase = "guard" /\ s.gate = "access" /\ s.stage = "check"
      /\ s.ctx = r.ctx /\ s.data = r.data /\ s.kind = r.kind /\ s.todo = r.todo /\ s.saw = r.saw
  BY <1>1 DEF RequestStates, Guarded
<1> HIDE DEF s
<1>3. Planned(s)
  BY <1>1, <1>2 DEF Planned, Working
<1>4. Witnessed(s, w)
  BY <1>1, <1>2 DEF Witnessed, Gate, Between, Expected
<1>5. GoodRequest(s, w)
  BY <1>1, <1>2, <1>3, <1>4, GuardStarts
<1>6. QED
  BY <1>5 DEF s

(***************************************************************************)
(* The invariant is inductive.                                              *)
(***************************************************************************)

(* A step of one request, which leaves the world alone. *)
LEMMA RequestStep ==
  ASSUME AnalysisInv, NEW t \in Requests, NEW r, GoodRequest(r, world),
         Keep(t, r), UNCHANGED outside, normal' \in Normals,
         \/ cache' \in {cache, None}
         \/ running /\ cache' \in Entries /\ RestsOn(cache'.ctx, cache'.data)
  PROVE  AnalysisInv'
<1>1. world' = world /\ running' = running /\ req' = [req EXCEPT ![t] = r]
  BY DEF outside, Keep
<1>2. r \in RequestStates
  BY DEF GoodRequest
<1>3. req' \in [Requests -> RequestStates]
  BY <1>1, <1>2 DEF AnalysisInv
<1>4. \A u \in Requests : GoodRequest(req'[u], world')
  BY <1>1 DEF AnalysisInv
<1>5. GoodCache'
  BY DEF AnalysisInv, GoodCache
<1>6. StoppedKeepsNothing'
  BY <1>1 DEF AnalysisInv, StoppedKeepsNothing
<1>7. QED
  BY <1>1, <1>3, <1>4, <1>5, <1>6 DEF AnalysisInv

LEMMA MovesKeep ==
  ASSUME AnalysisInv, NEW t \in Requests, NEW r, GoodRequest(r, world), Moves(t, r)
  PROVE  AnalysisInv'
<1>1. Keep(t, r) /\ UNCHANGED outside /\ normal' = normal /\ cache' = cache
  BY DEF Moves
<1>2. normal' \in Normals
  BY <1>1 DEF AnalysisInv
<1>3. QED
  BY <1>1, <1>2, RequestStep

(* A request that raises leaves no more behind than there was. *)
LEMMA RaisesKeep ==
  ASSUME AnalysisInv, NEW t \in Requests, NEW kept, Raises(t, kept), normal' \in Normals
  PROVE  AnalysisInv'
<1>1. Keep(t, NoRequest) /\ UNCHANGED outside /\ cache' \in {cache, None}
  BY DEF Raises
<1>2. QED
  BY <1>1, NoRequestIsGood, RequestStep

LEMMA RaisesUnchanged ==
  ASSUME AnalysisInv, NEW t \in Requests, NEW kept, Raises(t, kept), UNCHANGED normal
  PROVE  AnalysisInv'
<1>1. normal' \in Normals
  BY DEF AnalysisInv
<1>2. QED
  BY <1>1, RaisesKeep

LEMMA AdmissionKeeps ==
  ASSUME AnalysisInv, NEW t \in Requests,
         \/ Admit(t) \/ Locks(t) \/ Captures(t) \/ FirstAccess(t) \/ ReadsBook(t)
  PROVE  AnalysisInv'
<1> DEFINE r == req[t]
<1>1. GoodRequest(r, world) /\ world \in Versions /\ normal \in Normals
  BY DEF AnalysisInv
<1>2. CASE Admit(t)
  <2>1. PICK k \in Kinds, u \in Users : Keep(t, [NoRequest EXCEPT !.phase = "lock", !.kind = k, !.user = u])
    BY <1>2 DEF Admit
  <2> DEFINE s == [NoRequest EXCEPT !.phase = "lock", !.kind = k, !.user = u]
  <2>2. GoodRequest(s, world)
    BY AdmittedIsGood, Zenon
  <2> HIDE DEF s
  <2>3. Keep(t, s) /\ UNCHANGED outside /\ normal' = normal /\ cache' = cache
    BY <1>2, <2>1, Zenon DEF Admit, s
  <2>4. QED
    BY <1>1, <2>2, <2>3, RequestStep
<1>3. CASE Locks(t)
  <2> DEFINE s == [r EXCEPT !.phase = "policy"]
  <2>1. GoodRequest(s, world)
    BY <1>1, <1>3, LockedIsGood, Zenon DEF Locks
  <2>2. Keep(t, s) /\ UNCHANGED outside /\ normal' = normal /\ cache' = cache
    BY <1>3, Zenon DEF Locks
  <2> HIDE DEF s
  <2>3. QED
    BY <1>1, <2>1, <2>2, RequestStep
<1>4. CASE Captures(t)
  <2> DEFINE s == [r EXCEPT !.phase = "access", !.gate = "access", !.ctx = Capture(r.kind)]
  <2>1. GoodRequest(s, world)
    BY <1>1, <1>4, CapturesIsGood, Zenon DEF Captures
  <2>2. Moves(t, s)
    BY <1>4, Zenon DEF Captures
  <2> HIDE DEF s
  <2>3. QED
    BY <2>1, <2>2, MovesKeep
<1>5. CASE FirstAccess(t)
  <2> DEFINE s == [r EXCEPT !.phase = "book"]
  <2>1. GoodRequest(s, world)
    BY <1>1, <1>5, FirstAccessIsGood, Zenon DEF FirstAccess
  <2>2. Moves(t, s)
    BY <1>5, Zenon DEF FirstAccess
  <2> HIDE DEF s
  <2>3. QED
    BY <2>1, <2>2, MovesKeep
<1>6. CASE ReadsBook(t)
  <2> DEFINE n == IF AsksNative(r.kind) /\ world["tariff"] \notin Booked THEN "asked" ELSE "none"
             s == Guarded([r EXCEPT !.ctx.native = n, !.data = {<<"tariff", world["tariff"]>>}], "lookup")
  <2>1. n \in {"asked", "none"}
    OBVIOUS
  <2>2. r.phase = "book" /\ Current(r.ctx) /\ Moves(t, s)
    BY <1>6, Zenon DEF ReadsBook
  <2> HIDE DEF n
  <2>3. GoodRequest(s, world)
    BY <1>1, <2>1, <2>2, ReadsBookIsGood, Zenon
  <2> HIDE DEF s
  <2>4. QED
    BY <2>2, <2>3, MovesKeep
<1>7. QED
  BY <1>2, <1>3, <1>4, <1>5, <1>6

(* An answer is served, and cached, only while the service runs.               *)
LEMMA ServesKeeps ==
  ASSUME AnalysisInv, NEW t \in Requests, req[t].phase = "guard", running,
         Complete(req[t].ctx), NEW d \in SUBSET Pairs, RestsOn(req[t].ctx, d), Serves(t, d)
  PROVE  AnalysisInv'
<1> DEFINE r == req[t]
           s == [r EXCEPT !.phase = "held", !.gate = "none", !.data = d, !.todo = Rest(r.kind)]
           e == [ctx |-> r.ctx, data |-> d]
<1>1. GoodRequest(r, world) /\ world \in Versions /\ normal \in Normals
  BY DEF AnalysisInv
<1>2. GoodRequest(s, world)
  BY <1>1, ServedIsGood, Zenon
<1>3. Keep(t, s) /\ UNCHANGED outside /\ normal' = normal
  BY DEF Serves
<1>4. cache' \in {cache, e}
  BY DEF Serves
<1>5. e \in Entries /\ e.ctx = r.ctx /\ e.data = d
  BY <1>1 DEF GoodRequest, GoodContext, Entries
<1>6. \/ cache' \in {cache, None}
      \/ running /\ cache' \in Entries /\ RestsOn(cache'.ctx, cache'.data)
  BY <1>4, <1>5
<1> HIDE DEF s, e
<1>7. QED
  BY <1>1, <1>2, <1>3, <1>6, RequestStep

(* After its lookup a request is served from the cache, or calculates.         *)
LEMMA LookupKeeps ==
  ASSUME AnalysisInv, NEW t \in Requests, req[t].phase = "guard", Current(req[t].ctx),
         Complete(req[t].ctx), RestsOn(req[t].ctx, req[t].data), AfterLookup(t)
  PROVE  AnalysisInv'
<1> DEFINE r == req[t]
<1>1. GoodRequest(r, world) /\ world \in Versions /\ normal \in Normals
  BY DEF AnalysisInv
<1>2. r \in RequestStates /\ r.kind \in Kinds /\ GoodContext(r.ctx, world)
  BY <1>1 DEF GoodRequest
<1>3. CASE Cached(t) /\ Serves(t, cache.data)
  <2>1. cache # None /\ cache.ctx = r.ctx
    BY <1>3 DEF Cached
  <2>2. cache.data \in SUBSET Pairs /\ RestsOn(r.ctx, cache.data)
    BY <2>1 DEF AnalysisInv, GoodCache, Entries
  <2>3. QED
    BY <1>3, <2>2, ServesKeeps DEF Current
<1>4. CASE ~(Cached(t) /\ Serves(t, cache.data))
  <2> DEFINE native == r.ctx.native = "allowed"
             todo == <<"chunk">> \o IF native THEN <<"costs">> ELSE << >>
             p == <<"registry", world["registry"]>>
             s == [Guarded(r, "work") EXCEPT !.todo = todo, !.data = r.data \cup {p}]
  <2>1. /\ todo \in Steps
        /\ \A i \in 1..Len(todo) : todo[i] # "render" /\ (todo[i] = "costs" => native)
    <3>1. native \in BOOLEAN
      OBVIOUS
    <3>2. QED
      BY <3>1, WorkIsPlanned, Zenon
  <2>2. p \in Pairs /\ p[1] = "registry" /\ p[2] = world["registry"]
    BY AnalysisAssumption DEF AnalysisInv, Versions, Pairs
  <2>3. p[2] = Expected(r.ctx, p[1])
    BY <2>2, AnalysisAssumption DEF Current, Expected
  <2>4. Keep(t, [Guarded(r, "work") EXCEPT !.todo = todo, !.data = @ \cup {p}])
        /\ cache' \in {cache, None} /\ UNCHANGED outside /\ normal' = normal
    BY <1>4 DEF AfterLookup
  <2>5. Guarded(r, "work").data = r.data
    BY <1>2 DEF Guarded, RequestStates
  <2> HIDE DEF todo, p
  <2>6. Keep(t, s)
    BY <2>4, <2>5
  <2>7. {p} \in SUBSET Pairs
        /\ \A q \in {p} :
             /\ q[1] \in Facts \cup {"prices"} => q[2] = Expected(r.ctx, q[1])
             /\ q[1] = "units" => q[2] = world["units"]
             /\ q[1] = "costs" => q[2] = world["costs"] /\ r.ctx.native = "allowed"
    BY <2>2, <2>3
  <2>8. GoodRequest(s, world)
    BY <1>1, <1>2, <2>1, <2>7, ReadingIsGood, Zenon
  <2> HIDE DEF s
  <2>9. QED
    BY <1>1, <2>4, <2>6, <2>8, RequestStep
<1>5. QED
  BY <1>3, <1>4

(* The end of any guard. *)
LEMMA ContinuesKeeps ==
  ASSUME AnalysisInv, NEW t \in Requests, req[t].phase = "guard", Current(req[t].ctx),
         (req[t].gate = "again" /\ req[t].ctx.native = "none") \/ req[t].gate = "last",
         Continues(t)
  PROVE  AnalysisInv'
<1> DEFINE r == req[t]
<1>1. GoodRequest(r, world) /\ world \in Versions /\ normal \in Normals
  BY DEF AnalysisInv
<1>2. Complete(r.ctx) /\ RestsOn(r.ctx, r.data)
  BY <1>1, GuardSettles
<1>3. r.data \in SUBSET Pairs
  BY <1>1 DEF GoodRequest, RequestStates
<1>4. CASE r.stage = "lookup" /\ AfterLookup(t)
  BY <1>2, <1>4, LookupKeeps
<1>5. CASE r.stage = "work" /\ AfterWork(t)
  <2>1. CASE r.todo = << >>
    <3>1. Serves(t, r.data)
      BY <1>5, <2>1 DEF AfterWork
    <3>2. QED
      BY <1>2, <1>3, <3>1, ServesKeeps DEF Current
  <2>2. CASE r.todo # << >>
    <3> DEFINE s == [r EXCEPT !.phase = Head(r.todo), !.gate = "none"]
    <3>1. GoodRequest(s, world)
      BY <1>1, <1>2, <1>5, <2>2, NextWorkIsGood, Zenon
    <3>2. Moves(t, s)
      BY <1>5, <2>2 DEF AfterWork
    <3> HIDE DEF s
    <3>3. QED
      BY <3>1, <3>2, MovesKeep
  <2>3. QED
    BY <2>1, <2>2
<1>6. CASE r.stage = "check" /\ AfterCheck(t)
  <2> DEFINE phase == IF r.todo = << >> THEN "done" ELSE Head(r.todo)
             s == [r EXCEPT !.gate = "none", !.phase = phase]
  <2>1. GoodRequest(s, world)
    BY <1>1, <1>2, <1>6, CheckedIsGood, Zenon
  <2>2. Keep(t, s) /\ UNCHANGED outside /\ normal' = normal /\ cache' = cache
    BY <1>6, Zenon DEF AfterCheck
  <2> HIDE DEF s
  <2>3. QED
    BY <1>1, <2>1, <2>2, RequestStep
<1>7. QED
  BY <1>4, <1>5, <1>6 DEF Continues

LEMMA GuardKeeps ==
  ASSUME AnalysisInv, NEW t \in Requests,
         \/ Access(t) \/ ReadsUnits(t) \/ Normalizes(t) \/ AccessAgain(t)
         \/ NativeAccess(t) \/ ReadsCosts(t) \/ NativeNormalizes(t) \/ LastAccess(t)
  PROVE  AnalysisInv'
<1> DEFINE r == req[t]
<1>1. GoodRequest(r, world) /\ world \in Versions /\ normal \in Normals
  BY DEF AnalysisInv
<1>2. r \in RequestStates
  BY <1>1 DEF GoodRequest
<1>3. CASE Access(t)
  <2> DEFINE s == [r EXCEPT !.gate = "read"]
  <2>1. r.phase = "guard" /\ r.gate = "access"
    BY <1>3 DEF Access, Passes, Guards
  <2>2. GoodRequest(s, world)
    BY <1>1, <2>1, AccessIsGood, Zenon
  <2>3. Moves(t, s)
    BY <1>3, Zenon DEF Access
  <2> HIDE DEF s
  <2>4. QED
    BY <2>2, <2>3, MovesKeep
<1>4. CASE ReadsUnits(t)
  <2> DEFINE s == [r EXCEPT !.gate = "units", !.saw = world["units"]]
  <2>1. r.phase = "guard" /\ r.gate = "read"
    BY <1>4 DEF ReadsUnits, Guards
  <2>2. GoodRequest(s, world)
    BY <1>1, <2>1, UnitsReadIsGood, Zenon
  <2>3. Moves(t, s)
    BY <1>4, Zenon DEF ReadsUnits
  <2> HIDE DEF s
  <2>4. QED
    BY <2>2, <2>3, MovesKeep
<1>5. CASE Normalizes(t)
  <2> DEFINE same == r.ctx.normal["units"] \in {None, r.saw}
             s == [r EXCEPT !.gate = "again", !.ctx.normal["units"] = r.saw, !.saw = None]
  <2>1. r.phase = "guard" /\ r.gate = "units" /\ normal' = [normal EXCEPT !["units"] = r.saw]
    BY <1>5 DEF Normalizes, Passes, Guards
  <2>2. normal' \in Normals
    BY <1>1, <1>2, <2>1 DEF RequestStates, Normals
  <2>3. CASE same
    <3>1. GoodRequest(s, world)
      BY <1>1, <2>1, <2>3, NormalizedIsGood, Zenon
    <3>2. Keep(t, s) /\ UNCHANGED outside /\ cache' = cache
      BY <1>5, <2>3 DEF Normalizes
    <3> HIDE DEF s
    <3>3. QED
      BY <2>2, <3>1, <3>2, RequestStep
  <2>4. CASE ~same
    <3>1. Raises(t, FALSE)
      BY <1>5, <2>4 DEF Normalizes
    <3>2. QED
      BY <2>2, <3>1, RaisesKeep
  <2>5. QED
    BY <2>3, <2>4
<1>6. CASE AccessAgain(t)
  <2>1. r.phase = "guard" /\ r.gate = "again" /\ Current(r.ctx)
    BY <1>6 DEF AccessAgain, Passes, Guards
  <2>2. CASE r.ctx.native = "none"
    <3>1. Continues(t)
      BY <1>6, <2>2, Zenon DEF AccessAgain
    <3>2. QED
      BY <2>1, <2>2, <3>1, ContinuesKeeps
  <2>3. CASE r.ctx.native # "none"
    <3> DEFINE s == [r EXCEPT !.gate = "prices"]
    <3>1. GoodRequest(s, world)
      BY <1>1, <2>1, <2>3, AsksPricesIsGood, Zenon
    <3>2. Moves(t, s)
      BY <1>6, <2>3, Zenon DEF AccessAgain
    <3> HIDE DEF s
    <3>3. QED
      BY <3>1, <3>2, MovesKeep
  <2>4. QED
    BY <2>2, <2>3
<1>7. CASE NativeAccess(t)
  <2> DEFINE native == "native" \in rights[r.user]
             n == IF native THEN "allowed" ELSE "denied"
             g == IF native THEN "costs" ELSE "last"
             s == [r EXCEPT !.ctx.native = n, !.gate = g]
  <2>1. r.phase = "guard" /\ r.gate = "prices" /\ Permitted(t)
    BY <1>7 DEF NativeAccess, Passes, Guards
  <2>2. Moves(t, s)
    BY <1>7, Zenon DEF NativeAccess
  <2>3. n \in {"allowed", "denied"} /\ g = IF n = "allowed" THEN "costs" ELSE "last"
    OBVIOUS
  <2>4. r.ctx.native \in {"asked", "allowed", "denied"}
    BY <1>1, <2>1 DEF GoodRequest, GoodContext, Passing, Contexts
  <2>5. r.ctx.native # "asked" => native = (r.ctx.native = "allowed")
    BY <2>1 DEF Permitted
  <2>6. r.ctx.native # "asked" => n = r.ctx.native
    BY <2>4, <2>5
  <2> HIDE DEF n, g, native
  <2>7. GoodRequest(s, world)
    BY <1>1, <2>1, <2>3, <2>6, NativeAccessIsGood, Zenon
  <2> HIDE DEF s
  <2>8. QED
    BY <2>2, <2>7, MovesKeep
<1>8. CASE ReadsCosts(t)
  <2> DEFINE s == [r EXCEPT !.gate = "states", !.saw = world["costs"]]
  <2>1. r.phase = "guard" /\ r.gate = "costs"
    BY <1>8 DEF ReadsCosts, Guards
  <2>2. GoodRequest(s, world)
    BY <1>1, <2>1, CostsReadIsGood, Zenon
  <2>3. Moves(t, s)
    BY <1>8, Zenon DEF ReadsCosts
  <2> HIDE DEF s
  <2>4. QED
    BY <2>2, <2>3, MovesKeep
<1>9. CASE NativeNormalizes(t)
  <2> DEFINE sign == [f \in Read |-> IF f = "costs" THEN r.saw ELSE world[f]]
             own == r.ctx.normal
             same == own["costs"] = None
                       \/ (own["costs"] = sign["costs"] /\ own["prices"] = sign["prices"])
             s == [r EXCEPT !.gate = "last", !.saw = None,
                     !.ctx.normal = [own EXCEPT !["costs"] = sign["costs"], !["prices"] = sign["prices"]]]
             s2 == [r EXCEPT !.gate = "last", !.saw = None,
                     !.ctx.normal = [own EXCEPT !["costs"] = r.saw, !["prices"] = world["prices"]]]
  <2>1. sign["costs"] = r.saw /\ sign["prices"] = world["prices"] /\ world["prices"] \in Nat
    BY <1>1 DEF Read, Versions
  <2>2. r.phase = "guard" /\ r.gate = "states"
    BY <1>9 DEF NativeNormalizes, Passes, Guards
  <2>3. CASE same
    <3>1. /\ normal' = [normal EXCEPT !["costs"] = sign["costs"], !["prices"] = sign["prices"]]
          /\ Keep(t, [r EXCEPT !.gate = "last", !.saw = None,
               !.ctx.normal = [own EXCEPT !["costs"] = sign["costs"], !["prices"] = sign["prices"]]])
          /\ UNCHANGED <<outside, lock, pending, cache>>
      BY <1>9, <2>3, Zenon DEF NativeNormalizes
    <3> HIDE DEF sign
    <3>2. Keep(t, s2)
      BY <2>1, <3>1
    <3>3. normal' \in Normals
      BY <1>1, <1>2, <2>1, <3>1 DEF RequestStates, Normals
    <3>4. GoodRequest(s2, world)
      BY <1>1, <2>1, <2>2, <2>3, NativeNormalizedIsGood, Zenon
    <3>5. UNCHANGED outside /\ cache' = cache
      BY <3>1
    <3> HIDE DEF s2
    <3>6. QED
      BY <3>2, <3>3, <3>4, <3>5, RequestStep
  <2>4. CASE ~same
    <3>1. Raises(t, FALSE) /\ UNCHANGED normal
      BY <1>9, <2>4, Zenon DEF NativeNormalizes
    <3>2. QED
      BY <3>1, RaisesUnchanged
  <2>5. QED
    BY <2>3, <2>4
<1>10. CASE LastAccess(t)
  <2>1. r.phase = "guard" /\ r.gate = "last" /\ Current(r.ctx)
    BY <1>10 DEF LastAccess, Passes, Guards
  <2>2. CASE PricesHold(t)
    BY <1>10, <2>1, <2>2, ContinuesKeeps DEF LastAccess
  <2>3. CASE ~PricesHold(t)
    BY <1>10, <2>3, RaisesUnchanged DEF LastAccess
  <2>4. QED
    BY <2>2, <2>3
<1>11. QED
  BY <1>3, <1>4, <1>5, <1>6, <1>7, <1>8, <1>9, <1>10

(* Between two guards, and after the last one, the readings are the context's. *)
LEMMA OutsideSettles ==
  ASSUME NEW w, NEW r, GoodRequest(r, w), r.phase \in {"chunk", "costs", "held", "render", "done"}
  PROVE  /\ r \in RequestStates /\ GoodContext(r.ctx, w) /\ Planned(r)
         /\ Complete(r.ctx) /\ RestsOn(r.ctx, r.data)
<1>1. r \in RequestStates /\ GoodContext(r.ctx, w) /\ Complete(r.ctx) /\ Witnessed(r, w) /\ Planned(r)
  BY DEF GoodRequest
<1>2. ASSUME NEW p \in r.data
      PROVE  p[2] = Expected(r.ctx, p[1]) /\ (p[1] = "costs" => r.ctx.native = "allowed")
  <2>1. p[1] \in Facts \cup {"units", "costs", "prices"}
    BY <1>1 DEF RequestStates, Pairs, Read
  <2>2. {"units", "costs", "prices"} \cap Facts = {}
    BY AnalysisAssumption
  <2>3. CASE p[1] \in Facts \cup {"prices"}
    BY <1>1, <2>2, <2>3 DEF Witnessed
  <2>4. CASE p[1] \in {"units", "costs"}
    BY <1>1, <2>2, <2>4 DEF Witnessed, Between, Gate, Expected
  <2>5. QED
    BY <2>1, <2>3, <2>4
<1>3. QED
  BY <1>1, <1>2 DEF RestsOn

LEMMA ResumesKeeps ==
  ASSUME AnalysisInv, NEW t \in Requests, req[t].phase \in {"chunk", "costs"},
         NEW seen \in SUBSET Pairs,
         \A p \in seen :
           /\ p[1] \in Facts \cup {"prices"} => p[2] = Expected(req[t].ctx, p[1])
           /\ p[1] = "units" => p[2] = world["units"]
           /\ p[1] = "costs" => p[2] = world["costs"] /\ req[t].ctx.native = "allowed",
         Resumes(t, seen)
  PROVE  AnalysisInv'
<1> DEFINE r == req[t]
           s == [Guarded(r, "work") EXCEPT !.todo = Tail(r.todo), !.data = r.data \cup seen]
<1>1. GoodRequest(r, world) /\ world \in Versions
  BY DEF AnalysisInv
<1>2. /\ r \in RequestStates /\ GoodContext(r.ctx, world) /\ Planned(r)
      /\ Complete(r.ctx) /\ RestsOn(r.ctx, r.data)
  BY <1>1, OutsideSettles
<1>3. r.kind \in Kinds
  BY <1>1 DEF GoodRequest
<1>4. r.todo \in Seq({"chunk", "costs", "render"}) /\ r.todo # << >>
  BY <1>2 DEF RequestStates, Steps, Planned
<1>5. Tail(r.todo) \in Steps
  BY <1>4 DEF Steps
<1>6. \A i \in 1..Len(Tail(r.todo)) :
        Tail(r.todo)[i] # "render" /\ (Tail(r.todo)[i] = "costs" => r.ctx.native = "allowed")
  <2>1. /\ Len(Tail(r.todo)) = Len(r.todo) - 1
        /\ \A i \in 1..Len(Tail(r.todo)) : Tail(r.todo)[i] = r.todo[i + 1]
    BY <1>4
  <2>2. Len(r.todo) \in Nat
    BY <1>4
  <2>3. \A i \in 1..Len(Tail(r.todo)) : i + 1 \in 1..Len(r.todo)
    BY <2>1, <2>2
  <2>4. QED
    BY <1>2, <2>1, <2>3 DEF Planned, Working
<1>7. GoodRequest(s, world)
  BY <1>1, <1>2, <1>3, <1>5, <1>6, ReadingIsGood, Zenon
<1>8. Guarded(r, "work").data = r.data /\ Guarded(r, "work").todo = r.todo
  BY <1>2 DEF Guarded, RequestStates
<1>9. Moves(t, [Guarded(r, "work") EXCEPT !.todo = Tail(@), !.data = @ \cup seen])
  BY Zenon DEF Resumes
<1>10. Moves(t, s)
  BY <1>8, <1>9
<1> HIDE DEF s
<1>11. QED
  BY <1>7, <1>10, MovesKeep

LEMMA WorkKeeps ==
  ASSUME AnalysisInv, NEW t \in Requests,
         ReadsChunk(t) \/ ReadsNative(t) \/ Renders(t) \/ Validates(t)
  PROVE  AnalysisInv'
<1> DEFINE r == req[t]
<1>1. GoodRequest(r, world) /\ world \in Versions /\ normal \in Normals
  BY DEF AnalysisInv
<1>2. CASE ReadsChunk(t)
  <2> DEFINE p == <<"units", world["units"]>>
  <2>1. p \in Pairs /\ p[1] = "units" /\ p[2] = world["units"]
    BY <1>1 DEF Versions, Pairs, Read
  <2>2. r.phase = "chunk" /\ Resumes(t, {p})
    BY <1>2 DEF ReadsChunk
  <2> HIDE DEF p
  <2>3. /\ {p} \in SUBSET Pairs
        /\ \A q \in {p} :
             /\ q[1] \in Facts \cup {"prices"} => q[2] = Expected(r.ctx, q[1])
             /\ q[1] = "units" => q[2] = world["units"]
             /\ q[1] = "costs" => q[2] = world["costs"] /\ r.ctx.native = "allowed"
    BY <2>1, AnalysisAssumption
  <2>4. QED
    BY <2>2, <2>3, ResumesKeeps
<1>3. CASE ReadsNative(t)
  <2> DEFINE p == <<"costs", world["costs"]>>
             q == <<"prices", normal["prices"]>>
  <2>1. r.phase = "costs" /\ Current(r.ctx) /\ Resumes(t, {p, q})
    BY <1>3 DEF ReadsNative, Resumes
  <2>2. GoodContext(r.ctx, world) /\ Complete(r.ctx) /\ r.ctx.native = "allowed"
    BY <1>1, <2>1, OutsideSettles DEF Planned
  <2>3. r.ctx.normal["prices"] # None
    BY <2>2 DEF GoodContext, Complete
  <2>4. normal["prices"] = r.ctx.normal["prices"]
    BY <2>1, <2>3 DEF Current, Read
  <2>5. normal["prices"] \in Nat
    BY <1>1, <2>3, <2>4 DEF Normals, Read
  <2>6. /\ p \in Pairs /\ p[1] = "costs" /\ p[2] = world["costs"]
        /\ q \in Pairs /\ q[1] = "prices" /\ q[2] = Expected(r.ctx, "prices")
    BY <1>1, <2>4, <2>5, AnalysisAssumption DEF Versions, Pairs, Read, Expected
  <2> HIDE DEF p, q
  <2>7. /\ {p, q} \in SUBSET Pairs
        /\ \A x \in {p, q} :
             /\ x[1] \in Facts \cup {"prices"} => x[2] = Expected(r.ctx, x[1])
             /\ x[1] = "units" => x[2] = world["units"]
             /\ x[1] = "costs" => x[2] = world["costs"] /\ r.ctx.native = "allowed"
    BY <2>2, <2>6, AnalysisAssumption
  <2>8. QED
    BY <2>1, <2>7, ResumesKeeps
<1>4. CASE Renders(t)
  <2> DEFINE s == [r EXCEPT !.phase = "held", !.todo = << >>]
  <2>1. GoodRequest(s, world)
    BY <1>1, <1>4, RenderedIsGood, Zenon DEF Renders
  <2>2. Moves(t, s)
    BY <1>4, Zenon DEF Renders
  <2> HIDE DEF s
  <2>3. QED
    BY <2>1, <2>2, MovesKeep
<1>5. CASE Validates(t)
  <2> DEFINE s == Guarded(r, "check")
  <2>1. GoodRequest(s, world)
    BY <1>1, <1>5, ValidatedIsGood, Zenon DEF Validates
  <2> HIDE DEF s
  <2>2. CASE Current(r.ctx) /\ pending < Max
    <3>1. Keep(t, s) /\ UNCHANGED outside /\ normal' = normal /\ cache' = cache
      BY <1>5, <2>2 DEF Validates, s
    <3>2. QED
      BY <1>1, <2>1, <3>1, RequestStep
  <2>3. CASE ~(Current(r.ctx) /\ pending < Max)
    BY <1>5, <2>3, RaisesUnchanged DEF Validates
  <2>4. QED
    BY <2>2, <2>3
<1>6. QED
  BY <1>2, <1>3, <1>4, <1>5

LEMMA FailureKeeps ==
  ASSUME AnalysisInv, NEW t \in Requests, Fails(t) \/ Stale(t) \/ Denied(t)
  PROVE  AnalysisInv'
  BY RaisesUnchanged DEF Fails, Stale, Denied

(* The world turns, permissions come and go, the service stops. *)
LEMMA WorldKeeps ==
  ASSUME AnalysisInv, Turns \/ Revokes \/ Stops
  PROVE  AnalysisInv'
<1>1. CASE Turns \/ Revokes
  <2>1. PICK f \in Facts \cup Read \cup {"roles"} : world' = [world EXCEPT ![f] = @ + 1]
    BY <1>1 DEF Turns, Revokes
  <2>2. running' = running /\ normal' = normal /\ cache' = cache /\ req' = req
    BY <1>1 DEF Turns, Revokes
  <2>3. world \in Versions /\ \A g \in Facts \cup Read \cup {"roles"} : world[g] \in Nat
    BY DEF AnalysisInv, Versions
  <2>4. world' \in Versions
    BY <2>1, <2>3 DEF Versions
  <2>5. world["units"] <= world'["units"] /\ world["costs"] <= world'["costs"]
    BY <2>1, <2>3 DEF Versions, Read
  <2>6. \A u \in Requests : GoodRequest(req[u], world')
    BY <2>3, <2>4, <2>5, OlderIsGood DEF AnalysisInv
  <2>7. GoodCache' /\ StoppedKeepsNothing'
    BY <2>2 DEF AnalysisInv, GoodCache, StoppedKeepsNothing
  <2>8. QED
    BY <2>2, <2>4, <2>6, <2>7 DEF AnalysisInv
<1>2. CASE Stops
  <2>1. world' = world /\ normal' = normal /\ cache' = None /\ req' = req
    BY <1>2 DEF Stops
  <2>2. GoodCache' /\ StoppedKeepsNothing'
    BY <2>1 DEF GoodCache, StoppedKeepsNothing
  <2>3. QED
    BY <2>1, <2>2 DEF AnalysisInv
<1>3. QED
  BY <1>1, <1>2

LEMMA AnalysisInitially == AnalysisInit => AnalysisInv
<1> SUFFICES ASSUME AnalysisInit PROVE AnalysisInv
  OBVIOUS
<1>1. world \in Versions /\ normal \in Normals
  BY DEF AnalysisInit, Versions, Normals
<1>2. req = [t \in Requests |-> NoRequest] /\ cache = None
  BY DEF AnalysisInit
<1>3. GoodRequest(NoRequest, world) /\ NoRequest \in RequestStates
  BY NoRequestIsGood DEF GoodRequest
<1>4. QED
  BY <1>1, <1>2, <1>3 DEF AnalysisInv, GoodCache, StoppedKeepsNothing

LEMMA AnalysisStep == AnalysisInv /\ [AnalysisNext]_vars => AnalysisInv'
<1> SUFFICES ASSUME AnalysisInv, [AnalysisNext]_vars PROVE AnalysisInv'
  OBVIOUS
<1>1. CASE UNCHANGED vars
  <2>1. /\ world' = world /\ normal' = normal /\ req' = req /\ cache' = cache /\ running' = running
    BY <1>1 DEF vars
  <2>2. GoodCache' /\ StoppedKeepsNothing'
    BY <2>1 DEF AnalysisInv, GoodCache, StoppedKeepsNothing
  <2>3. QED
    BY <2>1, <2>2 DEF AnalysisInv
<1>2. CASE Turns \/ Revokes \/ Stops
  BY <1>2, WorldKeeps
<1>3. ASSUME NEW t \in Requests, Admit(t) \/ Locks(t) \/ Proceeds(t) \/ Fails(t)
      PROVE  AnalysisInv'
  BY <1>3, AdmissionKeeps, GuardKeeps, WorkKeeps, FailureKeeps, Zenon DEF Proceeds
<1>4. QED
  BY <1>1, <1>2, <1>3, Zenon DEF AnalysisNext

(* What every request knows, for any number of requests and changes. *)
THEOREM AnalysisInductive == AnalysisSpec => []AnalysisInv
<1>1. QED
  BY AnalysisInitially, AnalysisStep, PTL DEF AnalysisSpec

(* A calculation that outlives the service leaves nothing in its cache. *)
THEOREM StoppedKeepsNothingHolds == AnalysisSpec => []StoppedKeepsNothing
<1>1. AnalysisInv => StoppedKeepsNothing
  BY DEF AnalysisInv
<1>2. QED
  BY <1>1, AnalysisInductive, PTL

(***************************************************************************)
(* Answers that are let go.                                                 *)
(***************************************************************************)

(* A step that does not finish its request finishes none. *)
LEMMA OthersStay ==
  ASSUME req \in [Requests -> RequestStates], NEW u \in Requests, NEW r, Keep(u, r),
         r.phase # "done", NEW t \in Requests, req'[t].phase = "done"
  PROVE  req[t].phase = "done"
  BY DEF Keep

(* The last comparison of a validation has just succeeded, and nothing is left *)
(* to render.                                                                  *)
Finishes(t) ==
  /\ req[t].phase = "guard" /\ req[t].stage = "check" /\ AfterCheck(t)
  /\ \/ Passes(t, "again") /\ req[t].ctx.native = "none"
     \/ Passes(t, "last") /\ PricesHold(t)

LEMMA ContinuesFinishes ==
  ASSUME AnalysisInv, NEW u \in Requests, Continues(u),
         \/ Passes(u, "again") /\ req[u].ctx.native = "none"
         \/ Passes(u, "last") /\ PricesHold(u),
         NEW t \in Requests, req[t].phase # "done", req'[t].phase = "done"
  PROVE  Finishes(t)
<1> DEFINE r == req[u]
<1>1. /\ GoodRequest(r, world) /\ r \in RequestStates /\ r.phase = "guard"
      /\ req \in [Requests -> RequestStates]
  BY DEF AnalysisInv, Passes, Guards
<1>2. ASSUME NEW d, Serves(u, d) PROVE FALSE
  <2> DEFINE s == [r EXCEPT !.phase = "held", !.gate = "none", !.data = d, !.todo = Rest(r.kind)]
  <2>1. s.phase = "held"
    BY <1>1 DEF RequestStates
  <2>2. Keep(u, s)
    BY <1>2, Zenon DEF Serves
  <2> HIDE DEF s
  <2>3. QED
    BY <1>1, <2>1, <2>2, OthersStay
<1>3. CASE r.stage = "lookup" /\ AfterLookup(u)
  <2>1. CASE Cached(u) /\ Serves(u, cache.data)
    BY <1>2, <2>1
  <2>2. CASE ~(Cached(u) /\ Serves(u, cache.data))
    <3> DEFINE s == [Guarded(r, "work") EXCEPT
                  !.todo = <<"chunk">> \o IF r.ctx.native = "allowed" THEN <<"costs">> ELSE << >>,
                  !.data = @ \cup {<<"registry", world["registry"]>>}]
    <3>1. s.phase = "guard"
      BY <1>1 DEF RequestStates, Guarded
    <3>2. Keep(u, s)
      BY <1>3, <2>2 DEF AfterLookup
    <3> HIDE DEF s
    <3>3. QED
      BY <1>1, <3>1, <3>2, OthersStay
  <2>3. QED
    BY <2>1, <2>2
<1>4. CASE r.stage = "work" /\ AfterWork(u)
  <2>1. CASE r.todo = << >>
    BY <1>2, <1>4, <2>1 DEF AfterWork
  <2>2. CASE r.todo # << >>
    <3> DEFINE s == [r EXCEPT !.phase = Head(r.todo), !.gate = "none"]
    <3>1. r.todo \in Seq({"chunk", "costs", "render"})
      BY <1>1 DEF RequestStates, Steps
    <3>2. Head(r.todo) # "done"
      BY <2>2, <3>1
    <3>3. s.phase = Head(r.todo)
      BY <1>1 DEF RequestStates
    <3>4. Keep(u, s)
      BY <1>4, <2>2 DEF AfterWork, Moves
    <3> HIDE DEF s
    <3>5. QED
      BY <1>1, <3>2, <3>3, <3>4, OthersStay
  <2>3. QED
    BY <2>1, <2>2
<1>5. CASE r.stage = "check" /\ AfterCheck(u)
  <2>1. CASE t = u
    BY <1>1, <1>5, <2>1 DEF Finishes
  <2>2. CASE t # u
    BY <1>1, <1>5, <2>2 DEF AfterCheck, Keep
  <2>3. QED
    BY <2>1, <2>2
<1>6. QED
  BY <1>3, <1>4, <1>5 DEF Continues

LEMMA RaisesFinishesNot ==
  ASSUME AnalysisInv, NEW u \in Requests, NEW kept, Raises(u, kept),
         NEW t \in Requests, req'[t].phase = "done"
  PROVE  req[t].phase = "done"
<1>1. Keep(u, NoRequest) /\ NoRequest.phase = "idle"
  BY DEF Raises, NoRequest
<1>2. QED
  BY <1>1, OthersStay DEF AnalysisInv

LEMMA MovesFinishesNot ==
  ASSUME AnalysisInv, NEW u \in Requests, NEW r, Moves(u, r), r.phase # "done",
         NEW t \in Requests, req'[t].phase = "done"
  PROVE  req[t].phase = "done"
<1>1. Keep(u, r)
  BY DEF Moves
<1>2. QED
  BY <1>1, OthersStay DEF AnalysisInv

LEMMA OnlyChecksFinish ==
  ASSUME AnalysisInv, NEW u \in Requests, Admit(u) \/ Locks(u) \/ Proceeds(u) \/ Fails(u),
         NEW t \in Requests, req[t].phase # "done", req'[t].phase = "done"
  PROVE  Finishes(t)
<1> DEFINE r == req[u]
<1>1. r \in RequestStates /\ req \in [Requests -> RequestStates]
  BY DEF AnalysisInv
<1>2. CASE Fails(u) \/ Stale(u) \/ Denied(u)
  BY <1>2, RaisesFinishesNot DEF Fails, Stale, Denied
<1>3. CASE Admit(u)
  <2>1. PICK k \in Kinds, a \in Users : Keep(u, [NoRequest EXCEPT !.phase = "lock", !.kind = k, !.user = a])
    BY <1>3 DEF Admit
  <2>2. [NoRequest EXCEPT !.phase = "lock", !.kind = k, !.user = a].phase = "lock"
    BY DEF NoRequest
  <2>3. QED
    BY <1>1, <2>1, <2>2, OthersStay
<1>4. CASE Locks(u)
  <2>1. Keep(u, [r EXCEPT !.phase = "policy"]) /\ [r EXCEPT !.phase = "policy"].phase = "policy"
    BY <1>1, <1>4 DEF Locks, RequestStates
  <2>2. QED
    BY <1>1, <2>1, OthersStay
<1>5. CASE Captures(u) \/ FirstAccess(u) \/ ReadsBook(u)
  <2>1. CASE Captures(u)
    <3> DEFINE s == [r EXCEPT !.phase = "access", !.gate = "access", !.ctx = Capture(r.kind)]
    <3>1. s.phase = "access"
      BY <1>1 DEF RequestStates
    <3>2. Moves(u, s)
      BY <2>1, Zenon DEF Captures
    <3> HIDE DEF s
    <3>3. QED
      BY <3>1, <3>2, MovesFinishesNot
  <2>2. CASE FirstAccess(u)
    <3> DEFINE s == [r EXCEPT !.phase = "book"]
    <3>1. s.phase = "book"
      BY <1>1 DEF RequestStates
    <3>2. Moves(u, s)
      BY <2>2, Zenon DEF FirstAccess
    <3> HIDE DEF s
    <3>3. QED
      BY <3>1, <3>2, MovesFinishesNot
  <2>3. CASE ReadsBook(u)
    <3> DEFINE n == IF AsksNative(r.kind) /\ world["tariff"] \notin Booked THEN "asked" ELSE "none"
               s == Guarded([r EXCEPT !.ctx.native = n, !.data = {<<"tariff", world["tariff"]>>}], "lookup")
    <3>1. Moves(u, s)
      BY <2>3, Zenon DEF ReadsBook
    <3> HIDE DEF n
    <3>2. s.phase = "guard"
      BY <1>1 DEF RequestStates, Guarded
    <3> HIDE DEF s
    <3>3. QED
      BY <3>1, <3>2, MovesFinishesNot
  <2>4. QED
    BY <1>5, <2>1, <2>2, <2>3
<1>6. CASE Access(u) \/ ReadsUnits(u) \/ NativeAccess(u) \/ ReadsCosts(u)
  <2>1. CASE Access(u)
    <3> DEFINE s == [r EXCEPT !.gate = "read"]
    <3>1. r.phase = "guard"
      BY <2>1 DEF Access, Passes, Guards
    <3>2. s.phase = "guard"
      BY <1>1, <3>1 DEF RequestStates
    <3>3. Moves(u, s)
      BY <2>1, Zenon DEF Access
    <3> HIDE DEF s
    <3>4. QED
      BY <3>2, <3>3, MovesFinishesNot
  <2>2. CASE ReadsUnits(u)
    <3> DEFINE s == [r EXCEPT !.gate = "units", !.saw = world["units"]]
    <3>1. r.phase = "guard"
      BY <2>2 DEF ReadsUnits, Passes, Guards
    <3>2. s.phase = "guard"
      BY <1>1, <3>1 DEF RequestStates
    <3>3. Moves(u, s)
      BY <2>2, Zenon DEF ReadsUnits
    <3> HIDE DEF s
    <3>4. QED
      BY <3>2, <3>3, MovesFinishesNot
  <2>3. CASE NativeAccess(u)
    <3> DEFINE native == "native" \in rights[r.user]
               s == [r EXCEPT !.ctx.native = IF native THEN "allowed" ELSE "denied",
                              !.gate = IF native THEN "costs" ELSE "last"]
    <3>1. r.phase = "guard"
      BY <2>3 DEF NativeAccess, Passes, Guards
    <3>2. Moves(u, s)
      BY <2>3, Zenon DEF NativeAccess
    <3> HIDE DEF native
    <3>3. s.phase = "guard"
      BY <1>1, <3>1 DEF RequestStates
    <3> HIDE DEF s
    <3>4. QED
      BY <3>2, <3>3, MovesFinishesNot
  <2>4. CASE ReadsCosts(u)
    <3> DEFINE s == [r EXCEPT !.gate = "states", !.saw = world["costs"]]
    <3>1. r.phase = "guard"
      BY <2>4 DEF ReadsCosts, Passes, Guards
    <3>2. s.phase = "guard"
      BY <1>1, <3>1 DEF RequestStates
    <3>3. Moves(u, s)
      BY <2>4, Zenon DEF ReadsCosts
    <3> HIDE DEF s
    <3>4. QED
      BY <3>2, <3>3, MovesFinishesNot
  <2>5. QED
    BY <1>6, <2>1, <2>2, <2>3, <2>4
<1>7. CASE Normalizes(u)
  <2> DEFINE s == [r EXCEPT !.gate = "again", !.ctx.normal["units"] = r.saw, !.saw = None]
  <2>1. r.phase = "guard"
    BY <1>7 DEF Normalizes, Passes, Guards
  <2>2. s.phase = "guard"
    BY <1>1, <2>1 DEF RequestStates
  <2>3. Keep(u, s) \/ Raises(u, FALSE)
    BY <1>7 DEF Normalizes
  <2> HIDE DEF s
  <2>4. QED
    BY <1>1, <2>2, <2>3, OthersStay, RaisesFinishesNot
<1>8. CASE AccessAgain(u)
  <2>1. r.phase = "guard" /\ Passes(u, "again")
    BY <1>8 DEF AccessAgain, Passes, Guards
  <2>2. CASE r.ctx.native = "none"
    <3>1. Continues(u)
      BY <1>8, <2>2, Zenon DEF AccessAgain
    <3>2. QED
      BY <2>1, <2>2, <3>1, ContinuesFinishes
  <2>3. CASE r.ctx.native # "none"
    <3>1. Moves(u, [r EXCEPT !.gate = "prices"])
      BY <1>8, <2>3, Zenon DEF AccessAgain
    <3>2. [r EXCEPT !.gate = "prices"].phase = "guard"
      BY <1>1, <2>1 DEF RequestStates
    <3>3. QED
      BY <3>1, <3>2, MovesFinishesNot
  <2>4. QED
    BY <2>2, <2>3
<1>9. CASE NativeNormalizes(u)
  <2>1. r.phase = "guard"
    BY <1>9 DEF NativeNormalizes, Passes, Guards
  <2>2. Raises(u, FALSE) \/ \E m : Keep(u, [r EXCEPT !.gate = "last", !.saw = None, !.ctx.normal = m])
    BY <1>9, Zenon DEF NativeNormalizes
  <2>3. ASSUME NEW m, Keep(u, [r EXCEPT !.gate = "last", !.saw = None, !.ctx.normal = m]) PROVE FALSE
    <3>1. [r EXCEPT !.gate = "last", !.saw = None, !.ctx.normal = m].phase = "guard"
      BY <1>1, <2>1 DEF RequestStates
    <3>2. QED
      BY <1>1, <2>3, <3>1, OthersStay
  <2>4. QED
    BY <2>2, <2>3, RaisesFinishesNot
<1>10. CASE LastAccess(u)
  <2>1. Passes(u, "last")
    BY <1>10 DEF LastAccess
  <2>2. CASE PricesHold(u)
    <3>1. Continues(u)
      BY <1>10, <2>2 DEF LastAccess
    <3>2. QED
      BY <2>1, <2>2, <3>1, ContinuesFinishes
  <2>3. CASE ~PricesHold(u)
    BY <1>10, <2>3, RaisesFinishesNot DEF LastAccess
  <2>4. QED
    BY <2>2, <2>3
<1>11. CASE ReadsChunk(u) \/ ReadsNative(u)
  <2>1. PICK seen : Moves(u, [Guarded(r, "work") EXCEPT !.todo = Tail(@), !.data = @ \cup seen])
    BY <1>11 DEF ReadsChunk, ReadsNative, Resumes
  <2>2. [Guarded(r, "work") EXCEPT !.todo = Tail(@), !.data = @ \cup seen].phase = "guard"
    BY <1>1 DEF RequestStates, Guarded
  <2>3. QED
    BY <2>1, <2>2, MovesFinishesNot
<1>12. CASE Renders(u)
  <2>1. Moves(u, [r EXCEPT !.phase = "held", !.todo = << >>])
    BY <1>12, Zenon DEF Renders
  <2>2. [r EXCEPT !.phase = "held", !.todo = << >>].phase = "held"
    BY <1>1 DEF RequestStates
  <2>3. QED
    BY <2>1, <2>2, MovesFinishesNot
<1>13. CASE Validates(u)
  <2>1. Keep(u, Guarded(r, "check")) \/ \E kept : Raises(u, kept)
    BY <1>13, Zenon DEF Validates
  <2>2. Guarded(r, "check").phase = "guard"
    BY <1>1 DEF RequestStates, Guarded
  <2>3. QED
    BY <1>1, <2>1, <2>2, OthersStay, RaisesFinishesNot
<1>14. QED
  BY <1>2, <1>3, <1>4, <1>5, <1>6, <1>7, <1>8, <1>9, <1>10, <1>11, <1>12, <1>13, Zenon DEF Proceeds

(* What the answer that is let go rests on. *)
LEMMA FinishedIsCurrent ==
  ASSUME AnalysisInv, NEW t \in Requests, Finishes(t)
  PROVE  LET r == req'[t]
         IN /\ running
            /\ "energy" \in rights[r.user]
            /\ r.ctx.native = "allowed" => "native" \in rights[r.user] /\ r.ctx.normal["prices"] = world["prices"]
            /\ \A f \in Facts : r.ctx.facts[f] = world[f]
            /\ \A p \in r.data : p[2] = IF p[1] \in Facts THEN world[p[1]] ELSE r.ctx.normal[p[1]]
<1> DEFINE r == req[t]
           s == [r EXCEPT !.gate = "none", !.phase = IF r.todo = << >> THEN "done" ELSE Head(r.todo)]
<1>1. GoodRequest(r, world) /\ r \in RequestStates /\ req \in [Requests -> RequestStates]
  BY DEF AnalysisInv
<1>2. /\ r.phase = "guard" /\ Current(r.ctx) /\ Permitted(t)
      /\ (r.gate = "again" /\ r.ctx.native = "none") \/ (r.gate = "last" /\ PricesHold(t))
  BY DEF Finishes, Passes, Guards
<1>3. s.user = r.user /\ s.ctx = r.ctx /\ s.data = r.data
  BY <1>1 DEF RequestStates
<1>4. req'[t] = s
  BY <1>1 DEF Finishes, AfterCheck, Keep
<1> HIDE DEF s
<1>5. Complete(r.ctx) /\ RestsOn(r.ctx, r.data) /\ GoodContext(r.ctx, world)
  BY <1>1, <1>2, GuardSettles DEF GoodRequest
<1>6. running /\ \A f \in Facts : r.ctx.facts[f] = world[f]
  BY <1>2 DEF Current
<1>7. "energy" \in rights[r.user] /\ (r.ctx.native = "allowed" => "native" \in rights[r.user])
  BY <1>2 DEF Permitted
<1>8. r.ctx.native = "allowed" => r.ctx.normal["prices"] = world["prices"]
  <2> SUFFICES ASSUME r.ctx.native = "allowed" PROVE r.ctx.normal["prices"] = world["prices"]
    OBVIOUS
  <2>1. r.ctx.normal["prices"] # None
    BY <1>5 DEF Complete, GoodContext
  <2>2. r.ctx.normal["prices"] = normal["prices"]
    BY <1>2, <2>1 DEF Current, Read
  <2>3. world["prices"] = normal["prices"]
    BY <1>2 DEF PricesHold
  <2>4. QED
    BY <2>2, <2>3
<1>9. \A p \in r.data : p[2] = IF p[1] \in Facts THEN world[p[1]] ELSE r.ctx.normal[p[1]]
  BY <1>5, <1>6 DEF RestsOn, Expected
<1>10. QED
  BY <1>3, <1>4, <1>6, <1>7, <1>8, <1>9

(* Whatever happened while it was calculated, an answer is let go only to a    *)
(* user who may read it now, from facts that are all current and readings that *)
(* agree with each other, whether it was calculated or found in the cache.     *)
THEOREM AnswersAreCurrentHolds == AnalysisSpec => AnswersAreCurrent
<1> DEFINE A == \A t \in Requests : (req[t].phase # "done" /\ req'[t].phase = "done") =>
       LET r == req'[t]
       IN /\ running
          /\ "energy" \in rights[r.user]
          /\ r.ctx.native = "allowed" => "native" \in rights[r.user] /\ r.ctx.normal["prices"] = world["prices"]
          /\ \A f \in Facts : r.ctx.facts[f] = world[f]
          /\ \A p \in r.data : p[2] = IF p[1] \in Facts THEN world[p[1]] ELSE r.ctx.normal[p[1]]
<1>1. ASSUME AnalysisInv, [AnalysisNext]_vars PROVE A
  <2> SUFFICES ASSUME NEW t \in Requests, req[t].phase # "done", req'[t].phase = "done"
               PROVE  Finishes(t)
    BY <1>1, FinishedIsCurrent
  <2>1. req' # req
    OBVIOUS
  <2>2. PICK u \in Requests : Admit(u) \/ Locks(u) \/ Proceeds(u) \/ Fails(u)
    BY <1>1, <2>1 DEF AnalysisNext, vars, Turns, Revokes, Stops
  <2>3. QED
    BY <1>1, <2>2, OnlyChecksFinish
<1>2. QED
  BY <1>1, AnalysisInductive, PTL DEF AnalysisSpec, AnswersAreCurrent
=============================================================================
