------------------------- MODULE CalculationProofs --------------------------
(***************************************************************************)
(* What is calculated from the stored facts: the tariff book, for any        *)
(* profiles, days and proposals, and the comparison of two periods, for any  *)
(* calendars, sources, groups, tariffs and chunk length.                    *)
(***************************************************************************)
EXTENDS TariffBook, Comparison, SequenceTheorems, FiniteSetTheorems, WellFoundedInduction, TLAPS

(***************************************************************************)
(* The tariff book.                                                         *)
(***************************************************************************)
(***************************************************************************)
(* Numbers: least and greatest elements, days and instants.                 *)
(***************************************************************************)
LEMMA LeastExists ==
  ASSUME NEW S \in SUBSET Nat, S # {}
  PROVE  \E m \in S : \A n \in S : m <= n
<1> DEFINE R == OpToRel(<, Nat)
<1>1. IsWellFoundedOn(R, Nat)
  BY NatLessThanWellFounded
<1>2. \A n, m \in Nat : n < m => <<n, m>> \in R
  BY DEF OpToRel
<1> HIDE DEF R
<1>3. PICK m \in S : \A n \in S : <<n, m>> \notin R
  BY <1>1, WFMin
<1>4. \A n \in S : ~(n < m)
  BY <1>2, <1>3
<1> QED BY <1>4

LEMMA MinFacts ==
  ASSUME NEW S \in SUBSET Nat, S # {}
  PROVE  Min(S) \in S /\ Min(S) \in Nat /\ \A n \in S : Min(S) <= n
<1>1. \E m \in S : \A n \in S : m <= n
  BY LeastExists
<1> QED BY <1>1 DEF Min

LEMMA MinIs ==
  ASSUME NEW S \in SUBSET Nat, NEW m \in S, \A n \in S : m <= n
  PROVE  Min(S) = m
<1>1. Min(S) \in Nat /\ Min(S) \in S /\ Min(S) <= m /\ m \in Nat
  BY MinFacts
<1>2. m <= Min(S)
  BY <1>1
<1> QED BY <1>1, <1>2

LEMMA GreatestExists ==
  ASSUME NEW S \in SUBSET Nat, S # {}, NEW bound \in Nat, \A n \in S : n <= bound
  PROVE  \E m \in S : \A n \in S : n <= m
<1> DEFINE T == { bound - n : n \in S }
<1>1. T \in SUBSET Nat /\ T # {}
  <2>1. \A n \in S : bound - n \in Nat
    OBVIOUS
  <2> QED BY <2>1
<1>2. PICK k \in T : \A n \in T : k <= n
  <2> HIDE DEF T
  <2> QED BY <1>1, LeastExists
<1>3. PICK m \in S : k = bound - m
  OBVIOUS
<1>4. \A n \in S : n <= m
  BY <1>2, <1>3
<1> QED BY <1>4

LEMMA DayFacts ==
  /\ \A d \in Nat : d * PerDay \in Nat
  /\ \A d, e \in Nat : d <= e => d * PerDay <= e * PerDay
  /\ \A d, e \in Nat : d * PerDay < e * PerDay => d < e
<1> USE TariffBookAssumption
<1>1. \A d \in Nat : d * PerDay \in Nat
  OBVIOUS
<1>2. \A d, e \in Nat : d <= e => d * PerDay <= e * PerDay
  OBVIOUS
<1> QED BY <1>1, <1>2

(* The day of an instant is the day whose instants hold it. *)
LEMMA DayOfInstant ==
  ASSUME NEW t \in Nat, NEW d \in Nat
  PROVE  /\ d * PerDay <= t => d <= t \div PerDay
         /\ t < d * PerDay => t \div PerDay < d
<1> USE TariffBookAssumption
<1>1. t \div PerDay \in Nat
  OBVIOUS
<1>2. (t \div PerDay) * PerDay <= t /\ t < (t \div PerDay + 1) * PerDay
  OBVIOUS
<1>3. (t \div PerDay + 1) * PerDay = (t \div PerDay) * PerDay + PerDay
  BY <1>1
<1>4. d * PerDay <= t => d < t \div PerDay + 1
  BY <1>1, <1>2, DayFacts
<1>5. t < d * PerDay => t \div PerDay < d
  BY <1>1, <1>2, DayFacts
<1> QED BY <1>1, <1>4, <1>5

(***************************************************************************)
(* Chained versions.                                                        *)
(***************************************************************************)
Dates == Nat \cup {Blank}

(* No two versions start on one day, and each ends where the next one starts. *)
Linked(S) ==
  /\ S \in SUBSET Versions
  /\ \A v, w \in S : v.from = w.from => v = w
  /\ \A v \in S : Following(v, S) # Blank => v.to = Following(v, S)

(* No version outlives the validity of its own profile. *)
GoodVersions(S) == Linked(S) /\ \A v \in S : ProfileCovers(v)

LEMMA VersionFacts ==
  ASSUME NEW v \in Versions
  PROVE  /\ v.from \in Dates /\ v.to \in Dates /\ v.profile \in Profiles /\ v # Blank
         /\ v.profile.from \in Dates /\ v.profile.to \in Dates /\ v.profile.name # Blank
  BY TariffBookAssumption DEF Versions, Dates

LEMMA BeforeFacts ==
  ASSUME NEW a \in Dates, NEW b \in Dates, DayBefore(a, b)
  PROVE  b \in Nat /\ (a # Blank => a \in Nat /\ a < b)
  BY DEF DayBefore, Dates

LEMMA FollowingFacts ==
  ASSUME NEW S \in SUBSET Versions, NEW v \in Versions
  PROVE  /\ Following(v, S) \in Dates
         /\ \A w \in S : DayBefore(v.from, w.from) => Following(v, S) \in Nat /\ Following(v, S) <= w.from
<1> DEFINE later == { w \in S : DayBefore(v.from, w.from) }
           starts == { w.from : w \in later }
<1>1. starts \in SUBSET Nat
  BY VersionFacts, BeforeFacts
<1>2. Following(v, S) = IF later = {} THEN Blank ELSE Min(starts)
  BY DEF Following
<1>3. CASE later = {}
  BY <1>2, <1>3 DEF Dates
<1>4. CASE later # {}
  <2>1. starts # {}
    BY <1>4
  <2>2. \A w \in S : DayBefore(v.from, w.from) => w.from \in starts
    OBVIOUS
  <2> HIDE DEF starts, later
  <2>3. Min(starts) \in Nat /\ \A n \in starts : Min(starts) <= n
    BY <1>1, <2>1, MinFacts
  <2> QED BY <1>2, <1>4, <2>2, <2>3 DEF Dates
<1> QED BY <1>3, <1>4

(* At most one version governs an instant. *)
LEMMA OneGoverns ==
  ASSUME NEW S, Linked(S), NEW t \in Nat, NEW v \in S, NEW w \in S, Governs(v, t), Governs(w, t)
  PROVE  v = w
<1> USE TariffBookAssumption
<1>1. v \in Versions /\ w \in Versions /\ S \in SUBSET Versions
  BY DEF Linked
<1>2. v.from \in Nat /\ w.from \in Nat
  BY <1>1, VersionFacts DEF Governs, Dates
<1>3. ASSUME NEW x \in S, NEW y \in S, Governs(x, t), Governs(y, t), x.from \in Nat, y.from \in Nat, x.from < y.from
      PROVE  FALSE
  <2>1. DayBefore(x.from, y.from) /\ x \in Versions
    BY <1>1, <1>3 DEF DayBefore
  <2>2. Following(x, S) \in Nat /\ Following(x, S) <= y.from
    BY <1>1, <2>1, FollowingFacts
  <2>3. x.to = Following(x, S)
    BY <1>3, <2>2 DEF Linked
  <2>4. x.to * PerDay <= y.from * PerDay
    BY <1>3, <2>2, <2>3, DayFacts
  <2>5. t < x.to * PerDay /\ y.from * PerDay <= t
    BY <1>3, <2>2, <2>3 DEF Governs, StartOf
  <2> QED BY <1>3, <2>2, <2>3, <2>4, <2>5, DayFacts
<1>4. v.from = w.from
  BY <1>2, <1>3
<1> QED BY <1>4 DEF Linked

LEMMA GoverningVersion ==
  ASSUME NEW S, Linked(S), NEW t \in Nat, NEW v \in S, Governs(v, t)
  PROVE  VersionAt(S, t) = v
<1>1. \A w \in S : Governs(w, t) => w = v
  BY OneGoverns
<1> QED BY <1>1 DEF VersionAt

LEMMA VersionCases ==
  ASSUME NEW S, Linked(S), NEW t \in Nat
  PROVE  \/ VersionAt(S, t) = Blank /\ \A v \in S : ~Governs(v, t)
         \/ VersionAt(S, t) \in S /\ Governs(VersionAt(S, t), t) /\ VersionAt(S, t) # Blank
<1>1. CASE \E v \in S : Governs(v, t)
  <2>1. PICK v \in S : Governs(v, t)
    BY <1>1
  <2>2. VersionAt(S, t) = v
    BY <2>1, GoverningVersion
  <2> QED BY <2>1, <2>2, VersionFacts DEF Linked
<1>2. CASE \A v \in S : ~Governs(v, t)
  BY <1>2 DEF VersionAt
<1> QED BY <1>1, <1>2

(* Between two bounds the same version governs. *)
LEMMA SameVersion ==
  ASSUME NEW S, Linked(S), NEW p \in Nat, NEW t \in Nat, p <= t,
         \A v \in S : \A q \in Bounds(v) : q <= p \/ q > t
  PROVE  VersionAt(S, p) = VersionAt(S, t)
<1>1. ASSUME NEW v \in S PROVE Governs(v, p) <=> Governs(v, t)
  <2>1. v.from \in Dates /\ v.to \in Dates
    BY <1>1, VersionFacts DEF Linked
  <2>2. v.from # Blank => v.from * PerDay \in Nat /\ (v.from * PerDay <= p \/ v.from * PerDay > t)
    BY <1>1, <2>1, DayFacts DEF Bounds, Dates
  <2>3. v.to # Blank => v.to * PerDay \in Nat /\ (v.to * PerDay <= p \/ v.to * PerDay > t)
    BY <1>1, <2>1, DayFacts DEF Bounds, Dates
  <2> QED BY <2>2, <2>3 DEF Governs, StartOf
<1>2. CASE \A v \in S : ~Governs(v, p)
  BY <1>1, <1>2 DEF VersionAt
<1>3. ASSUME NEW v \in S, Governs(v, p) PROVE VersionAt(S, p) = VersionAt(S, t)
  BY <1>1, <1>3, GoverningVersion
<1> QED BY <1>2, <1>3

(* While a version governs, its profile is valid. *)
LEMMA ProfileRate ==
  ASSUME NEW v \in Versions, ProfileCovers(v), NEW t \in Nat, Governs(v, t)
  PROVE  InProfile(v.profile, t) = RateOf(v.profile.name, t)
<1> USE TariffBookAssumption
<1>1. v.from \in Nat /\ v.to \in Dates /\ v.profile.from \in Dates /\ v.profile.to \in Dates
  BY VersionFacts DEF Governs, Dates
<1>2. t \div PerDay \in Nat
  OBVIOUS
<1>3. v.from <= t \div PerDay
  BY <1>1, DayOfInstant DEF Governs, StartOf
<1>4. v.to # Blank => v.to \in Nat /\ t \div PerDay < v.to
  BY <1>1, DayOfInstant DEF Governs, Dates
<1>5. v.profile.from # Blank => v.profile.from \in Nat /\ v.profile.from <= v.from
  BY <1>1 DEF ProfileCovers, Dates
<1>6. v.profile.to # Blank => v.profile.to \in Nat /\ v.to # Blank /\ v.to <= v.profile.to + 1
  BY <1>1 DEF ProfileCovers, Dates
<1>7. v.profile.from # Blank => ~(t \div PerDay < v.profile.from)
  BY <1>1, <1>2, <1>3, <1>5
<1>8. v.profile.to # Blank => ~(t \div PerDay > v.profile.to)
  BY <1>1, <1>2, <1>4, <1>6 DEF Dates
<1> QED BY <1>7, <1>8 DEF InProfile

(***************************************************************************)
(* Edits leave chained versions.                                            *)
(***************************************************************************)

(* What chaining makes of one version. *)
Ended(v, S) == [v EXCEPT !.to = IF Following(v, S) = Blank THEN @ ELSE Following(v, S)]

LEMMA EndedVersion ==
  ASSUME NEW S \in SUBSET Versions, NEW v \in S
  PROVE  /\ Ended(v, S) \in Versions /\ Ended(v, S).from = v.from
         /\ Following(v, S) # Blank => Ended(v, S).to = Following(v, S)
<1>1. Following(v, S) \in Dates /\ v \in Versions
  BY FollowingFacts
<1> QED BY <1>1 DEF Ended, Versions, Dates

LEMMA ChainedIsGood ==
  ASSUME NEW S \in SUBSET Versions, ValidTariff(S)
  PROVE  GoodVersions(Chained(S))
<1>1. Chained(S) = { Ended(v, S) : v \in S }
  BY DEF Chained, Ended
<1>2. Chained(S) \in SUBSET Versions
  BY <1>1, EndedVersion
<1>3. \A v, w \in Chained(S) : v.from = w.from => v = w
  BY <1>1, EndedVersion DEF ValidTariff
<1>4. ASSUME NEW v, NEW u, v.from = u.from PROVE Following(v, Chained(S)) = Following(u, S)
  <2> DEFINE laterC == { w \in Chained(S) : DayBefore(v.from, w.from) }
             laterS == { w \in S : DayBefore(u.from, w.from) }
             startsC == { w.from : w \in laterC }
             startsS == { w.from : w \in laterS }
  <2>1. startsC = startsS
    <3>1. \A w \in laterC : \E x \in laterS : x.from = w.from
      BY <1>1, <1>4, EndedVersion
    <3>2. \A x \in laterS : \E w \in laterC : x.from = w.from
      BY <1>1, <1>4, EndedVersion
    <3> HIDE DEF laterC, laterS
    <3>3. \A n : n \in { w.from : w \in laterC } => n \in { w.from : w \in laterS }
      BY <3>1
    <3>4. \A n : n \in { w.from : w \in laterS } => n \in { w.from : w \in laterC }
      BY <3>2
    <3> QED BY <3>3, <3>4
  <2>2. laterC = {} <=> laterS = {}
    <3> HIDE DEF laterC, laterS
    <3> QED BY <2>1
  <2>3. /\ Following(v, Chained(S)) = IF laterC = {} THEN Blank ELSE Min(startsC)
        /\ Following(u, S) = IF laterS = {} THEN Blank ELSE Min(startsS)
    BY DEF Following
  <2> HIDE DEF laterC, laterS, startsC, startsS
  <2> QED BY <2>1, <2>2, <2>3
<1>5. ASSUME NEW v \in Chained(S), Following(v, Chained(S)) # Blank PROVE v.to = Following(v, Chained(S))
  <2>1. PICK u \in S : v = Ended(u, S)
    BY <1>1
  <2>2. Following(v, Chained(S)) = Following(u, S)
    BY <1>4, <2>1, EndedVersion
  <2> QED BY <1>5, <2>1, <2>2, EndedVersion
<1> QED BY <1>2, <1>3, <1>5 DEF GoodVersions, Linked, ValidTariff

LEMMA MergedFacts ==
  ASSUME NEW S \in SUBSET Versions, NEW v \in Versions
  PROVE  Merged(S, v) \in SUBSET Versions
<1>1. v.from \in Dates
  BY VersionFacts
<1>2. \A w \in S : w \in Versions /\ [w EXCEPT !.to = v.from] \in Versions
  BY <1>1 DEF Versions, Dates
<1> DEFINE change(w, previous, following) ==
      IF w \in previous /\ w.to \in {Blank, following} THEN [w EXCEPT !.to = v.from] ELSE w
<1>3. \A previous, following, w : w \in S => change(w, previous, following) \in Versions
  BY <1>2
<1>4. \A previous, following : { change(w, previous, following) : w \in S } \in SUBSET Versions
  <2> HIDE DEF change
  <2> QED BY <1>3
<1>5. \A w \in S : w.from # v.from => w \in Versions
  OBVIOUS
<1> QED BY <1>4, <1>5 DEF Merged

LEMMA MigratedIsGood ==
  ASSUME NEW p \in Profiles
  PROVE  GoodVersions({Migrated1(p)})
<1> USE TariffBookAssumption
<1> DEFINE v == Migrated1(p)
<1>1. p.from \in Dates /\ p.to \in Dates
  BY DEF Dates
<1>2. /\ v \in Versions /\ v.from = p.from /\ v.profile = p /\ (p.to = Blank => v.to = Blank)
      /\ (p.to # Blank => v.to = p.to + 1)
  BY <1>1 DEF Migrated1, Versions, Dates
<1> HIDE DEF v
<1>3. ~DayBefore(v.from, v.from)
  BY <1>1, <1>2 DEF DayBefore, Dates
<1>4. { w \in {v} : DayBefore(v.from, w.from) } = {}
  BY <1>3
<1>5. Following(v, {v}) = Blank
  BY <1>4 DEF Following
<1>6. ProfileCovers(v)
  BY <1>1, <1>2 DEF ProfileCovers, Dates
<1> QED BY <1>2, <1>5, <1>6 DEF v, GoodVersions, Linked

LEMMA NoneAreGood == GoodVersions({})
  BY DEF GoodVersions, Linked

(* Every saved tariff is chained and within the validity of its profiles, and a *)
(* migrated profile waits only while there is no book.                        *)
BookInv ==
  /\ clock \in Nat
  /\ oldStyle \in {Blank} \cup Profiles
  /\ oldStyle # Blank => book = NoBook
  /\ book \in [TariffIds -> SUBSET Versions]
  /\ \A id \in TariffIds : GoodVersions(book[id])

LEMMA TariffStarts == TariffInit => BookInv
  BY NoneAreGood DEF TariffInit, BookInv, NoBook

LEMMA BaseFacts ==
  ASSUME BookInv
  PROVE  /\ Base \in [TariffIds -> SUBSET Versions]
         /\ \A id \in TariffIds : GoodVersions(Base[id])
         /\ book # NoBook => Base = book /\ oldStyle = Blank
<1>1. CASE oldStyle = Blank
  BY <1>1 DEF Base, BookInv
<1>2. CASE oldStyle # Blank
  <2>1. GoodVersions({Migrated1(oldStyle)})
    BY <1>2, MigratedIsGood DEF BookInv
  <2>2. {Migrated1(oldStyle)} \in SUBSET Versions
    BY <2>1 DEF GoodVersions, Linked
  <2> DEFINE first == CHOOSE id \in TariffIds : TRUE
             s == {Migrated1(oldStyle)}
  <2>3. Base = [NoBook EXCEPT ![first] = s]
    BY <1>2 DEF Base
  <2> HIDE DEF first, s
  <2>4. s \in SUBSET Versions /\ GoodVersions(s)
    BY <2>1, <2>2 DEF s
  <2> QED BY <1>2, <2>3, <2>4, NoneAreGood DEF NoBook, BookInv
<1> QED BY <1>1, <1>2

(* A whole book that is saved is the chained form of what was written. *)
LEMMA SavedIsGood ==
  ASSUME NEW after \in [TariffIds -> Proposals], \A id \in TariffIds : ValidTariff(after[id])
  PROVE  LET clean == [id \in TariffIds |-> Chained(after[id])] IN
         /\ clean \in [TariffIds -> SUBSET Versions]
         /\ \A id \in TariffIds : GoodVersions(clean[id])
<1>1. \A id \in TariffIds : after[id] \in SUBSET Versions
  BY TariffBookAssumption
<1>2. \A id \in TariffIds : GoodVersions(Chained(after[id])) /\ Chained(after[id]) \in SUBSET Versions
  BY <1>1, ChainedIsGood DEF GoodVersions, Linked
<1> QED BY <1>2

LEMMA SavesBookKeeps ==
  ASSUME BookInv, NEW after \in [TariffIds -> Proposals], NEW ack \in BOOLEAN, SavesBook(after, ack)
  PROVE  BookInv'
<1>1. /\ \A id \in TariffIds : ValidTariff(after[id])
      /\ book' = [id \in TariffIds |-> Chained(after[id])] /\ oldStyle' = Blank /\ clock' = clock
  BY DEF SavesBook, Saves
<1>2. book' \in [TariffIds -> SUBSET Versions] /\ \A id \in TariffIds : GoodVersions(book'[id])
  BY <1>1, SavedIsGood
<1> QED BY <1>1, <1>2 DEF BookInv

(* What the edit of one version makes of the book. *)
LEMMA EditFacts ==
  ASSUME BookInv, NEW id \in TariffIds, NEW v \in UNION Proposals, NEW ack \in BOOLEAN, SavesVersion(id, v, ack)
  PROVE  /\ book' = [Base EXCEPT ![id] = Chained(Merged(Base[id], v))]
         /\ GoodVersions(Chained(Merged(Base[id], v)))
         /\ book' \in [TariffIds -> SUBSET Versions]
         /\ \A k \in TariffIds : GoodVersions(book'[k])
<1>1. v \in Versions /\ Base[id] \in SUBSET Versions
  BY BaseFacts, TariffBookAssumption
<1> DEFINE after == Merged(Base[id], v)
<1>2. after \in SUBSET Versions
  BY <1>1, MergedFacts
<1>3. ValidTariff(after) /\ book' = [Base EXCEPT ![id] = Chained(after)]
  BY DEF SavesVersion
<1> HIDE DEF after
<1>4. GoodVersions(Chained(after)) /\ Chained(after) \in SUBSET Versions
  BY <1>2, <1>3, ChainedIsGood DEF GoodVersions, Linked
<1>5. book' \in [TariffIds -> SUBSET Versions] /\ \A k \in TariffIds : GoodVersions(book'[k])
  BY <1>3, <1>4, BaseFacts
<1> QED BY <1>3, <1>4, <1>5 DEF after

LEMMA SavesVersionKeeps ==
  ASSUME BookInv, NEW id \in TariffIds, NEW v \in UNION Proposals, NEW ack \in BOOLEAN, SavesVersion(id, v, ack)
  PROVE  BookInv'
<1>1. oldStyle' = Blank /\ clock' = clock
  BY DEF SavesVersion
<1> QED BY <1>1, EditFacts DEF BookInv

LEMMA TariffKept == BookInv /\ [TariffNext]_tariffVars => BookInv'
<1> SUFFICES ASSUME BookInv, [TariffNext]_tariffVars PROVE BookInv'
  OBVIOUS
<1>1. CASE TimePasses
  BY <1>1 DEF TimePasses, BookInv
<1>2. CASE UNCHANGED tariffVars
  BY <1>2 DEF tariffVars, BookInv
<1> QED BY <1>1, <1>2, SavesBookKeeps, SavesVersionKeeps DEF TariffNext

(* Every reachable book satisfies its invariant. *)
THEOREM TariffInductive == TariffSpec => []BookInv
<1> QED BY TariffStarts, TariffKept, PTL DEF TariffSpec

(***************************************************************************)
(* The past.                                                                *)
(***************************************************************************)
LEMMA BoundFacts ==
  ASSUME NEW v \in Versions
  PROVE  Bounds(v) \in SUBSET Nat
<1>1. v.from \in Dates /\ v.to \in Dates
  BY VersionFacts
<1> QED BY <1>1, DayFacts DEF Bounds, Dates

LEMMA PointFacts ==
  ASSUME NEW a \in SUBSET Versions, NEW b \in SUBSET Versions
  PROVE  /\ PastPoints(a, b) \in SUBSET Nat
         /\ \A p \in PastPoints(a, b) : p < clock
         /\ \A v \in a \cup b : \A q \in Bounds(v) : q < clock => q \in PastPoints(a, b)
  BY BoundFacts DEF PastPoints

LEMMA StopFacts ==
  ASSUME clock \in Nat, NEW points \in SUBSET Nat, NEW p \in points, \A q \in points : q < clock
  PROVE  /\ Stop(p, points) \in Nat /\ Stop(p, points) <= clock
         /\ \A q \in points : q > p => Stop(p, points) <= q
         /\ Stop(p, points) = clock \/ (Stop(p, points) \in points /\ Stop(p, points) > p)
<1> DEFINE later == { q \in points : q > p }
<1>1. Stop(p, points) = IF later = {} THEN clock ELSE Min(later)
  BY DEF Stop
<1>2. later \in SUBSET Nat
  OBVIOUS
<1>3. /\ \A q \in later : q \in points /\ q > p
      /\ \A q \in points : q > p => q \in later
  OBVIOUS
<1> HIDE DEF later
<1>4. CASE later = {}
  BY <1>1, <1>3, <1>4
<1>5. CASE later # {}
  <2>1. Min(later) \in later /\ Min(later) \in Nat /\ \A q \in later : Min(later) <= q
    BY <1>2, <1>5, MinFacts
  <2>2. Stop(p, points) = Min(later)
    BY <1>1, <1>5
  <2>3. Min(later) \in points /\ Min(later) > p /\ Min(later) < clock
    BY <1>3, <2>1
  <2>4. Min(later) <= clock
    BY <2>1, <2>3
  <2> QED BY <1>3, <2>1, <2>2, <2>3, <2>4
<1> QED BY <1>4, <1>5

(* From a point to its stop no version changes. *)
LEMMA SameUntilStop ==
  ASSUME clock \in Nat, NEW a \in SUBSET Versions, NEW b \in SUBSET Versions, Linked(a), Linked(b),
         NEW p \in PastPoints(a, b), NEW t \in Nat, p <= t, t < Stop(p, PastPoints(a, b))
  PROVE  VersionAt(a, p) = VersionAt(a, t) /\ VersionAt(b, p) = VersionAt(b, t)
<1> DEFINE points == PastPoints(a, b)
<1>1. points \in SUBSET Nat /\ \A q \in points : q < clock
  BY PointFacts
<1>2. /\ Stop(p, points) \in Nat /\ Stop(p, points) <= clock
      /\ \A q \in points : q > p => Stop(p, points) <= q
  BY <1>1, StopFacts
<1>3. \A v \in a \cup b : \A q \in Bounds(v) : q \in Nat /\ (q < clock => q \in points)
  BY PointFacts, BoundFacts
<1>4. p \in Nat /\ t < clock
  BY <1>1, <1>2
<1> HIDE DEF points
<1>5. ASSUME NEW v \in a \cup b, NEW q \in Bounds(v) PROVE q <= p \/ q > t
  <2>1. q \in Nat /\ (q < clock => q \in points)
    BY <1>3
  <2>2. CASE q < clock /\ q > p
    <3>1. Stop(p, points) <= q
      BY <1>2, <2>1, <2>2
    <3>2. t < Stop(p, points)
      BY DEF points
    <3> QED BY <1>2, <2>1, <3>1, <3>2
  <2> QED BY <1>4, <2>1, <2>2
<1> QED BY <1>4, <1>5, SameVersion

(* An instant of the past lies after the last point before it, and before its   *)
(* stop; before the first point no version governs.                            *)
LEMMA PointBefore ==
  ASSUME clock \in Nat, NEW a \in SUBSET Versions, NEW b \in SUBSET Versions, Linked(a), Linked(b),
         NEW t \in Nat, t < clock
  PROVE  \/ VersionAt(a, t) = Blank /\ VersionAt(b, t) = Blank
         \/ \E p \in PastPoints(a, b) : p <= t /\ t < Stop(p, PastPoints(a, b))
<1> DEFINE points == PastPoints(a, b)
           before == { q \in points : q <= t }
<1>1. points \in SUBSET Nat /\ \A q \in points : q < clock
  BY PointFacts
<1>2. \A v \in a \cup b : \A q \in Bounds(v) : q < clock => q \in points
  BY PointFacts
<1> HIDE DEF points
<1>3. CASE before = {}
  <2>1. ASSUME NEW v \in a \cup b, Governs(v, t) PROVE FALSE
    <3>1. v.from \in Nat /\ v.from * PerDay \in Nat /\ v.from * PerDay <= t
      BY <2>1, VersionFacts, DayFacts DEF Governs, StartOf, Dates
    <3>2. v.from * PerDay \in Bounds(v)
      BY <2>1 DEF Bounds, Governs
    <3>3. v.from * PerDay \in points
      BY <1>2, <3>1, <3>2
    <3> QED BY <1>3, <3>1, <3>3
  <2> QED BY <2>1 DEF VersionAt
<1>4. CASE before # {}
  <2>1. before \in SUBSET Nat /\ \A q \in before : q <= t
    BY <1>1
  <2>2. PICK p \in before : \A q \in before : q <= p
    <3> HIDE DEF before
    <3> QED BY <1>4, <2>1, GreatestExists
  <2>3. p \in points /\ p <= t /\ \A q \in points : q <= t => q <= p
    BY <2>2
  <2>4. /\ Stop(p, points) \in Nat
        /\ Stop(p, points) = clock \/ (Stop(p, points) \in points /\ Stop(p, points) > p)
    BY <1>1, <2>3, StopFacts
  <2>5. t < Stop(p, points)
    BY <1>1, <2>3, <2>4
  <2> QED BY <2>3, <2>5 DEF points
<1> QED BY <1>3, <1>4

(* The ranges an edit names are the instants whose version it replaces. *)
LEMMA ChangesAreExact ==
  ASSUME clock \in Nat, NEW a \in SUBSET Versions, NEW b \in SUBSET Versions, Linked(a), Linked(b),
         NEW t \in 0..(clock - 1)
  PROVE  (\E c \in Changes(a, b) : t \in c[1]..(c[2] - 1))
           <=> Signature(VersionAt(a, t)) # Signature(VersionAt(b, t))
<1> DEFINE points == PastPoints(a, b)
           Differs(q) == Signature(VersionAt(a, q)) # Signature(VersionAt(b, q))
<1>1. points \in SUBSET Nat /\ \A q \in points : q < clock
  BY PointFacts
<1>2. \A p \in points : Stop(p, points) \in Nat
  BY <1>1, StopFacts
<1>3. \A p \in points : p <= t /\ t < Stop(p, points) => (Differs(p) <=> Differs(t))
  BY SameUntilStop
<1>4. Differs(t) => \E p \in points : p <= t /\ t < Stop(p, points)
  BY PointBefore DEF Signature
<1>5. Changes(a, b) = { <<p, Stop(p, points)>> : p \in { q \in points : Differs(q) } }
  BY DEF Changes
<1> HIDE DEF points, Differs
<1>6. ASSUME NEW c \in Changes(a, b), t \in c[1]..(c[2] - 1) PROVE Differs(t)
  <2>1. PICK p \in points : Differs(p) /\ c = <<p, Stop(p, points)>>
    BY <1>5
  <2>2. p <= t /\ t < Stop(p, points)
    BY <1>1, <1>2, <1>6, <2>1
  <2> QED BY <1>3, <2>1, <2>2
<1>7. ASSUME Differs(t) PROVE \E c \in Changes(a, b) : t \in c[1]..(c[2] - 1)
  <2>1. PICK p \in points : p <= t /\ t < Stop(p, points)
    BY <1>4, <1>7
  <2>2. Differs(p)
    BY <1>3, <1>7, <2>1
  <2> DEFINE c == <<p, Stop(p, points)>>
  <2>3. c \in Changes(a, b)
    BY <1>5, <2>2
  <2>4. c[1] = p /\ c[2] = Stop(p, points) /\ t \in p..(Stop(p, points) - 1)
    BY <1>1, <1>2, <2>1
  <2> HIDE DEF c
  <2> QED BY <2>3, <2>4
<1> QED BY <1>6, <1>7 DEF Differs

(* Where the signature stays, so does the price. *)
LEMMA SignatureDecides ==
  ASSUME NEW a, NEW b, GoodVersions(a), GoodVersions(b), NEW t \in Nat,
         Signature(VersionAt(a, t)) = Signature(VersionAt(b, t))
  PROVE  RateAt(a, t) = RateAt(b, t)
<1> DEFINE v == VersionAt(a, t)
           w == VersionAt(b, t)
<1>1. /\ v = Blank \/ (v \in a /\ v # Blank /\ Governs(v, t))
      /\ w = Blank \/ (w \in b /\ w # Blank /\ Governs(w, t))
  BY VersionCases DEF GoodVersions
<1>2. v # Blank => v \in Versions /\ ProfileCovers(v) /\ v.profile.name # Blank
  BY <1>1, VersionFacts DEF GoodVersions, Linked
<1>3. w # Blank => w \in Versions /\ ProfileCovers(w) /\ w.profile.name # Blank
  BY <1>1, VersionFacts DEF GoodVersions, Linked
<1>4. v # Blank => RateAt(a, t) = RateOf(v.profile.name, t)
  BY <1>1, <1>2, ProfileRate DEF RateAt
<1>5. w # Blank => RateAt(b, t) = RateOf(w.profile.name, t)
  BY <1>1, <1>3, ProfileRate DEF RateAt
<1>6. CASE v = Blank \/ w = Blank
  <2>1. v = Blank /\ w = Blank
    BY <1>2, <1>3, <1>6 DEF Signature
  <2> QED BY <2>1 DEF RateAt
<1>7. CASE v # Blank /\ w # Blank
  BY <1>4, <1>5, <1>7 DEF Signature
<1> QED BY <1>6, <1>7

(* What a step makes of a book that there is: nothing, or an edit that names    *)
(* what it changes and is acknowledged when it changes anything.              *)
LEMMA EditNames ==
  ASSUME BookInv, TariffNext, book # NoBook, book' # book, NEW id \in TariffIds
  PROVE  /\ asked'.changes[id] = Changes(book[id], book'[id])
         /\ asked'.ack \/ Changes(book[id], book'[id]) = {}
<1>1. CASE TimePasses
  BY <1>1 DEF TimePasses
<1>2. ASSUME NEW after \in [TariffIds -> Proposals], NEW ack \in BOOLEAN, SavesBook(after, ack)
      PROVE  /\ asked'.changes[id] = Changes(book[id], book'[id])
             /\ asked'.ack \/ Changes(book[id], book'[id]) = {}
  <2>1. Saves(after, ack)
    BY <1>2 DEF SavesBook
  <2> QED BY <2>1 DEF Saves, HistoricalChanges
<1>3. ASSUME NEW k \in TariffIds, NEW v \in UNION Proposals, NEW ack \in BOOLEAN, SavesVersion(k, v, ack)
      PROVE  /\ asked'.changes[id] = Changes(book[id], book'[id])
             /\ asked'.ack \/ Changes(book[id], book'[id]) = {}
  <2>1. Base = book
    BY BaseFacts
  <2>2. PICK changes : /\ changes = HistoricalChanges(book, book')
                       /\ ~ack => \A j \in TariffIds : changes[j] = {}
                       /\ asked' = [ack |-> ack, changes |-> changes]
    BY <1>3, <2>1 DEF SavesVersion
  <2> QED BY <2>2 DEF HistoricalChanges
<1> QED BY <1>1, <1>2, <1>3 DEF TariffNext

(* No edit rewrites the price of a past instant in silence, and the ranges it is *)
(* told are exactly those it changes, for any profiles, proposals and days.   *)
THEOREM PastIsAcknowledgedHolds == TariffSpec => PastIsAcknowledged
<1> DEFINE Named(id, t) == \E c \in asked'.changes[id] : t \in c[1]..(c[2] - 1)
           Acknowledged(id, t) ==
             /\ Named(id, t) <=> Signature(VersionAt(book[id], t)) # Signature(VersionAt(book'[id], t))
             /\ RateAt(book[id], t) # RateAt(book'[id], t) => asked'.ack /\ Named(id, t)
           Past == book # NoBook /\ book' # book => \A id \in TariffIds, t \in 0..(clock - 1) : Acknowledged(id, t)
<1>1. BookInv /\ BookInv' /\ [TariffNext]_tariffVars => [Past]_tariffVars
  <2> SUFFICES ASSUME BookInv, BookInv', TariffNext, book # NoBook, book' # book,
                      NEW id \in TariffIds, NEW t \in 0..(clock - 1)
               PROVE  Acknowledged(id, t)
    OBVIOUS
  <2> DEFINE old == book[id]
             new == book'[id]
  <2>1. GoodVersions(old) /\ GoodVersions(new) /\ clock \in Nat /\ t \in Nat
    BY DEF BookInv
  <2>2. old \in SUBSET Versions /\ new \in SUBSET Versions /\ Linked(old) /\ Linked(new)
    BY <2>1 DEF GoodVersions, Linked
  <2>3. asked'.changes[id] = Changes(old, new) /\ (asked'.ack \/ Changes(old, new) = {})
    BY EditNames
  <2>4. (\E c \in Changes(old, new) : t \in c[1]..(c[2] - 1))
          <=> Signature(VersionAt(old, t)) # Signature(VersionAt(new, t))
    BY <2>1, <2>2, ChangesAreExact
  <2>5. RateAt(old, t) # RateAt(new, t) => Signature(VersionAt(old, t)) # Signature(VersionAt(new, t))
    BY <2>1, SignatureDecides
  <2> HIDE DEF old, new
  <2>6. Named(id, t) <=> Signature(VersionAt(old, t)) # Signature(VersionAt(new, t))
    BY <2>3, <2>4
  <2>7. Named(id, t) => asked'.ack
    BY <2>3
  <2>8. RateAt(old, t) # RateAt(new, t) => asked'.ack /\ Named(id, t)
    BY <2>5, <2>6, <2>7
  <2> QED BY <2>6, <2>8 DEF old, new
<1> QED BY <1>1, TariffInductive, PTL DEF TariffSpec, PastIsAcknowledged

(***************************************************************************)
(* The readers.                                                             *)
(***************************************************************************)
LEMMA GovernsBetween ==
  ASSUME NEW v \in Versions, NEW a \in Nat, NEW b \in Nat, NEW t \in Nat, a <= t, t <= b,
         Governs(v, a), Governs(v, b)
  PROVE  Governs(v, t)
<1>1. /\ v.from \in Nat /\ v.from * PerDay \in Nat
      /\ v.to # Blank => v.to \in Nat /\ v.to * PerDay \in Nat
  BY VersionFacts, DayFacts DEF Governs, Dates
<1> QED BY <1>1 DEF Governs, StartOf

(* The price of an instant at which nothing turns is that of the one before.    *)
LEMMA RateStays ==
  ASSUME NEW v \in Versions, NEW t \in Instants, t % PerMinute # 0, t \notin Turns(v.profile.name)
  PROVE  RateOf(v.profile.name, t) = RateOf(v.profile.name, t - 1)
  BY VersionFacts, TariffBookAssumption

LEMMA InstantFacts ==
  /\ Instants \in SUBSET Nat
  /\ \A b \in Instants, t \in Nat : t <= b => t \in Instants
<1> DEFINE last == (LastDay + 1) * PerDay - 1
<1>1. last \in Int /\ Instants = 0..last
  BY TariffBookAssumption DEF Instants
<1> HIDE DEF last
<1> QED BY <1>1

LEMMA IntervalIsExact ==
  ASSUME NEW S, GoodVersions(S), NEW a \in Instants, NEW b \in Instants, a < b, IntervalRate(S, a, b) # Blank,
         NEW t \in a..(b - 1)
  PROVE  RateAt(S, t) = IntervalRate(S, a, b) /\ VersionAt(S, t) = VersionAt(S, a)
<1> DEFINE v == VersionAt(S, a)
           points == {a, b - 1} \cup Minutes(a + 1, b - 1) \cup (Turns(v.profile.name) \cap (a + 1)..(b - 1))
           rate(u) == RateOf(v.profile.name, u)
<1>1. a \in Nat /\ b \in Nat /\ b - 1 \in Nat /\ a <= b - 1
  BY InstantFacts
<1>2. /\ v # Blank /\ VersionAt(S, b - 1) = v
      /\ \A p, q \in points : InProfile(v.profile, p) = InProfile(v.profile, q)
      /\ IntervalRate(S, a, b) = InProfile(v.profile, a)
  BY DEF IntervalRate
<1>3. Linked(S) /\ v \in S /\ v \in Versions /\ ProfileCovers(v) /\ Governs(v, a) /\ Governs(v, b - 1)
  BY <1>1, <1>2, VersionCases DEF GoodVersions, Linked
<1>4. \A u \in a..(b - 1) : u \in Nat /\ Governs(v, u)
  BY <1>1, <1>3, GovernsBetween
<1>5. \A u \in a..(b - 1) : VersionAt(S, u) = v
  BY <1>3, <1>4, GoverningVersion
<1>6. \A u \in a..(b - 1) : InProfile(v.profile, u) = rate(u)
  BY <1>3, <1>4, ProfileRate
<1>7. \A u \in points : rate(u) = rate(a)
  <2>1. points \subseteq a..(b - 1) /\ a \in points
    BY <1>1 DEF Minutes
  <2> QED BY <1>2, <1>6, <2>1
<1>8. ASSUME NEW u \in a..(b - 1), u \notin points PROVE rate(u) = rate(u - 1) /\ u - 1 \in a..(b - 1)
  <2>1. u \in Instants /\ u \in (a + 1)..(b - 1)
    <3>1. u # a /\ u \in Nat /\ u <= b
      BY <1>1, <1>8
    <3> QED BY <1>1, <3>1, InstantFacts
  <2>2. u % PerMinute # 0 /\ u \notin Turns(v.profile.name)
    BY <1>8, <2>1 DEF Minutes
  <2>3. rate(u) = rate(u - 1)
    BY <1>3, <2>1, <2>2, RateStays
  <2>4. u - 1 \in a..(b - 1)
    BY <1>1, <2>1
  <2> QED BY <2>3, <2>4
<1> HIDE DEF points, rate
<1>9. \A u \in a..(b - 1) : rate(u) = rate(a)
  <2> DEFINE bad == { u \in a..(b - 1) : rate(u) # rate(a) }
  <2>1. SUFFICES ASSUME bad # {} PROVE FALSE
    OBVIOUS
  <2>2. bad \in SUBSET Nat
    BY <1>1
  <2>3. PICK u \in bad : \A n \in bad : u <= n
    <3> HIDE DEF bad
    <3> QED BY <2>1, <2>2, LeastExists
  <2>4. u \in a..(b - 1) /\ rate(u) # rate(a) /\ u \notin points
    BY <1>7, <2>3
  <2>5. rate(u - 1) = rate(u) /\ u - 1 \in a..(b - 1)
    BY <1>8, <2>4
  <2>6. u - 1 \in bad
    BY <2>4, <2>5
  <2>7. u <= u - 1 /\ u \in Nat
    BY <2>2, <2>3, <2>6
  <2> QED BY <2>7
<1>10. RateAt(S, t) = rate(t)
  BY <1>2, <1>5, <1>6 DEF RateAt
<1>11. IntervalRate(S, a, b) = rate(a)
  BY <1>1, <1>2, <1>6
<1> QED BY <1>5, <1>9, <1>10, <1>11

(* Between the boundaries and the minutes the price stays. *)
LEMMA PriceStays ==
  ASSUME NEW S, GoodVersions(S), NEW t \in Instants, t > 0, t % PerMinute # 0, t \notin Boundaries(S)
  PROVE  RateAt(S, t) = RateAt(S, t - 1)
<1> DEFINE v == VersionAt(S, t)
<1>1. t \in Nat /\ t - 1 \in Nat /\ t - 1 <= t /\ Linked(S) /\ S \in SUBSET Versions
  BY InstantFacts DEF GoodVersions, Linked
<1>2. \A w \in S : \A q \in Bounds(w) : q <= t - 1 \/ q > t
  <2> TAKE w \in S
  <2> TAKE q \in Bounds(w)
  <2>1. q \in Nat /\ q # t
    BY <1>1, BoundFacts DEF Boundaries
  <2> QED BY <1>1, <2>1
<1>3. VersionAt(S, t - 1) = v
  BY <1>1, <1>2, SameVersion
<1>4. CASE v = Blank
  BY <1>3, <1>4 DEF RateAt
<1>5. CASE v # Blank
  <2>1. v \in S /\ v \in Versions /\ ProfileCovers(v) /\ Governs(v, t)
    BY <1>1, <1>5, VersionCases DEF GoodVersions
  <2>2. Governs(v, t - 1)
    BY <1>1, <1>3, <1>5, VersionCases
  <2>3. RateAt(S, t) = RateOf(v.profile.name, t)
    BY <1>1, <1>5, <2>1, ProfileRate DEF RateAt
  <2>4. RateAt(S, t - 1) = RateOf(v.profile.name, t - 1)
    BY <1>1, <1>3, <1>5, <2>1, <2>2, ProfileRate DEF RateAt
  <2>5. t \notin Turns(v.profile.name)
    BY <2>1 DEF Boundaries
  <2> QED BY <2>1, <2>3, <2>4, <2>5, RateStays
<1> QED BY <1>4, <1>5

LEMMA NextIsFirst ==
  ASSUME NEW S, GoodVersions(S), NEW now \in Nat, now + Horizon \in Instants
  PROVE  LET other == { t \in (now + 1)..(now + Horizon) : RateAt(S, t) # RateAt(S, now) }
         IN NextChange(S, now) = IF other = {} THEN Blank ELSE Min(other)
<1> DEFINE range == (now + 1)..(now + Horizon)
           points == Minutes(now + 1, now + Horizon) \cup (Boundaries(S) \cap range) \cup {now + Horizon}
           Other(t) == RateAt(S, t) # RateAt(S, now)
           other == { t \in range : Other(t) }
           changed == { p \in points : Other(p) }
<1>1. NextChange(S, now) = IF changed = {} THEN Blank ELSE Min(changed)
  BY DEF NextChange
<1>2. range \subseteq Instants /\ range \subseteq Nat /\ now + Horizon \in range
  BY InstantFacts, TariffBookAssumption
<1>3. points \subseteq range
  BY <1>2 DEF Minutes
<1>4. \A t \in range : t \in Int /\ (t - 1 = now \/ t - 1 \in range) /\ t > 0
  BY TariffBookAssumption
<1>5. \A t \in range : t \notin points => RateAt(S, t) = RateAt(S, t - 1)
  <2> SUFFICES ASSUME NEW t \in range, t \notin points PROVE RateAt(S, t) = RateAt(S, t - 1)
    OBVIOUS
  <2>1. t % PerMinute # 0 /\ t \notin Boundaries(S) /\ t \in Instants /\ t > 0
    BY <1>2, <1>4 DEF Minutes
  <2> QED BY <2>1, PriceStays
<1> HIDE DEF range, points, Other
<1>6. other \in SUBSET Nat /\ changed \subseteq other
  BY <1>2, <1>3
<1>7. CASE other = {}
  BY <1>1, <1>6, <1>7 DEF range, Other
<1>8. CASE other # {}
  <2> DEFINE first == Min(other)
  <2>1. first \in other /\ first \in Nat /\ \A n \in other : first <= n
    <3> HIDE DEF other
    <3> QED BY <1>6, <1>8, MinFacts
  <2> HIDE DEF first
  <2>2. first - 1 \notin other /\ first \in range /\ Other(first)
    <3>1. ~(first <= first - 1)
      BY <2>1
    <3> QED BY <2>1, <3>1
  <2>3. RateAt(S, first - 1) = RateAt(S, now)
    BY <1>4, <2>2 DEF Other
  <2>4. first \in points
    BY <1>5, <2>2, <2>3 DEF Other
  <2>5. first \in changed /\ changed \in SUBSET Nat /\ \A n \in changed : first <= n
    BY <1>6, <2>1, <2>2, <2>4
  <2>6. Min(changed) = first /\ changed # {}
    <3> HIDE DEF changed
    <3> QED BY <2>5, MinIs
  <2> QED BY <1>1, <1>8, <2>6 DEF first, range, Other
<1> QED BY <1>7, <1>8

(* The rate of an interval and the next change agree with the price of every    *)
(* single instant, for any profiles, proposals and days.                      *)
THEOREM RatesAreExactHolds == TariffSpec => []RatesAreExact
<1>1. BookInv => RatesAreExact
  <2> SUFFICES ASSUME BookInv, NEW id \in TariffIds
               PROVE  LET S == book[id] IN
                      /\ \A v \in S, t \in Instants : Governs(v, t) =>
                           VersionAt(S, t) = v /\ InProfile(v.profile, t) = RateOf(v.profile.name, t)
                      /\ \A a, b \in Instants : a < b /\ IntervalRate(S, a, b) # Blank =>
                           \A t \in a..(b - 1) : /\ RateAt(S, t) = IntervalRate(S, a, b)
                                                 /\ VersionAt(S, t) = VersionAt(S, a)
                      /\ clock + Horizon \in Instants =>
                           LET other == { t \in (clock + 1)..(clock + Horizon) : RateAt(S, t) # RateAt(S, clock) }
                           IN NextChange(S, clock) = IF other = {} THEN Blank ELSE Min(other)
    BY DEF RatesAreExact
  <2> DEFINE S == book[id]
  <2>1. GoodVersions(S) /\ clock \in Nat
    BY DEF BookInv
  <2> HIDE DEF S
  <2>2. ASSUME NEW v \in S, NEW t \in Instants, Governs(v, t)
        PROVE  VersionAt(S, t) = v /\ InProfile(v.profile, t) = RateOf(v.profile.name, t)
    <3>1. Linked(S) /\ v \in Versions /\ ProfileCovers(v) /\ t \in Nat
      BY <2>1, InstantFacts DEF GoodVersions, Linked
    <3> QED BY <2>2, <3>1, GoverningVersion, ProfileRate
  <2>3. ASSUME NEW a \in Instants, NEW b \in Instants, a < b, IntervalRate(S, a, b) # Blank, NEW t \in a..(b - 1)
        PROVE  RateAt(S, t) = IntervalRate(S, a, b) /\ VersionAt(S, t) = VersionAt(S, a)
    BY <2>1, <2>3, IntervalIsExact
  <2>4. clock + Horizon \in Instants =>
          LET other == { t \in (clock + 1)..(clock + Horizon) : RateAt(S, t) # RateAt(S, clock) }
          IN NextChange(S, clock) = IF other = {} THEN Blank ELSE Min(other)
    BY <2>1, NextIsFirst
  <2> QED BY <2>2, <2>3, <2>4 DEF S
<1> QED BY <1>1, TariffInductive, PTL

(***************************************************************************)
(* The comparison of two periods.                                           *)
(***************************************************************************)

(* What the counters are when the hours now of both periods are read and the *)
(* pairs M of them are matched.                                              *)
OwnHours(i, now) == { u \in (DOMAIN now[i]) \X GridSources : u[2] \in now[i][u[1]].sources }
OwnRows(k, i, now) == { p \in DOMAIN now[i] : k \in now[i][p].rows }
KnownPairs(k, M, now) == { m \in M : KnownRow(k, m, now) }
RowHours(k, i, M, now) == { m[i] : m \in KnownPairs(k, M, now) }
RowUses(k, i, M, now) == RowHours(k, i, M, now) \X {k}
WholePairs(M, now) == { m \in M : Present(m, now) = GridSources }
Usage(used, i) == AddUsage(NoUsage, used, i)

HouseFor(now, M) ==
  [measured |-> [i \in Sides |-> Cardinality(OwnHours(i, now))],
   common |-> Cardinality(CommonHours(1, M, now)),
   ownCost |-> [i \in Sides |-> Usage(OwnHours(i, now), i)],
   commonCost |-> [i \in Sides |-> Usage(CommonHours(i, M, now), i)]]

RowFor(k, now, M) ==
  [own |-> [i \in Sides |-> Cardinality(OwnRows(k, i, now))],
   common |-> Cardinality(KnownPairs(k, M, now)),
   alike |-> StructuralZero(k) \/ \A m \in M : KnownRow(k, m, now) <=> Present(m, now) = GridSources,
   ownCost |-> [i \in Sides |-> Usage(OwnRows(k, i, now) \X {k}, i)],
   commonCost |-> [i \in Sides |-> Usage(RowUses(k, i, M, now), i)]]

MarksFor(now, M) ==
  [partition |-> [i \in Sides |-> \A p \in DOMAIN now[i] : now[i][p].partition],
   common |-> /\ \A m \in M : Present(m, now) \in {{}, GridSources}
              /\ \A m \in WholePairs(M, now), j \in Sides : Hour(j, m, now).partition,
   whole |-> Cardinality(WholePairs(M, now))]

(* The pairs behind both heads. No pair has only one of its hours behind them. *)
Behind(at) == { m \in SameFrame : m[1] <= at[1] /\ m[2] <= at[2] }
NoCrossing(at) == \A m \in SameFrame : m[1] <= at[1] <=> m[2] <= at[2]
MatchedAt(at) == IF Aligned THEN Behind(at) ELSE {}

(* One chunk is always used up, and a period that is used up leaves no chunk. *)
Spent(at, to) ==
  /\ \E i \in Sides : at[i] = to[i]
  /\ \A i \in Sides : at[i] = to[i] /\ to[i] = Len(Grid(i)) => at[3 - i] = to[3 - i]

ComparisonType ==
  /\ plan \in Plans
  /\ pushed \in [Sides -> Seq(Hours)]
  /\ heads \in [Sides -> Nat]
  /\ \A i \in Sides : heads[i] <= Cursor(i) /\ Cursor(i) <= Len(Grid(i))

HeadsInv ==
  /\ Aligned => NoCrossing(heads)
  /\ Spent(heads, [i \in Sides |-> Cursor(i)])

CountersInv ==
  /\ house = HouseFor(pushed, MatchedAt(heads))
  /\ rows = [k \in GroupKeys |-> RowFor(k, pushed, MatchedAt(heads))]
  /\ marks = MarksFor(pushed, MatchedAt(heads))

Outcome ==
  [status |-> "finished",
   scope |-> IF HouseComplete THEN "calendar_totals" ELSE IF HouseReady THEN "common_measurements" ELSE "unknown",
   priced |-> BothPriced(HouseCosts), reconciles |-> Reconciles, costs |-> CostsReconcile]

OutcomeInv ==
  \/ compared = [status |-> "reading"]
  \/ compared = Outcome /\ \A i \in Sides : Complete(i)

ComparisonInv == ComparisonType /\ HeadsInv /\ CountersInv /\ OutcomeInv

(***************************************************************************)
(* Places of hours in both periods.                                         *)
(***************************************************************************)
LEMMA PlanFacts ==
  ASSUME plan \in Plans, NEW i \in Sides
  PROVE  /\ Grid(i) \in Seq(ToSet(Grid(i)))
         /\ Len(Grid(i)) \in Nat \ {0} /\ DOMAIN Grid(i) = 1..Len(Grid(i))
         /\ \A p, q \in DOMAIN Grid(i) : Grid(i)[p] = Grid(i)[q] => p = q
         /\ \A p \in DOMAIN Grid(i) :
              /\ plan.tariff[i][p] = [identity |-> plan.tariff[i][p].identity, known |-> plan.tariff[i][p].known]
              /\ plan.tariff[i][p].known \in BOOLEAN
              /\ plan.tariff[i][p].known => plan.tariff[i][p].identity # NoPrice
<1>1. plan.calendar \in Calendars /\ plan.tariff \in Tariffs
  BY DEF Plans
<1>2. Grid(i) \in Seq(ToSet(Grid(i))) /\ IsInjective(Grid(i)) /\ Grid(i) # << >>
  BY <1>1, ComparisonAssumption DEF Grid
<1>3. Len(Grid(i)) \in Nat \ {0} /\ DOMAIN Grid(i) = 1..Len(Grid(i))
  BY <1>2, EmptySeq, LenProperties
<1>4. ASSUME NEW p \in DOMAIN Grid(i)
      PROVE  /\ plan.tariff[i][p] \in [identity : {plan.tariff[i][p].identity}, known : BOOLEAN]
             /\ plan.tariff[i][p].known => plan.tariff[i][p].identity # NoPrice
  BY <1>1, <1>4, ComparisonAssumption DEF Grid
<1>5. \A p \in DOMAIN Grid(i) :
              /\ plan.tariff[i][p] = [identity |-> plan.tariff[i][p].identity, known |-> plan.tariff[i][p].known]
              /\ plan.tariff[i][p].known \in BOOLEAN
              /\ plan.tariff[i][p].known => plan.tariff[i][p].identity # NoPrice
  BY <1>4
<1> QED BY <1>2, <1>3, <1>5 DEF IsInjective

LEMMA FrameFacts ==
  ASSUME plan \in Plans
  PROVE  /\ \A m \in SameFrame : /\ m = <<m[1], m[2]>> /\ m[1] \in 1..Len(Grid(1)) /\ m[2] \in 1..Len(Grid(2))
                                 /\ m[1] \in Nat /\ m[2] \in Nat
         /\ \A m, n \in SameFrame : m[1] = n[1] \/ m[2] = n[2] => m = n
         /\ \A p \in 1..Len(Grid(1)), q \in 1..Len(Grid(2)) : Grid(1)[p] = Grid(2)[q] => <<p, q>> \in SameFrame
         /\ \A p \in 1..Len(Grid(1)) : Grid(1)[p] \in SharedFrames <=> \E m \in SameFrame : m[1] = p
         /\ \A q \in 1..Len(Grid(2)) : Grid(2)[q] \in SharedFrames <=> \E m \in SameFrame : m[2] = q
         /\ \A m \in SameFrame : Grid(1)[m[1]] = Grid(2)[m[2]]
<1> DEFINE L(i) == Len(Grid(i))
<1>1. \A i \in Sides : L(i) \in Nat /\ DOMAIN Grid(i) = 1..L(i) /\ \A p, q \in 1..L(i) : Grid(i)[p] = Grid(i)[q] => p = q
  BY PlanFacts
<1>2. 1 \in Sides /\ 2 \in Sides
  BY DEF Sides
<1>3. \A m \in SameFrame : /\ m = <<m[1], m[2]>> /\ m[1] \in 1..L(1) /\ m[2] \in 1..L(2)
                           /\ Grid(1)[m[1]] = Grid(2)[m[2]]
  BY <1>1, <1>2 DEF SameFrame
<1>4. \A m \in SameFrame : m[1] \in Nat /\ m[2] \in Nat
  BY <1>1, <1>2, <1>3
<1>5. \A m, n \in SameFrame : m[1] = n[1] => m = n
  <2> TAKE m, n \in SameFrame
  <2> HAVE m[1] = n[1]
  <2>1. m[2] = n[2]
    BY <1>1, <1>2, <1>3
  <2> QED BY <2>1, <1>3
<1>6. \A m, n \in SameFrame : m[2] = n[2] => m = n
  <2> TAKE m, n \in SameFrame
  <2> HAVE m[2] = n[2]
  <2>1. m[1] = n[1]
    BY <1>1, <1>2, <1>3
  <2> QED BY <2>1, <1>3
<1>7. \A p \in 1..L(1), q \in 1..L(2) : Grid(1)[p] = Grid(2)[q] => <<p, q>> \in SameFrame
  BY <1>1, <1>2 DEF SameFrame
<1>8. \A p \in 1..L(1) : Grid(1)[p] \in SharedFrames <=> \E m \in SameFrame : m[1] = p
  <2> TAKE p \in 1..L(1)
  <2>1. ASSUME Grid(1)[p] \in SharedFrames
        PROVE  \E m \in SameFrame : m[1] = p
    <3>1. PICK q \in 1..L(2) : Grid(2)[q] = Grid(1)[p]
      BY <2>1, <1>1, <1>2 DEF SharedFrames, ToSet
    <3>2. <<p, q>> \in SameFrame /\ <<p, q>>[1] = p
      BY <3>1, <1>7
    <3> QED BY <3>2
  <2>2. ASSUME NEW m \in SameFrame, m[1] = p
        PROVE  Grid(1)[p] \in SharedFrames
    BY <2>2, <1>1, <1>2, <1>3 DEF SharedFrames, ToSet
  <2> QED BY <2>1, <2>2
<1>9. \A q \in 1..L(2) : Grid(2)[q] \in SharedFrames <=> \E m \in SameFrame : m[2] = q
  <2> TAKE q \in 1..L(2)
  <2>1. ASSUME Grid(2)[q] \in SharedFrames
        PROVE  \E m \in SameFrame : m[2] = q
    <3>1. PICK p \in 1..L(1) : Grid(1)[p] = Grid(2)[q]
      BY <2>1, <1>1, <1>2 DEF SharedFrames, ToSet
    <3>2. <<p, q>> \in SameFrame /\ <<p, q>>[2] = q
      BY <3>1, <1>7
    <3> QED BY <3>2
  <2>2. ASSUME NEW m \in SameFrame, m[2] = q
        PROVE  Grid(2)[q] \in SharedFrames
    BY <2>2, <1>1, <1>2, <1>3 DEF SharedFrames, ToSet
  <2> QED BY <2>1, <2>2
<1> QED BY <1>3, <1>4, <1>5, <1>6, <1>7, <1>8, <1>9

(* The frame at a position, and its position.                               *)
LEMMA PlaceOf ==
  ASSUME plan \in Plans, NEW i \in Sides, NEW p \in 1..Len(Grid(i))
  PROVE  Place(i, Grid(i)[p]) = p
  BY PlanFacts DEF Place

(* In one order, both hours of a pair come before both hours of another.     *)
LEMMA PairsInOrder ==
  ASSUME plan \in Plans, Aligned, NEW m \in SameFrame, NEW n \in SameFrame, m[1] < n[1]
  PROVE  m[2] < n[2]
<1> DEFINE f == Grid(1)[m[1]]
           g == Grid(1)[n[1]]
<1>1. f \in SharedFrames /\ g \in SharedFrames /\ f = Grid(2)[m[2]] /\ g = Grid(2)[n[2]]
  BY FrameFacts
<1>2. Place(1, f) = m[1] /\ Place(1, g) = n[1] /\ Place(2, f) = m[2] /\ Place(2, g) = n[2]
  BY <1>1, FrameFacts, PlaceOf DEF Sides
<1> HIDE DEF f, g
<1> QED BY <1>1, <1>2 DEF Aligned

(***************************************************************************)
(* The merge of two chunks.                                                 *)
(***************************************************************************)

(* Between the heads at and the ends to of the chunks, the walk matched the   *)
(* pairs it passed.                                                           *)
Walked(w, at, to) ==
  /\ w = [matched |-> w.matched, at |-> w.at]
  /\ w.at \in [Sides -> Nat]
  /\ \A i \in Sides : at[i] <= w.at[i] /\ w.at[i] <= to[i]
  /\ NoCrossing(w.at)
  /\ w.matched = { m \in SameFrame : at[1] < m[1] /\ m[1] <= w.at[1] }

Chunks(at, to) ==
  /\ at \in [Sides -> Nat] /\ to \in [Sides -> Nat]
  /\ \A i \in Sides : at[i] <= to[i] /\ to[i] <= Len(Grid(i))

(* One head passes an hour that has no partner.                              *)
LEMMA SkipKeeps ==
  ASSUME plan \in Plans, NEW at, NEW to, Chunks(at, to), NEW w, Walked(w, at, to),
         NEW i \in Sides, w.at[i] # to[i], \A m \in SameFrame : m[i] # w.at[i] + 1
  PROVE  LET v == [w EXCEPT !.at[i] = @ + 1]
         IN Walked(v, at, to) /\ v.at[1] + v.at[2] = w.at[1] + w.at[2] + 1
<1> DEFINE v == [w EXCEPT !.at[i] = @ + 1]
           next == [w.at EXCEPT ![i] = @ + 1]
<1>1. v = [matched |-> w.matched, at |-> next] /\ w.at \in [Sides -> Nat] /\ i \in {1, 2}
  <2> DEFINE M == w.matched
             A == w.at
  <2>1. w = [matched |-> M, at |-> A] /\ w.at \in [Sides -> Nat]
    BY DEF Walked
  <2> HIDE DEF M, A
  <2>2. v = [matched |-> M, at |-> [A EXCEPT ![i] = @ + 1]]
    BY <2>1
  <2> QED BY <2>1, <2>2 DEF M, A, Sides
<1>2. next \in [Sides -> Nat] /\ next[i] = w.at[i] + 1 /\ \A j \in Sides : j # i => next[j] = w.at[j]
  BY <1>1
<1>3. v.at = next /\ v.matched = w.matched
  BY <1>1
<1>4. \A j \in Sides : at[j] <= w.at[j] /\ w.at[j] <= to[j] /\ at[j] \in Nat /\ to[j] \in Nat /\ w.at[j] \in Nat
  BY <1>1 DEF Walked, Chunks
<1> HIDE DEF v, next
<1>5. \A j \in Sides : at[j] <= next[j] /\ next[j] <= to[j]
  BY <1>2, <1>4
<1>6. \A m \in SameFrame, j \in Sides : m[j] <= next[j] <=> m[j] <= w.at[j]
  <2> TAKE m \in SameFrame, j \in Sides
  <2>1. m[1] \in Nat /\ m[2] \in Nat
    BY FrameFacts
  <2>2. m[j] \in Nat
    BY <2>1 DEF Sides
  <2>3. CASE j = i
    BY <2>2, <2>3, <1>2, <1>4
  <2>4. CASE j # i
    BY <2>4, <1>2
  <2> QED BY <2>3, <2>4
<1>7. NoCrossing(next)
  <2>1. \A m \in SameFrame : m[1] <= w.at[1] <=> m[2] <= w.at[2]
    BY DEF Walked, NoCrossing
  <2> QED BY <2>1, <1>6 DEF NoCrossing, Sides
<1>8. { m \in SameFrame : at[1] < m[1] /\ m[1] <= w.at[1] } = { m \in SameFrame : at[1] < m[1] /\ m[1] <= next[1] }
  BY <1>6 DEF Sides
<1>9. Walked(v, at, to)
  BY <1>1, <1>2, <1>3, <1>5, <1>7, <1>8 DEF Walked
<1>10. v.at[1] + v.at[2] = w.at[1] + w.at[2] + 1
  BY <1>1, <1>2, <1>3, <1>4 DEF Sides
<1> QED BY <1>9, <1>10 DEF v

(* Both heads pass the hours of a pair.                                      *)
LEMMA MatchKeeps ==
  ASSUME plan \in Plans, Aligned, NEW at, NEW to, Chunks(at, to), NEW w, Walked(w, at, to),
         \A i \in Sides : w.at[i] # to[i], <<w.at[1] + 1, w.at[2] + 1>> \in SameFrame
  PROVE  LET v == [matched |-> w.matched \cup {<<w.at[1] + 1, w.at[2] + 1>>}, at |-> [i \in Sides |-> w.at[i] + 1]]
         IN Walked(v, at, to) /\ v.at[1] + v.at[2] = w.at[1] + w.at[2] + 2
<1> DEFINE pair == <<w.at[1] + 1, w.at[2] + 1>>
           next == [i \in Sides |-> w.at[i] + 1]
           v == [matched |-> w.matched \cup {pair}, at |-> next]
<1>1. w.at \in [Sides -> Nat] /\ 1 \in Sides /\ 2 \in Sides
  BY DEF Walked, Sides
<1>2. next \in [Sides -> Nat] /\ next[1] = w.at[1] + 1 /\ next[2] = w.at[2] + 1
  BY <1>1
<1>3. v.at = next /\ v.matched = w.matched \cup {pair} /\ v = [matched |-> v.matched, at |-> v.at]
  OBVIOUS
<1>4. \A j \in Sides : at[j] <= w.at[j] /\ w.at[j] <= to[j] /\ at[j] \in Nat /\ to[j] \in Nat /\ w.at[j] \in Nat
  BY <1>1 DEF Walked, Chunks
<1>5. pair \in SameFrame /\ pair[1] = w.at[1] + 1 /\ pair[2] = w.at[2] + 1
  OBVIOUS
<1>6. \A j \in Sides : next[j] = w.at[j] + 1
  OBVIOUS
<1> HIDE DEF v, next, pair
<1>7. \A j \in Sides : at[j] <= next[j] /\ next[j] <= to[j]
  BY <1>4, <1>6
<1>8. ASSUME NEW m \in SameFrame
      PROVE  /\ m[1] <= next[1] <=> (m[1] <= w.at[1] \/ m = pair)
             /\ m[2] <= next[2] <=> (m[2] <= w.at[2] \/ m = pair)
  <2>1. m[1] \in Nat /\ m[2] \in Nat /\ w.at[1] \in Nat /\ w.at[2] \in Nat
    BY <1>1, <1>4, FrameFacts
  <2>2. m[1] = w.at[1] + 1 => m = pair
    BY <1>5, FrameFacts
  <2>3. m[2] = w.at[2] + 1 => m = pair
    BY <1>5, FrameFacts
  <2> QED BY <2>1, <2>2, <2>3, <1>2, <1>5
<1>9. NoCrossing(next)
  <2>1. \A m \in SameFrame : m[1] <= w.at[1] <=> m[2] <= w.at[2]
    BY DEF Walked, NoCrossing
  <2> QED BY <2>1, <1>8 DEF NoCrossing
<1>10. v.matched = { m \in SameFrame : at[1] < m[1] /\ m[1] <= next[1] }
  <2>1. w.matched = { m \in SameFrame : at[1] < m[1] /\ m[1] <= w.at[1] }
    BY DEF Walked
  <2>2. at[1] < pair[1]
    BY <1>1, <1>4, <1>5
  <2> QED BY <2>1, <2>2, <1>3, <1>5, <1>8
<1>11. Walked(v, at, to)
  BY <1>2, <1>3, <1>7, <1>9, <1>10 DEF Walked
<1>12. v.at[1] + v.at[2] = w.at[1] + w.at[2] + 2
  BY <1>1, <1>2, <1>3, <1>4
<1> QED BY <1>11, <1>12 DEF v, next, pair

(* A turn goes on until a chunk is used up. The shared frames come in one     *)
(* order, so no turn meets two different ones.                               *)
LEMMA TurnKeeps ==
  ASSUME plan \in Plans, Aligned, NEW at, NEW to, Chunks(at, to), NEW w, Walked(w, at, to)
  PROVE  /\ Walked(Turn(w, to), at, to)
         /\ \/ Turn(w, to) = w /\ \E i \in Sides : w.at[i] = to[i]
            \/ Turn(w, to).at[1] + Turn(w, to).at[2] >= w.at[1] + w.at[2] + 1
<1> DEFINE a == Grid(1)[w.at[1] + 1]
           b == Grid(2)[w.at[2] + 1]
           Skip(i) == [w EXCEPT !.at[i] = @ + 1]
           both == [matched |-> w.matched \cup {<<w.at[1] + 1, w.at[2] + 1>>}, at |-> [i \in Sides |-> w.at[i] + 1]]
<1>1. CASE \E i \in Sides : w.at[i] = to[i]
  BY <1>1 DEF Turn
<1>2. ASSUME \A i \in Sides : w.at[i] # to[i]
      PROVE  Walked(Turn(w, to), at, to) /\ Turn(w, to).at[1] + Turn(w, to).at[2] >= w.at[1] + w.at[2] + 1
  <2>1. w.at[1] \in Nat /\ w.at[2] \in Nat /\ 1 \in Sides /\ 2 \in Sides
    BY DEF Walked, Sides
  <2>2. w.at[1] + 1 \in 1..Len(Grid(1)) /\ w.at[2] + 1 \in 1..Len(Grid(2))
    <3>1. \A i \in Sides : Len(Grid(i)) \in Nat
      BY PlanFacts
    <3>2. \A i \in Sides : w.at[i] <= to[i] /\ to[i] <= Len(Grid(i)) /\ to[i] \in Nat
      BY DEF Walked, Chunks
    <3> QED BY <1>2, <2>1, <3>1, <3>2
  <2>3. CASE a \notin SharedFrames
    <3>1. \A m \in SameFrame : m[1] # w.at[1] + 1
      BY <2>2, <2>3, FrameFacts
    <3>2. Turn(w, to) = Skip(1)
      BY <1>2, <2>3 DEF Turn
    <3>3. Walked(Skip(1), at, to) /\ Skip(1).at[1] + Skip(1).at[2] = w.at[1] + w.at[2] + 1
      BY <1>2, <2>1, <3>1, SkipKeeps
    <3> HIDE DEF Skip
    <3> QED BY <2>1, <3>2, <3>3
  <2>4. CASE a \in SharedFrames /\ b \notin SharedFrames
    <3>1. \A m \in SameFrame : m[2] # w.at[2] + 1
      BY <2>2, <2>4, FrameFacts
    <3>2. Turn(w, to) = Skip(2)
      BY <1>2, <2>4 DEF Turn
    <3>3. Walked(Skip(2), at, to) /\ Skip(2).at[1] + Skip(2).at[2] = w.at[1] + w.at[2] + 1
      BY <1>2, <2>1, <3>1, SkipKeeps
    <3> HIDE DEF Skip
    <3> QED BY <2>1, <3>2, <3>3
  <2>5. CASE a \in SharedFrames /\ b \in SharedFrames
    <3>1. PICK m \in SameFrame : m[1] = w.at[1] + 1
      BY <2>2, <2>5, FrameFacts
    <3>2. PICK n \in SameFrame : n[2] = w.at[2] + 1
      BY <2>2, <2>5, FrameFacts
    <3>3. \A l \in SameFrame : l[1] \in Nat /\ l[2] \in Nat /\ l = <<l[1], l[2]>> /\ (l[1] <= w.at[1] <=> l[2] <= w.at[2])
      BY FrameFacts DEF Walked, NoCrossing
    <3>4. n[1] > w.at[1] /\ m[2] > w.at[2]
      BY <2>1, <3>1, <3>2, <3>3
    <3>5. m = n
      <4>1. CASE m[1] < n[1]
        <5>1. m[2] < n[2]
          BY <4>1, PairsInOrder
        <5> QED BY <5>1, <2>1, <3>2, <3>3, <3>4
      <4>2. CASE m[1] > n[1]
        BY <4>2, <2>1, <3>1, <3>3, <3>4
      <4>3. CASE m[1] = n[1]
        BY <4>3, FrameFacts
      <4> QED BY <3>3, <4>1, <4>2, <4>3
    <3>6. <<w.at[1] + 1, w.at[2] + 1>> \in SameFrame /\ a = b
      <4>1. m = <<w.at[1] + 1, w.at[2] + 1>>
        BY <3>1, <3>2, <3>3, <3>5
      <4>2. a = b
        BY <3>1, <3>2, <3>5, FrameFacts
      <4> QED BY <4>1, <4>2
    <3>7. Turn(w, to) = both
      BY <1>2, <2>5, <3>6 DEF Turn
    <3>8. Walked(both, at, to) /\ both.at[1] + both.at[2] = w.at[1] + w.at[2] + 2
      BY <1>2, <3>6, MatchKeeps
    <3> HIDE DEF both
    <3> QED BY <2>1, <3>7, <3>8
  <2> QED BY <2>3, <2>4, <2>5
<1> QED BY <1>1, <1>2

(* The merge as a sequence of turns exists.                                  *)
MergeTo(N, f, at, to) ==
  f = [n \in 0..N |-> IF n = 0 THEN [matched |-> {}, at |-> at] ELSE Turn(f[n - 1], to)]

LEMMA MergeExists ==
  ASSUME NEW at, NEW to, NEW N \in Nat
  PROVE  \E f : MergeTo(N, f, at, to)
<1> DEFINE first == [matched |-> {}, at |-> at]
           missing == { n \in Nat : ~ \E f : MergeTo(n, f, at, to) }
<1>1. SUFFICES ASSUME missing # {} PROVE FALSE
  OBVIOUS
<1>2. PICK n \in missing : \A k \in missing : n <= k
  <2>1. missing \in SUBSET Nat
    OBVIOUS
  <2> HIDE DEF missing
  <2> QED BY <1>1, <2>1, LeastExists
<1>3. CASE n = 0
  <2> DEFINE g == [k \in 0..0 |-> first]
  <2>1. g = [k \in 0..0 |-> IF k = 0 THEN first ELSE Turn(g[k - 1], to)]
    OBVIOUS
  <2>2. MergeTo(0, g, at, to)
    BY <2>1 DEF MergeTo
  <2> QED BY <1>2, <1>3, <2>2
<1>4. CASE n # 0
  <2>1. n \in Nat /\ n - 1 \in Nat /\ n - 1 \notin missing
    BY <1>2, <1>4
  <2>2. PICK f : MergeTo(n - 1, f, at, to)
    BY <2>1
  <2> DEFINE g == [k \in 0..n |-> IF k = n THEN Turn(f[n - 1], to) ELSE f[k]]
  <2>3. \A k \in 0..(n - 1) : f[k] = IF k = 0 THEN first ELSE Turn(f[k - 1], to)
    BY <2>2 DEF MergeTo
  <2>4. \A k \in 0..(n - 1) : g[k] = f[k]
    BY <2>1
  <2>5. \A k \in 0..n : g[k] = IF k = 0 THEN first ELSE Turn(g[k - 1], to)
    <3> TAKE k \in 0..n
    <3>1. CASE k = n
      <4>1. g[k] = Turn(f[n - 1], to)
        BY <3>1
      <4>2. g[n - 1] = f[n - 1]
        BY <2>1, <2>4
      <4> QED BY <3>1, <4>1, <4>2, <1>4
    <3>2. CASE k # n
      <4>1. k \in 0..(n - 1)
        BY <2>1, <3>2
      <4>2. k # 0 => k - 1 \in 0..(n - 1)
        BY <2>1, <4>1
      <4> QED BY <4>1, <4>2, <2>3, <2>4
    <3> QED BY <3>1, <3>2
  <2>6. g = [k \in 0..n |-> g[k]]
    OBVIOUS
  <2> HIDE DEF g
  <2>7. MergeTo(n, g, at, to)
    BY <2>5, <2>6 DEF MergeTo
  <2> QED BY <1>2, <2>7
<1> QED BY <1>3, <1>4

(* The merge uses up a chunk, and matched all the pairs that it passed.      *)
LEMMA DrainedFacts ==
  ASSUME plan \in Plans, Aligned, NEW at, NEW to, Chunks(at, to), NoCrossing(at)
  PROVE  Walked(Drained(at, to), at, to) /\ \E i \in Sides : Drained(at, to).at[i] = to[i]
<1> DEFINE N == to[1] + to[2]
           first == [matched |-> {}, at |-> at]
           f == CHOOSE g : MergeTo(N, g, at, to)
<1>1. at[1] \in Nat /\ at[2] \in Nat /\ to[1] \in Nat /\ to[2] \in Nat /\ 1 \in Sides /\ 2 \in Sides
  BY DEF Chunks, Sides
<1>2. N \in Nat /\ N = to[1] + to[2]
  BY <1>1
<1>3. Drained(at, to) = f[N]
  BY DEF Drained, MergeTo
<1>4. MergeTo(N, f, at, to)
  BY <1>2, MergeExists
<1> HIDE DEF f, N
<1>5. f[0] = first /\ \A n \in 1..N : f[n] = Turn(f[n - 1], to)
  <2>1. \A n \in 0..N : f[n] = IF n = 0 THEN first ELSE Turn(f[n - 1], to)
    BY <1>4 DEF MergeTo
  <2>2. 0 \in 0..N /\ \A n \in 1..N : n \in 0..N /\ n # 0
    BY <1>2
  <2> QED BY <2>1, <2>2
<1> DEFINE Good(n) == /\ Walked(f[n], at, to)
                      /\ \/ \E i \in Sides : f[n].at[i] = to[i]
                         \/ f[n].at[1] + f[n].at[2] >= at[1] + at[2] + n
           bad == { n \in 0..N : ~Good(n) }
<1>6. Good(0)
  <2>1. first.at = at /\ first.matched = {}
    OBVIOUS
  <2>2. { m \in SameFrame : at[1] < m[1] /\ m[1] <= at[1] } = {}
    BY <1>1, FrameFacts
  <2>3. Walked(first, at, to)
    <3>1. at \in [Sides -> Nat] /\ \A i \in Sides : at[i] <= at[i] /\ at[i] <= to[i]
      BY DEF Chunks
    <3> QED BY <2>1, <2>2, <3>1 DEF Walked
  <2>4. first.at[1] + first.at[2] >= at[1] + at[2] + 0
    BY <1>1, <2>1
  <2> QED BY <1>5, <2>3, <2>4
<1>7. ASSUME NEW n \in 1..N, Good(n - 1)
      PROVE  Good(n)
  <2>1. n \in Nat /\ n - 1 \in Nat
    BY <1>2
  <2> DEFINE w == f[n - 1]
  <2>2. Walked(w, at, to) /\ f[n] = Turn(w, to)
    BY <1>5, <1>7
  <2>3. w.at[1] \in Nat /\ w.at[2] \in Nat
    BY <1>1, <2>2 DEF Walked
  <2>4. \/ \E i \in Sides : w.at[i] = to[i]
        \/ w.at[1] + w.at[2] >= at[1] + at[2] + (n - 1)
    BY <1>7
  <2> HIDE DEF w
  <2>5. Walked(f[n], at, to)
    BY <2>2, TurnKeeps
  <2>6. f[n].at[1] \in Nat /\ f[n].at[2] \in Nat
    BY <1>1, <2>5 DEF Walked
  <2>7. CASE \E i \in Sides : w.at[i] = to[i]
    <3>1. f[n] = w
      BY <2>2, <2>7 DEF Turn
    <3> QED BY <2>5, <2>7, <3>1
  <2>8. CASE ~ \E i \in Sides : w.at[i] = to[i]
    <3>1. f[n].at[1] + f[n].at[2] >= w.at[1] + w.at[2] + 1
      BY <2>2, <2>8, TurnKeeps
    <3>2. f[n].at[1] + f[n].at[2] >= at[1] + at[2] + n
      BY <1>1, <2>1, <2>3, <2>4, <2>6, <2>8, <3>1
    <3> QED BY <2>5, <3>2
  <2> QED BY <2>7, <2>8
<1>8. Good(N)
  <2>1. SUFFICES ASSUME ~Good(N) PROVE FALSE
    OBVIOUS
  <2>2. bad \in SUBSET Nat /\ N \in bad
    BY <1>2, <2>1
  <2>3. \A n \in bad : n \in 0..N /\ ~Good(n)
    OBVIOUS
  <2>4. \A n \in 0..N : ~Good(n) => n \in bad
    OBVIOUS
  <2> HIDE DEF bad, Good
  <2>5. PICK n \in bad : \A k \in bad : n <= k
    BY <2>2, LeastExists
  <2>6. n # 0 /\ n \in 0..N
    BY <1>6, <2>3, <2>5
  <2>7. n \in 1..N /\ n - 1 \in 0..N /\ n - 1 \notin bad
    BY <1>2, <2>2, <2>5, <2>6
  <2>8. Good(n - 1)
    BY <2>4, <2>7
  <2> QED BY <1>7, <2>3, <2>5, <2>7, <2>8
<1>9. Walked(f[N], at, to)
  BY <1>8
<1>10. f[N].at[1] \in Nat /\ f[N].at[2] \in Nat /\ f[N].at[1] <= to[1] /\ f[N].at[2] <= to[2]
  BY <1>1, <1>9 DEF Walked
<1>11. \E i \in Sides : f[N].at[i] = to[i]
  <2>1. CASE f[N].at[1] + f[N].at[2] >= at[1] + at[2] + N
    <3>1. f[N].at[1] = to[1]
      BY <1>1, <1>2, <1>10, <2>1
    <3> QED BY <1>1, <3>1
  <2> QED BY <1>8, <2>1
<1> QED BY <1>3, <1>9, <1>11

(* What is left of the chunks, and the pairs they gave.                      *)
LEMMA DrainFacts ==
  ASSUME plan \in Plans, NEW at, NEW to, Chunks(at, to), Aligned => NoCrossing(at)
  PROVE  LET d == Drain(at, to)
         IN /\ d.at \in [Sides -> Nat] /\ \A i \in Sides : at[i] <= d.at[i] /\ d.at[i] <= to[i]
            /\ Aligned => NoCrossing(d.at)
            /\ Spent(d.at, to)
            /\ MatchedAt(d.at) = MatchedAt(at) \cup d.matched
            /\ MatchedAt(at) \cap d.matched = {}
<1> DEFINE d == Drain(at, to)
<1>1. at \in [Sides -> Nat] /\ to \in [Sides -> Nat] /\ \A i \in Sides : at[i] <= to[i] /\ to[i] <= Len(Grid(i))
  BY DEF Chunks
<1>2. \A i \in Sides : Len(Grid(i)) \in Nat
  BY PlanFacts
<1>3. 1 \in Sides /\ 2 \in Sides /\ \A i \in Sides : 3 - i \in Sides /\ 3 - (3 - i) = i
  BY DEF Sides
<1>4. CASE ~Aligned
  <2>1. d.at = to /\ d.matched = {}
    BY <1>4 DEF Drain
  <2> HIDE DEF d
  <2>2. Spent(d.at, to)
    BY <1>3, <2>1 DEF Spent
  <2>3. \A i \in Sides : at[i] <= d.at[i] /\ d.at[i] <= to[i]
    BY <1>1, <2>1
  <2>4. MatchedAt(d.at) = {} /\ MatchedAt(at) = {}
    BY <1>4 DEF MatchedAt
  <2> QED BY <1>1, <1>4, <2>1, <2>2, <2>3, <2>4 DEF d
<1>5. CASE Aligned
  <2> DEFINE w == Drained(at, to)
  <2>1. Walked(w, at, to) /\ \E i \in Sides : w.at[i] = to[i]
    BY <1>5, DrainedFacts
  <2>2. d.at = Dry(w.at, to) /\ d.matched = w.matched
    <3> DEFINE M == w.matched
               A == w.at
    <3>1. w = [matched |-> M, at |-> A]
      BY <2>1 DEF Walked
    <3>2. d = [w EXCEPT !.at = Dry(@, to)]
      BY <1>5 DEF Drain
    <3> HIDE DEF w, d, M, A
    <3>3. d = [matched |-> M, at |-> Dry(A, to)]
      BY <3>1, <3>2
    <3> QED BY <3>1, <3>3
  <2> HIDE DEF w, d
  <2>3. w.at \in [Sides -> Nat] /\ \A i \in Sides : at[i] <= w.at[i] /\ w.at[i] <= to[i]
    BY <2>1 DEF Walked
  <2>4. \A i \in Sides : d.at[i] = IF w.at[3 - i] = to[3 - i] /\ to[3 - i] = Len(Grid(3 - i)) THEN to[i] ELSE w.at[i]
    BY <2>2 DEF Dry
  <2>5. d.at \in [Sides -> Nat]
    BY <1>1, <2>2, <2>3 DEF Dry
  <2>6. \A i \in Sides : at[i] <= d.at[i] /\ d.at[i] <= to[i] /\ w.at[i] <= d.at[i]
    <3> TAKE i \in Sides
    <3>1. at[i] \in Nat /\ to[i] \in Nat /\ w.at[i] \in Nat /\ at[i] <= w.at[i] /\ w.at[i] <= to[i]
      BY <1>1, <2>3
    <3>2. d.at[i] = to[i] \/ d.at[i] = w.at[i]
      BY <2>4
    <3> QED BY <3>1, <3>2
  <2>7. Spent(d.at, to)
    <3>1. \A i \in Sides : w.at[i] = to[i] => d.at[i] = to[i]
      BY <2>4
    <3>2. ASSUME NEW i \in Sides, d.at[i] = to[i], to[i] = Len(Grid(i))
          PROVE  d.at[3 - i] = to[3 - i]
      <4>1. CASE w.at[i] = to[i]
        BY <1>3, <2>4, <3>2, <4>1
      <4>2. CASE w.at[i] # to[i]
        <5>1. w.at[3 - i] = to[3 - i]
          BY <2>1, <4>2 DEF Sides
        <5> QED BY <1>3, <3>1, <5>1
      <4> QED BY <4>1, <4>2
    <3>3. \E i \in Sides : d.at[i] = to[i]
      BY <2>1, <3>1
    <3> QED BY <3>2, <3>3 DEF Spent
  <2>8. \A m \in SameFrame : /\ m[1] <= d.at[1] <=> m[1] <= w.at[1]
                             /\ m[2] <= d.at[2] <=> m[2] <= w.at[2]
    <3> TAKE m \in SameFrame
    <3>1. m[1] \in Nat /\ m[2] \in Nat /\ m[1] <= Len(Grid(1)) /\ m[2] <= Len(Grid(2))
      BY <1>2, <1>3, FrameFacts
    <3>2. m[1] <= w.at[1] <=> m[2] <= w.at[2]
      BY <2>1 DEF Walked, NoCrossing
    <3>3. w.at[1] \in Nat /\ w.at[2] \in Nat /\ d.at[1] \in Nat /\ d.at[2] \in Nat
          /\ w.at[1] <= d.at[1] /\ w.at[2] <= d.at[2]
      BY <1>3, <2>3, <2>5, <2>6
    <3>4. d.at[1] = w.at[1] \/ w.at[2] = Len(Grid(2))
      BY <1>3, <2>4 DEF Sides
    <3>5. d.at[2] = w.at[2] \/ w.at[1] = Len(Grid(1))
      BY <1>3, <2>4 DEF Sides
    <3> QED BY <3>1, <3>2, <3>3, <3>4, <3>5
  <2>9. NoCrossing(d.at)
    BY <2>1, <2>8 DEF Walked, NoCrossing
  <2>10. MatchedAt(d.at) = MatchedAt(at) \cup d.matched /\ MatchedAt(at) \cap d.matched = {}
    <3>1. MatchedAt(d.at) = { m \in SameFrame : m[1] <= w.at[1] }
      BY <1>5, <2>1, <2>8 DEF MatchedAt, Behind, Walked, NoCrossing
    <3>2. MatchedAt(at) = { m \in SameFrame : m[1] <= at[1] }
      BY <1>5 DEF MatchedAt, Behind, NoCrossing
    <3>3. d.matched = { m \in SameFrame : at[1] < m[1] /\ m[1] <= w.at[1] }
      BY <2>1, <2>2 DEF Walked
    <3>4. at[1] \in Nat /\ w.at[1] \in Nat /\ at[1] <= w.at[1]
      BY <1>1, <1>3, <2>3
    <3>5. \A m \in SameFrame : /\ m[1] <= w.at[1] <=> (m[1] <= at[1] \/ (at[1] < m[1] /\ m[1] <= w.at[1]))
                               /\ ~(m[1] <= at[1] /\ at[1] < m[1])
      BY <3>4, FrameFacts
    <3> QED BY <3>1, <3>2, <3>3, <3>5
  <2> QED BY <1>5, <2>5, <2>6, <2>7, <2>9, <2>10 DEF d
<1> QED BY <1>4, <1>5

(***************************************************************************)
(* Counting.                                                                *)
(***************************************************************************)
LEMMA CountsAdd ==
  ASSUME NEW A, NEW B, IsFiniteSet(A), IsFiniteSet(B), A \cap B = {}
  PROVE  IsFiniteSet(A \cup B) /\ Cardinality(A \cup B) = Cardinality(A) + Cardinality(B)
         /\ Cardinality(A) \in Nat /\ Cardinality(B) \in Nat
<1>1. IsFiniteSet(A \cup B) /\ Cardinality(A \cup B) = Cardinality(A) + Cardinality(B) - Cardinality(A \cap B)
  BY FS_Union
<1>2. Cardinality(A \cap B) = 0
  BY FS_EmptySet
<1>3. Cardinality(A) \in Nat /\ Cardinality(B) \in Nat
  BY FS_CardinalityType
<1> QED BY <1>1, <1>2, <1>3

LEMMA UsageAdds ==
  ASSUME NEW A, NEW B, NEW i, IsFiniteSet(A), IsFiniteSet(B), A \cap B = {}
  PROVE  AddUsage(Usage(A, i), B, i) = Usage(A \cup B, i)
<1> DEFINE known(S) == { u \in S : plan.tariff[i][u[1]].known }
           names(S) == { plan.tariff[i][u[1]].identity : u \in S } \ {NoPrice}
<1>1. \A S : Usage(S, i) = [mask |-> 0 + Cardinality(S), priced |-> 0 + Cardinality(known(S)), identities |-> {} \cup names(S)]
  BY DEF Usage, AddUsage, NoUsage
<1>2. Cardinality(A \cup B) = Cardinality(A) + Cardinality(B) /\ Cardinality(A) \in Nat /\ Cardinality(B) \in Nat
  BY CountsAdd
<1>3. known(A) \in SUBSET A /\ known(B) \in SUBSET B
  OBVIOUS
<1>4. IsFiniteSet(known(A)) /\ IsFiniteSet(known(B))
  BY <1>3, FS_Subset
<1>5. known(A) \cap known(B) = {} /\ known(A \cup B) = known(A) \cup known(B)
  BY <1>3
<1>6. Cardinality(known(A \cup B)) = Cardinality(known(A)) + Cardinality(known(B))
      /\ Cardinality(known(A)) \in Nat /\ Cardinality(known(B)) \in Nat
  BY <1>4, <1>5, CountsAdd
<1>7. names(A \cup B) = names(A) \cup names(B)
  OBVIOUS
<1>8. AddUsage(Usage(A, i), B, i)
        = [mask |-> Usage(A, i).mask + Cardinality(B), priced |-> Usage(A, i).priced + Cardinality(known(B)),
           identities |-> Usage(A, i).identities \cup names(B)]
  BY DEF AddUsage
<1> HIDE DEF known, names
<1>9. Usage(A, i).mask = Cardinality(A) /\ Usage(A, i).priced = Cardinality(known(A)) /\ Usage(A, i).identities = names(A)
  BY <1>1, <1>2, <1>6
<1>10. /\ 0 + Cardinality(A \cup B) = Cardinality(A) + Cardinality(B)
       /\ 0 + Cardinality(known(A \cup B)) = Cardinality(known(A)) + Cardinality(known(B))
       /\ {} \cup names(A \cup B) = names(A) \cup names(B)
  BY <1>2, <1>6, <1>7
<1>11. Usage(A \cup B, i) = [mask |-> 0 + Cardinality(A \cup B), priced |-> 0 + Cardinality(known(A \cup B)),
                            identities |-> {} \cup names(A \cup B)]
  BY <1>1
<1>12. Usage(A \cup B, i) = [mask |-> Cardinality(A) + Cardinality(B),
                             priced |-> Cardinality(known(A)) + Cardinality(known(B)),
                             identities |-> names(A) \cup names(B)]
  BY <1>10, <1>11
<1> QED BY <1>8, <1>9, <1>12

(* A chunk new of side i continues what was read.                            *)
Continues(i, new, now) ==
  /\ pushed \in [Sides -> Seq(Hours)] /\ now \in [Sides -> Seq(Hours)]
  /\ Cursor(i) <= Len(now[i])
  /\ new \in [Cursor(i) + 1 .. Len(now[i]) -> Hours]
  /\ \A p \in DOMAIN pushed[i] : now[i][p] = pushed[i][p]
  /\ \A p \in DOMAIN new : now[i][p] = new[p]
  /\ \A j \in Sides : j # i => now[j] = pushed[j]

(* Pairs of hours that are read.                                             *)
Paired(M, now) == M \in SUBSET SameFrame /\ \A m \in M : m[1] \in DOMAIN now[1] /\ m[2] \in DOMAIN now[2]

LEMMA HourFacts ==
  ASSUME NEW now, now \in [Sides -> Seq(Hours)]
  PROVE  \A j \in Sides : /\ Len(now[j]) \in Nat /\ DOMAIN now[j] = 1..Len(now[j]) /\ IsFiniteSet(DOMAIN now[j])
                          /\ \A p \in DOMAIN now[j] : /\ now[j][p] \in Hours /\ now[j][p].sources \in SUBSET GridSources
                                                      /\ now[j][p].rows \in SUBSET GroupKeys
                                                      /\ now[j][p].partition \in BOOLEAN
<1> TAKE j \in Sides
<1>1. now[j] \in Seq(Hours)
  OBVIOUS
<1>2. Len(now[j]) \in Nat /\ DOMAIN now[j] = 1..Len(now[j]) /\ \A p \in DOMAIN now[j] : now[j][p] \in Hours
  BY <1>1, LenProperties, ElementOfSeq
<1>3. IsFiniteSet(1..Len(now[j]))
  BY <1>2, FS_Interval
<1> QED BY <1>2, <1>3 DEF Hours

LEMMA ContinuesFacts ==
  ASSUME NEW i \in Sides, NEW new, NEW now, Continues(i, new, now)
  PROVE  /\ DOMAIN now[i] = DOMAIN pushed[i] \cup DOMAIN new /\ DOMAIN pushed[i] \cap DOMAIN new = {}
         /\ \A j \in Sides : j # i => now[j] = pushed[j]
         /\ \A j \in Sides : \A p \in DOMAIN pushed[j] : p \in DOMAIN now[j] /\ now[j][p] = pushed[j][p]
<1>1. Len(pushed[i]) \in Nat /\ DOMAIN pushed[i] = 1..Len(pushed[i])
      /\ Len(now[i]) \in Nat /\ DOMAIN now[i] = 1..Len(now[i])
  BY HourFacts DEF Continues
<1>2. DOMAIN new = Len(pushed[i]) + 1 .. Len(now[i]) /\ Len(pushed[i]) <= Len(now[i])
  BY DEF Continues, Cursor
<1>3. DOMAIN now[i] = DOMAIN pushed[i] \cup DOMAIN new /\ DOMAIN pushed[i] \cap DOMAIN new = {}
  BY <1>1, <1>2
<1>4. \A j \in Sides : j # i => now[j] = pushed[j]
  BY DEF Continues
<1>5. \A p \in DOMAIN pushed[i] : now[i][p] = pushed[i][p]
  BY DEF Continues
<1> QED BY <1>3, <1>4, <1>5

(* What was read of a pair stays.                                            *)
LEMMA PairsStay ==
  ASSUME NEW i \in Sides, NEW new, NEW now, Continues(i, new, now), NEW M, Paired(M, pushed)
  PROVE  /\ Paired(M, now)
         /\ \A m \in M : /\ \A j \in Sides : Hour(j, m, now) = Hour(j, m, pushed)
                         /\ Present(m, now) = Present(m, pushed)
                         /\ \A k : KnownRow(k, m, now) <=> KnownRow(k, m, pushed)
<1>1. 1 \in Sides /\ 2 \in Sides
  BY DEF Sides
<1>2. Paired(M, now)
  BY <1>1, ContinuesFacts DEF Paired
<1>3. \A m \in M : now[1][m[1]] = pushed[1][m[1]] /\ now[2][m[2]] = pushed[2][m[2]]
  BY <1>1, ContinuesFacts DEF Paired
<1>4. \A m \in M, j \in Sides : Hour(j, m, now) = Hour(j, m, pushed)
  BY <1>3 DEF Hour, Sides
<1>5. \A m \in M : Present(m, now) = Present(m, pushed)
  BY <1>1, <1>4 DEF Present
<1>6. \A m \in M : \A k : KnownRow(k, m, now) <=> KnownRow(k, m, pushed)
  BY <1>4 DEF KnownRow
<1> QED BY <1>2, <1>4, <1>5, <1>6

LEMMA PairedFacts ==
  ASSUME plan \in Plans, NEW now, now \in [Sides -> Seq(Hours)], NEW M, Paired(M, now)
  PROVE  /\ IsFiniteSet(M)
         /\ \A m \in M : /\ m[1] \in DOMAIN now[1] /\ m[2] \in DOMAIN now[2] /\ m = <<m[1], m[2]>>
                         /\ \A j \in Sides : m[j] \in DOMAIN now[j] /\ Hour(j, m, now) \in Hours
                         /\ Present(m, now) \in SUBSET GridSources
         /\ \A j \in Sides : /\ CommonHours(j, M, now) \in SUBSET ((DOMAIN now[j]) \X GridSources)
                             /\ IsFiniteSet(CommonHours(j, M, now))
<1>1. 1 \in Sides /\ 2 \in Sides
  BY DEF Sides
<1>2. \A m \in M : m[1] \in DOMAIN now[1] /\ m[2] \in DOMAIN now[2] /\ m = <<m[1], m[2]>>
  BY FrameFacts DEF Paired
<1>3. \A m \in M, j \in Sides : m[j] \in DOMAIN now[j]
  BY <1>2 DEF Sides
<1>4. \A m \in M, j \in Sides : Hour(j, m, now) \in Hours /\ Hour(j, m, now).sources \in SUBSET GridSources
  BY <1>3, HourFacts DEF Hour
<1>5. \A m \in M : Present(m, now) \in SUBSET GridSources
  BY <1>1, <1>4 DEF Present
<1>6. IsFiniteSet((DOMAIN now[1]) \X (DOMAIN now[2]))
  BY <1>1, HourFacts, FS_Product
<1>7. M \in SUBSET ((DOMAIN now[1]) \X (DOMAIN now[2]))
  BY <1>2
<1>8. IsFiniteSet(M)
  BY <1>6, <1>7, FS_Subset
<1>9. ASSUME NEW j \in Sides
      PROVE  /\ CommonHours(j, M, now) \in SUBSET ((DOMAIN now[j]) \X GridSources)
             /\ IsFiniteSet(CommonHours(j, M, now))
  <2>1. \A m \in M : {m[j]} \X Present(m, now) \in SUBSET ((DOMAIN now[j]) \X GridSources)
    BY <1>3, <1>5
  <2>2. CommonHours(j, M, now) \in SUBSET ((DOMAIN now[j]) \X GridSources)
    BY <2>1 DEF CommonHours
  <2>3. IsFiniteSet((DOMAIN now[j]) \X GridSources)
    BY HourFacts, FS_Product, ComparisonAssumption
  <2> QED BY <2>2, <2>3, FS_Subset
<1> QED BY <1>2, <1>3, <1>4, <1>5, <1>8, <1>9

LEMMA RowUsesFinite ==
  ASSUME plan \in Plans, NEW now, now \in [Sides -> Seq(Hours)], NEW M, Paired(M, now), NEW j \in Sides, NEW k
  PROVE  IsFiniteSet(RowUses(k, j, M, now))
<1>1. RowHours(k, j, M, now) \in SUBSET (DOMAIN now[j])
  BY PairedFacts DEF RowHours, KnownPairs
<1>2. IsFiniteSet(RowHours(k, j, M, now)) /\ IsFiniteSet({k})
  BY <1>1, HourFacts, FS_Subset, FS_Singleton
<1> QED BY <1>2, FS_Product DEF RowUses

LEMMA OwnFacts ==
  ASSUME NEW i \in Sides, NEW new, NEW now, Continues(i, new, now)
  PROVE  LET own == { u \in (DOMAIN new) \X GridSources : u[2] \in new[u[1]].sources }
         IN /\ IsFiniteSet(own) /\ IsFiniteSet(OwnHours(i, pushed))
            /\ OwnHours(i, pushed) \cap own = {} /\ OwnHours(i, now) = OwnHours(i, pushed) \cup own
            /\ \A j \in Sides : j # i => OwnHours(j, now) = OwnHours(j, pushed)
<1> DEFINE own == { u \in (DOMAIN new) \X GridSources : u[2] \in new[u[1]].sources }
<1>1. DOMAIN now[i] = DOMAIN pushed[i] \cup DOMAIN new /\ DOMAIN pushed[i] \cap DOMAIN new = {}
  BY ContinuesFacts
<1>2. IsFiniteSet(DOMAIN pushed[i]) /\ IsFiniteSet(DOMAIN now[i]) /\ DOMAIN new \in SUBSET (DOMAIN now[i])
  BY <1>1, HourFacts DEF Continues
<1>3. IsFiniteSet(DOMAIN new)
  BY <1>2, FS_Subset
<1>4. IsFiniteSet((DOMAIN new) \X GridSources) /\ IsFiniteSet((DOMAIN pushed[i]) \X GridSources)
  BY <1>2, <1>3, FS_Product, ComparisonAssumption
<1>5. own \in SUBSET ((DOMAIN new) \X GridSources) /\ OwnHours(i, pushed) \in SUBSET ((DOMAIN pushed[i]) \X GridSources)
  BY DEF OwnHours
<1>6. IsFiniteSet(own) /\ IsFiniteSet(OwnHours(i, pushed))
  BY <1>4, <1>5, FS_Subset
<1>7. OwnHours(i, pushed) \cap own = {}
  BY <1>1, <1>5
<1>8. \A p \in DOMAIN pushed[i] : now[i][p] = pushed[i][p]
  BY ContinuesFacts
<1>9. \A p \in DOMAIN new : now[i][p] = new[p]
  BY DEF Continues
<1>10. OwnHours(i, now) = OwnHours(i, pushed) \cup own
  BY <1>1, <1>8, <1>9 DEF OwnHours
<1>11. \A j \in Sides : j # i => OwnHours(j, now) = OwnHours(j, pushed)
  BY ContinuesFacts DEF OwnHours
<1> QED BY <1>6, <1>7, <1>10, <1>11

LEMMA OwnRowFacts ==
  ASSUME NEW i \in Sides, NEW new, NEW now, Continues(i, new, now), NEW k
  PROVE  LET own == { p \in DOMAIN new : k \in new[p].rows }
         IN /\ IsFiniteSet(own) /\ IsFiniteSet(OwnRows(k, i, pushed))
            /\ OwnRows(k, i, pushed) \cap own = {} /\ OwnRows(k, i, now) = OwnRows(k, i, pushed) \cup own
            /\ \A j \in Sides : j # i => OwnRows(k, j, now) = OwnRows(k, j, pushed)
<1> DEFINE own == { p \in DOMAIN new : k \in new[p].rows }
<1>1. DOMAIN now[i] = DOMAIN pushed[i] \cup DOMAIN new /\ DOMAIN pushed[i] \cap DOMAIN new = {}
  BY ContinuesFacts
<1>2. IsFiniteSet(DOMAIN pushed[i]) /\ IsFiniteSet(DOMAIN now[i])
  BY HourFacts DEF Continues
<1>3. own \in SUBSET (DOMAIN now[i]) /\ own \in SUBSET (DOMAIN new) /\ OwnRows(k, i, pushed) \in SUBSET (DOMAIN pushed[i])
  BY <1>1 DEF OwnRows
<1>4. IsFiniteSet(own) /\ IsFiniteSet(OwnRows(k, i, pushed))
  BY <1>2, <1>3, FS_Subset
<1>5. \A p \in DOMAIN pushed[i] : now[i][p] = pushed[i][p]
  BY ContinuesFacts
<1>6. \A p \in DOMAIN new : now[i][p] = new[p]
  BY DEF Continues
<1>7. OwnRows(k, i, now) = OwnRows(k, i, pushed) \cup own
  BY <1>1, <1>5, <1>6 DEF OwnRows
<1>8. \A j \in Sides : j # i => OwnRows(k, j, now) = OwnRows(k, j, pushed)
  BY ContinuesFacts DEF OwnRows
<1> QED BY <1>1, <1>3, <1>4, <1>7, <1>8

(***************************************************************************)
(* What a chunk adds to the counters.                                       *)
(***************************************************************************)
LEMMA CommonAdds ==
  ASSUME plan \in Plans, NEW i \in Sides, NEW new, NEW now, Continues(i, new, now),
         NEW M, NEW D, Paired(M, pushed), Paired(D, now), M \cap D = {}
  PROVE  /\ Paired(M, now) /\ Paired(M \cup D, now)
         /\ \A j \in Sides :
              /\ IsFiniteSet(CommonHours(j, M, pushed)) /\ IsFiniteSet(CommonHours(j, D, now))
              /\ CommonHours(j, M, pushed) \cap CommonHours(j, D, now) = {}
              /\ CommonHours(j, M \cup D, now) = CommonHours(j, M, pushed) \cup CommonHours(j, D, now)
<1>1. pushed \in [Sides -> Seq(Hours)] /\ now \in [Sides -> Seq(Hours)]
  BY DEF Continues
<1>2. Paired(M, now) /\ \A m \in M : Present(m, now) = Present(m, pushed)
  BY PairsStay
<1>3. Paired(M \cup D, now)
  BY <1>2 DEF Paired
<1>4. ASSUME NEW j \in Sides
      PROVE  /\ IsFiniteSet(CommonHours(j, M, pushed)) /\ IsFiniteSet(CommonHours(j, D, now))
             /\ CommonHours(j, M, pushed) \cap CommonHours(j, D, now) = {}
             /\ CommonHours(j, M \cup D, now) = CommonHours(j, M, pushed) \cup CommonHours(j, D, now)
  <2>1. IsFiniteSet(CommonHours(j, M, pushed)) /\ IsFiniteSet(CommonHours(j, D, now))
    BY <1>1, PairedFacts
  <2>2. \A m \in M, n \in D : m[j] # n[j]
    <3>1. \A m \in M, n \in D : m \in SameFrame /\ n \in SameFrame /\ m # n
      BY DEF Paired
    <3> QED BY <3>1, FrameFacts DEF Sides
  <2>3. CommonHours(j, M, pushed) \cap CommonHours(j, D, now) = {}
    BY <2>2 DEF CommonHours
  <2>4. CommonHours(j, M \cup D, now) = CommonHours(j, M, pushed) \cup CommonHours(j, D, now)
    BY <1>2 DEF CommonHours
  <2> QED BY <2>1, <2>3, <2>4
<1> QED BY <1>2, <1>3, <1>4

LEMMA HouseStep ==
  ASSUME plan \in Plans, NEW i \in Sides, NEW new, NEW now, Continues(i, new, now),
         NEW M, NEW D, Paired(M, pushed), Paired(D, now), M \cap D = {}, house = HouseFor(pushed, M)
  PROVE  HouseAfter(i, new, now, D) = HouseFor(now, M \cup D)
<1> DEFINE own == { u \in (DOMAIN new) \X GridSources : u[2] \in new[u[1]].sources }
<1>1. /\ house.measured = [j \in Sides |-> Cardinality(OwnHours(j, pushed))]
      /\ house.common = Cardinality(CommonHours(1, M, pushed))
      /\ house.ownCost = [j \in Sides |-> Usage(OwnHours(j, pushed), j)]
      /\ house.commonCost = [j \in Sides |-> Usage(CommonHours(j, M, pushed), j)]
  BY DEF HouseFor
<1>2. HouseAfter(i, new, now, D) =
        [measured |-> [house.measured EXCEPT ![i] = @ + Cardinality(own)],
         common |-> house.common + Cardinality(CommonHours(1, D, now)),
         ownCost |-> [house.ownCost EXCEPT ![i] = AddUsage(@, own, i)],
         commonCost |-> [j \in Sides |-> AddUsage(house.commonCost[j], CommonHours(j, D, now), j)]]
  BY DEF HouseAfter
<1>3. /\ IsFiniteSet(own) /\ IsFiniteSet(OwnHours(i, pushed))
      /\ OwnHours(i, pushed) \cap own = {} /\ OwnHours(i, now) = OwnHours(i, pushed) \cup own
      /\ \A j \in Sides : j # i => OwnHours(j, now) = OwnHours(j, pushed)
  BY OwnFacts
<1> HIDE DEF own
<1>4. Cardinality(OwnHours(i, now)) = Cardinality(OwnHours(i, pushed)) + Cardinality(own)
      /\ Usage(OwnHours(i, now), i) = AddUsage(Usage(OwnHours(i, pushed), i), own, i)
  <2> DEFINE A == OwnHours(i, pushed)
  <2>1. IsFiniteSet(A) /\ IsFiniteSet(own) /\ A \cap own = {} /\ OwnHours(i, now) = A \cup own
    BY <1>3
  <2> HIDE DEF A
  <2>2. Cardinality(A \cup own) = Cardinality(A) + Cardinality(own)
    BY <2>1, CountsAdd
  <2>3. AddUsage(Usage(A, i), own, i) = Usage(A \cup own, i)
    BY <2>1, UsageAdds
  <2> QED BY <2>1, <2>2, <2>3 DEF A
<1>5. [house.measured EXCEPT ![i] = @ + Cardinality(own)] = [j \in Sides |-> Cardinality(OwnHours(j, now))]
  BY <1>1, <1>3, <1>4
<1>6. [house.ownCost EXCEPT ![i] = AddUsage(@, own, i)] = [j \in Sides |-> Usage(OwnHours(j, now), j)]
  BY <1>1, <1>3, <1>4
<1>7. \A j \in Sides :
         /\ IsFiniteSet(CommonHours(j, M, pushed)) /\ IsFiniteSet(CommonHours(j, D, now))
         /\ CommonHours(j, M, pushed) \cap CommonHours(j, D, now) = {}
         /\ CommonHours(j, M \cup D, now) = CommonHours(j, M, pushed) \cup CommonHours(j, D, now)
  BY CommonAdds
<1>8. house.common + Cardinality(CommonHours(1, D, now)) = Cardinality(CommonHours(1, M \cup D, now))
  <2> DEFINE A == CommonHours(1, M, pushed)
             B == CommonHours(1, D, now)
  <2>1. IsFiniteSet(A) /\ IsFiniteSet(B) /\ A \cap B = {} /\ CommonHours(1, M \cup D, now) = A \cup B
    BY <1>7 DEF Sides
  <2>2. house.common = Cardinality(A)
    BY <1>1
  <2> HIDE DEF A, B
  <2>3. Cardinality(A \cup B) = Cardinality(A) + Cardinality(B)
    BY <2>1, CountsAdd
  <2> QED BY <2>1, <2>2, <2>3 DEF B
<1>9. \A j \in Sides : AddUsage(house.commonCost[j], CommonHours(j, D, now), j) = Usage(CommonHours(j, M \cup D, now), j)
  <2> TAKE j \in Sides
  <2>1. AddUsage(Usage(CommonHours(j, M, pushed), j), CommonHours(j, D, now), j)
          = Usage(CommonHours(j, M, pushed) \cup CommonHours(j, D, now), j)
    BY <1>7, UsageAdds
  <2> QED BY <1>1, <1>7, <2>1
<1>10. [j \in Sides |-> AddUsage(house.commonCost[j], CommonHours(j, D, now), j)]
         = [j \in Sides |-> Usage(CommonHours(j, M \cup D, now), j)]
  BY <1>9
<1> QED BY <1>2, <1>5, <1>6, <1>8, <1>10 DEF HouseFor

LEMMA KnownAdds ==
  ASSUME plan \in Plans, NEW i \in Sides, NEW new, NEW now, Continues(i, new, now),
         NEW M, NEW D, Paired(M, pushed), Paired(D, now), M \cap D = {}, NEW k
  PROVE  /\ IsFiniteSet(KnownPairs(k, M, pushed)) /\ IsFiniteSet(KnownPairs(k, D, now))
         /\ KnownPairs(k, M, pushed) \cap KnownPairs(k, D, now) = {}
         /\ KnownPairs(k, M \cup D, now) = KnownPairs(k, M, pushed) \cup KnownPairs(k, D, now)
<1>1. pushed \in [Sides -> Seq(Hours)] /\ now \in [Sides -> Seq(Hours)]
  BY DEF Continues
<1>2. \A m \in M : KnownRow(k, m, now) <=> KnownRow(k, m, pushed)
  BY PairsStay
<1>3. KnownPairs(k, M, pushed) \in SUBSET M /\ KnownPairs(k, D, now) \in SUBSET D /\ IsFiniteSet(M) /\ IsFiniteSet(D)
  BY <1>1, PairedFacts DEF KnownPairs
<1>4. IsFiniteSet(KnownPairs(k, M, pushed)) /\ IsFiniteSet(KnownPairs(k, D, now))
      /\ KnownPairs(k, M, pushed) \cap KnownPairs(k, D, now) = {}
  BY <1>3, FS_Subset
<1>5. KnownPairs(k, M \cup D, now) = KnownPairs(k, M, pushed) \cup KnownPairs(k, D, now)
  BY <1>2 DEF KnownPairs
<1> QED BY <1>4, <1>5

LEMMA RowUsesAdd ==
  ASSUME plan \in Plans, NEW i \in Sides, NEW new, NEW now, Continues(i, new, now),
         NEW M, NEW D, Paired(M, pushed), Paired(D, now), M \cap D = {}, NEW k, NEW j \in Sides
  PROVE  /\ IsFiniteSet(RowUses(k, j, M, pushed)) /\ IsFiniteSet(RowUses(k, j, D, now))
         /\ RowUses(k, j, M, pushed) \cap RowUses(k, j, D, now) = {}
         /\ RowUses(k, j, M \cup D, now) = RowUses(k, j, M, pushed) \cup RowUses(k, j, D, now)
<1> DEFINE a == RowHours(k, j, M, pushed)
           b == RowHours(k, j, D, now)
<1>1. pushed \in [Sides -> Seq(Hours)] /\ now \in [Sides -> Seq(Hours)]
  BY DEF Continues
<1>2. IsFiniteSet(RowUses(k, j, M, pushed)) /\ IsFiniteSet(RowUses(k, j, D, now))
  BY <1>1, RowUsesFinite
<1>3. \A m \in M, n \in D : m[j] # n[j]
  <2>1. \A m \in M, n \in D : m \in SameFrame /\ n \in SameFrame /\ m # n
    BY DEF Paired
  <2> QED BY <2>1, FrameFacts DEF Sides
<1>4. a \cap b = {}
  BY <1>3 DEF RowHours, KnownPairs
<1>5. RowHours(k, j, M \cup D, now) = a \cup b
  BY KnownAdds DEF RowHours
<1> HIDE DEF a, b
<1>6. (a \X {k}) \cap (b \X {k}) = {} /\ (a \cup b) \X {k} = (a \X {k}) \cup (b \X {k})
  BY <1>4
<1> QED BY <1>2, <1>5, <1>6 DEF a, b, RowUses

LEMMA RowStep ==
  ASSUME plan \in Plans, NEW i \in Sides, NEW new, NEW now, Continues(i, new, now),
         NEW M, NEW D, Paired(M, pushed), Paired(D, now), M \cap D = {},
         NEW k, rows[k] = RowFor(k, pushed, M)
  PROVE  RowAfter(k, i, new, now, D) = RowFor(k, now, M \cup D)
<1> DEFINE own == { p \in DOMAIN new : k \in new[p].rows }
           known == { m \in D : KnownRow(k, m, now) }
           old == { p \in DOMAIN pushed[i] : k \in pushed[i][p].rows }
           same(m, h) == KnownRow(k, m, h) <=> Present(m, h) = GridSources
           alike == /\ rows[k].alike
                    /\ StructuralZero(k) \/ \A m \in D : KnownRow(k, m, now) <=> Present(m, now) = GridSources
           after == StructuralZero(k) \/ \A m \in M \cup D : KnownRow(k, m, now) <=> Present(m, now) = GridSources
<1>1. /\ rows[k].own = [j \in Sides |-> Cardinality(OwnRows(k, j, pushed))]
      /\ rows[k].common = Cardinality(KnownPairs(k, M, pushed))
      /\ rows[k].ownCost = [j \in Sides |-> Usage(OwnRows(k, j, pushed) \X {k}, j)]
      /\ rows[k].commonCost = [j \in Sides |-> Usage(RowUses(k, j, M, pushed), j)]
  BY DEF RowFor
<1>2. rows[k].alike = (StructuralZero(k) \/ \A m \in M : KnownRow(k, m, pushed) <=> Present(m, pushed) = GridSources)
  BY DEF RowFor
<1>3. known = KnownPairs(k, D, now)
  BY DEF KnownPairs
<1>4. RowAfter(k, i, new, now, D) =
        [own |-> [rows[k].own EXCEPT ![i] = @ + Cardinality(own)],
         common |-> rows[k].common + Cardinality(known),
         alike |-> alike,
         ownCost |-> [rows[k].ownCost EXCEPT ![i] = AddUsage(@, own \X {k}, i)],
         commonCost |-> [j \in Sides |-> AddUsage(rows[k].commonCost[j], { m[j] : m \in known } \X {k}, j)]]
  BY DEF RowAfter
<1>5. RowFor(k, now, M \cup D) =
        [own |-> [j \in Sides |-> Cardinality(OwnRows(k, j, now))],
         common |-> Cardinality(KnownPairs(k, M \cup D, now)),
         alike |-> after,
         ownCost |-> [j \in Sides |-> Usage(OwnRows(k, j, now) \X {k}, j)],
         commonCost |-> [j \in Sides |-> Usage(RowUses(k, j, M \cup D, now), j)]]
  BY DEF RowFor
<1>6. alike = after
  <2>1. \A m \in M : (KnownRow(k, m, now) <=> KnownRow(k, m, pushed)) /\ Present(m, now) = Present(m, pushed)
    BY PairsStay
  <2>2. alike <=> after
    BY <1>2, <2>1
  <2>3. alike \in BOOLEAN /\ after \in BOOLEAN
    BY <1>2
  <2> QED BY <2>2, <2>3
<1>7. /\ IsFiniteSet(own) /\ IsFiniteSet(OwnRows(k, i, pushed))
      /\ OwnRows(k, i, pushed) \cap own = {} /\ OwnRows(k, i, now) = OwnRows(k, i, pushed) \cup own
      /\ \A j \in Sides : j # i => OwnRows(k, j, now) = OwnRows(k, j, pushed)
  BY OwnRowFacts
<1>8. /\ IsFiniteSet(KnownPairs(k, M, pushed)) /\ IsFiniteSet(KnownPairs(k, D, now))
      /\ KnownPairs(k, M, pushed) \cap KnownPairs(k, D, now) = {}
      /\ KnownPairs(k, M \cup D, now) = KnownPairs(k, M, pushed) \cup KnownPairs(k, D, now)
  BY KnownAdds
<1> HIDE DEF own, known, alike, after
<1>9. [rows[k].own EXCEPT ![i] = @ + Cardinality(own)] = [j \in Sides |-> Cardinality(OwnRows(k, j, now))]
  <2>1. Cardinality(OwnRows(k, i, now)) = Cardinality(OwnRows(k, i, pushed)) + Cardinality(own)
    BY <1>7, CountsAdd
  <2> QED BY <1>1, <1>7, <2>1
<1>10. [rows[k].ownCost EXCEPT ![i] = AddUsage(@, own \X {k}, i)] = [j \in Sides |-> Usage(OwnRows(k, j, now) \X {k}, j)]
  <2> DEFINE A == OwnRows(k, i, pushed)
  <2>1. IsFiniteSet(A) /\ IsFiniteSet(own) /\ A \cap own = {} /\ OwnRows(k, i, now) = A \cup own
    BY <1>7
  <2> HIDE DEF A
  <2>2. IsFiniteSet(A \X {k}) /\ IsFiniteSet(own \X {k})
    <3>1. IsFiniteSet({k})
      BY FS_Singleton
    <3> QED BY <2>1, <3>1, FS_Product
  <2>3. (A \X {k}) \cap (own \X {k}) = {} /\ (A \cup own) \X {k} = (A \X {k}) \cup (own \X {k})
    BY <2>1
  <2>4. AddUsage(Usage(A \X {k}, i), own \X {k}, i) = Usage((A \X {k}) \cup (own \X {k}), i)
    BY <2>2, <2>3, UsageAdds
  <2>5. AddUsage(Usage(A \X {k}, i), own \X {k}, i) = Usage(OwnRows(k, i, now) \X {k}, i)
    BY <2>1, <2>3, <2>4
  <2>6. rows[k].ownCost[i] = Usage(A \X {k}, i)
    BY <1>1 DEF A
  <2>7. \A j \in Sides : j # i => rows[k].ownCost[j] = Usage(OwnRows(k, j, now) \X {k}, j)
    BY <1>1, <1>7
  <2>8. DOMAIN rows[k].ownCost = Sides /\ rows[k].ownCost = [j \in Sides |-> rows[k].ownCost[j]]
    BY <1>1
  <2> QED BY <2>5, <2>6, <2>7, <2>8
<1>11. rows[k].common + Cardinality(known) = Cardinality(KnownPairs(k, M \cup D, now))
  <2> DEFINE A == KnownPairs(k, M, pushed)
             B == KnownPairs(k, D, now)
  <2>1. IsFiniteSet(A) /\ IsFiniteSet(B) /\ A \cap B = {} /\ KnownPairs(k, M \cup D, now) = A \cup B
    BY <1>8
  <2>2. rows[k].common = Cardinality(A) /\ known = B
    BY <1>1, <1>3
  <2> HIDE DEF A, B
  <2>3. Cardinality(A \cup B) = Cardinality(A) + Cardinality(B)
    BY <2>1, CountsAdd
  <2> QED BY <2>1, <2>2, <2>3
<1>12. [j \in Sides |-> AddUsage(rows[k].commonCost[j], { m[j] : m \in known } \X {k}, j)]
         = [j \in Sides |-> Usage(RowUses(k, j, M \cup D, now), j)]
  <2>1. ASSUME NEW j \in Sides
        PROVE  AddUsage(rows[k].commonCost[j], { m[j] : m \in known } \X {k}, j)
                 = Usage(RowUses(k, j, M \cup D, now), j)
    <3> DEFINE A == RowUses(k, j, M, pushed)
               B == RowUses(k, j, D, now)
               C == RowUses(k, j, M \cup D, now)
    <3>1. IsFiniteSet(A) /\ IsFiniteSet(B) /\ A \cap B = {} /\ C = A \cup B
      BY RowUsesAdd
    <3>2. rows[k].commonCost[j] = Usage(A, j) /\ { m[j] : m \in known } \X {k} = B
      BY <1>1, <1>3 DEF RowUses, RowHours
    <3> HIDE DEF A, B, C
    <3>3. AddUsage(Usage(A, j), B, j) = Usage(C, j)
      BY <3>1, UsageAdds
    <3>4. AddUsage(rows[k].commonCost[j], { m[j] : m \in known } \X {k}, j) = AddUsage(Usage(A, j), B, j)
      BY <3>2
    <3> QED BY <3>3, <3>4 DEF C
  <2> QED BY <2>1
<1> QED BY <1>4, <1>5, <1>6, <1>9, <1>10, <1>11, <1>12

LEMMA MarksStep ==
  ASSUME plan \in Plans, NEW i \in Sides, NEW new, NEW now, Continues(i, new, now),
         NEW M, NEW D, Paired(M, pushed), Paired(D, now), M \cap D = {}, marks = MarksFor(pushed, M)
  PROVE  MarksAfter(i, new, now, D) = MarksFor(now, M \cup D)
<1> DEFINE whole == { m \in D : Present(m, now) = GridSources }
           proven(j, h) == \A p \in DOMAIN h[j] : h[j][p].partition
           added == \A p \in DOMAIN new : new[p].partition
           common(X, h) == /\ \A m \in X : Present(m, h) \in {{}, GridSources}
                           /\ \A m \in WholePairs(X, h), j \in Sides : Hour(j, m, h).partition
           after == /\ marks.common
                    /\ \A m \in D : Present(m, now) \in {{}, GridSources}
                    /\ \A m \in whole, j \in Sides : Hour(j, m, now).partition
<1>1. marks.partition = [j \in Sides |-> proven(j, pushed)] /\ marks.common = common(M, pushed)
      /\ marks.whole = Cardinality(WholePairs(M, pushed))
  BY DEF MarksFor
<1>2. MarksAfter(i, new, now, D) =
        [partition |-> [marks.partition EXCEPT ![i] = @ /\ added], common |-> after, whole |-> marks.whole + Cardinality(whole)]
  BY DEF MarksAfter
<1>3. MarksFor(now, M \cup D) =
        [partition |-> [j \in Sides |-> proven(j, now)], common |-> common(M \cup D, now),
         whole |-> Cardinality(WholePairs(M \cup D, now))]
  BY DEF MarksFor
<1>4. /\ \A m \in M : Present(m, now) = Present(m, pushed)
      /\ \A m \in M, j \in Sides : Hour(j, m, now) = Hour(j, m, pushed)
  BY PairsStay
<1>5. WholePairs(M \cup D, now) = WholePairs(M, pushed) \cup whole /\ whole = WholePairs(D, now)
  BY <1>4 DEF WholePairs
<1>6. marks.whole + Cardinality(whole) = Cardinality(WholePairs(M \cup D, now))
  <2>1. IsFiniteSet(M) /\ IsFiniteSet(D)
    BY PairedFacts DEF Continues
  <2>2. WholePairs(M, pushed) \in SUBSET M /\ whole \in SUBSET D
    BY DEF WholePairs
  <2>3. IsFiniteSet(WholePairs(M, pushed)) /\ IsFiniteSet(whole) /\ WholePairs(M, pushed) \cap whole = {}
    BY <2>1, <2>2, FS_Subset
  <2> HIDE DEF whole
  <2>4. Cardinality(WholePairs(M, pushed) \cup whole) = Cardinality(WholePairs(M, pushed)) + Cardinality(whole)
    BY <2>3, CountsAdd
  <2> QED BY <1>1, <1>5, <2>4
<1>7. after = common(M \cup D, now)
  <2>1. after <=> common(M \cup D, now)
    <3>1. marks.common <=> common(M, pushed)
      BY <1>1
    <3>2. (\A m \in M \cup D : Present(m, now) \in {{}, GridSources})
            <=> (\A m \in M : Present(m, pushed) \in {{}, GridSources}) /\ (\A m \in D : Present(m, now) \in {{}, GridSources})
      BY <1>4
    <3>3. (\A m \in WholePairs(M \cup D, now), j \in Sides : Hour(j, m, now).partition)
            <=> /\ \A m \in WholePairs(M, pushed), j \in Sides : Hour(j, m, pushed).partition
                /\ \A m \in whole, j \in Sides : Hour(j, m, now).partition
      <4>1. \A m \in WholePairs(M, pushed) : m \in M
        BY DEF WholePairs
      <4> HIDE DEF whole
      <4> QED BY <1>4, <1>5, <4>1
    <3> QED BY <3>1, <3>2, <3>3
  <2>2. after \in BOOLEAN /\ common(M \cup D, now) \in BOOLEAN
    BY <1>1
  <2> QED BY <2>1, <2>2
<1>8. [marks.partition EXCEPT ![i] = @ /\ added] = [j \in Sides |-> proven(j, now)]
  <2>1. (proven(i, pushed) /\ added) <=> proven(i, now)
    <3>1. DOMAIN now[i] = DOMAIN pushed[i] \cup DOMAIN new
      BY ContinuesFacts
    <3>2. \A p \in DOMAIN pushed[i] : now[i][p] = pushed[i][p]
      BY DEF Continues
    <3>3. \A p \in DOMAIN new : now[i][p] = new[p]
      BY DEF Continues
    <3> QED BY <3>1, <3>2, <3>3
  <2>2. \A j \in Sides : j # i => (proven(j, now) <=> proven(j, pushed))
    BY ContinuesFacts
  <2> DEFINE P == [j \in Sides |-> proven(j, pushed)]
             Q == [j \in Sides |-> proven(j, now)]
             R == [marks.partition EXCEPT ![i] = @ /\ added]
  <2>3. \A j \in Sides : (P[j] <=> proven(j, pushed)) /\ (Q[j] <=> proven(j, now)) /\ P[j] \in BOOLEAN /\ Q[j] \in BOOLEAN
    OBVIOUS
  <2>4. DOMAIN R = Sides /\ R[i] = (P[i] /\ added) /\ \A j \in Sides : j # i => R[j] = P[j]
    BY <1>1
  <2>5. \A j \in Sides : R[j] \in BOOLEAN
    BY <2>3, <2>4
  <2>6. \A j \in Sides : R[j] <=> Q[j]
    BY <2>1, <2>2, <2>3, <2>4
  <2>7. \A j \in Sides : R[j] = Q[j]
    BY <2>3, <2>5, <2>6
  <2>8. R = [j \in Sides |-> R[j]] /\ Q = [j \in Sides |-> Q[j]]
    BY <1>1
  <2> HIDE DEF R, Q
  <2>9. R = Q
    BY <2>7, <2>8
  <2> QED BY <2>9 DEF R, Q
<1> QED BY <1>2, <1>3, <1>6, <1>7, <1>8

(***************************************************************************)
(* Reading a chunk.                                                         *)
(***************************************************************************)
LEMMA SamePlan ==
  ASSUME plan' = plan
  PROVE  /\ \A i : Grid(i)' = Grid(i)
         /\ SameFrame' = SameFrame /\ SharedFrames' = SharedFrames
         /\ Aligned' <=> Aligned
<1>1. \A i : Grid(i)' = Grid(i)
  BY DEF Grid
<1>2. SameFrame' = SameFrame /\ SharedFrames' = SharedFrames
  BY DEF SameFrame, SharedFrames, Grid
<1>3. Aligned' <=> Aligned
  BY <1>2 DEF Aligned, Place, Grid
<1> QED BY <1>1, <1>2, <1>3

(* The counters of the next state, for the hours and heads it has.           *)
LEMMA CountersNext ==
  ASSUME plan' = plan, NEW now, NEW at, pushed' = now, heads' = at
  PROVE  /\ (HouseFor(pushed, MatchedAt(heads)))' = HouseFor(now, MatchedAt(at))
         /\ \A k \in GroupKeys : (RowFor(k, pushed, MatchedAt(heads)))' = RowFor(k, now, MatchedAt(at))
         /\ (MarksFor(pushed, MatchedAt(heads)))' = MarksFor(now, MatchedAt(at))
<1>1. SameFrame' = SameFrame /\ (Aligned' <=> Aligned)
  BY SamePlan
<1>2. MatchedAt(heads)' = MatchedAt(at)
  BY <1>1 DEF MatchedAt, Behind
<1>3. (HouseFor(pushed, MatchedAt(heads)))' = HouseFor(now, MatchedAt(at))
  BY <1>2 DEF HouseFor, Usage, AddUsage, NoUsage, CommonHours, Present, Hour, OwnHours
<1>4. ASSUME NEW k \in GroupKeys
      PROVE  (RowFor(k, pushed, MatchedAt(heads)))' = RowFor(k, now, MatchedAt(at))
  BY <1>2 DEF RowFor, Usage, AddUsage, NoUsage, RowUses, RowHours, KnownPairs, KnownRow, Present, Hour, OwnRows, StructuralZero
<1>5. (MarksFor(pushed, MatchedAt(heads)))' = MarksFor(now, MatchedAt(at))
  BY <1>2 DEF MarksFor, WholePairs, Present, Hour
<1> QED BY <1>3, <1>4, <1>5

(* The chunk new of the side that is needed makes now of what was read.      *)
ChunkOf(i, new, now) ==
  LET stop == Min({Cursor(i) + ChunkHours, Len(Grid(i))})
  IN /\ i = Min(NeedsSide)
     /\ new \in [Cursor(i) + 1 .. stop -> { h \in HourShapes : Accepted(h) }]
     /\ now = [pushed EXCEPT ![i] = [p \in 1..stop |-> IF p \in DOMAIN new THEN new[p] ELSE @[p]]]

LEMMA ChunkFacts ==
  ASSUME ComparisonType, HeadsInv, NeedsSide # {}, NEW i, NEW new, NEW now, ChunkOf(i, new, now)
  PROVE  /\ i \in Sides /\ Continues(i, new, now)
         /\ Chunks(heads, [j \in Sides |-> Len(now[j])])
         /\ \A j \in Sides : Len(now[j]) <= Len(Grid(j))
<1> DEFINE stop == Min({Cursor(i) + ChunkHours, Len(Grid(i))})
<1>19. /\ i = Min(NeedsSide)
       /\ new \in [Cursor(i) + 1 .. stop -> { h \in HourShapes : Accepted(h) }]
       /\ now = [pushed EXCEPT ![i] = [p \in 1..stop |-> IF p \in DOMAIN new THEN new[p] ELSE @[p]]]
  BY DEF ChunkOf
<1>20. stop = Min({Cursor(i) + ChunkHours, Len(Grid(i))})
  OBVIOUS
<1> HIDE DEF stop
<1>1. i \in Sides /\ ~HasChunk(i) /\ ~AtEnd(i)
  <2>1. NeedsSide \in SUBSET Nat
    BY DEF NeedsSide, Sides
  <2>2. i \in NeedsSide
    BY <1>19, <2>1, MinFacts
  <2> QED BY <2>2 DEF NeedsSide
<1>2. /\ pushed \in [Sides -> Seq(Hours)] /\ heads \in [Sides -> Nat] /\ plan \in Plans
      /\ \A j \in Sides : heads[j] <= Len(pushed[j]) /\ Len(pushed[j]) <= Len(Grid(j))
  BY DEF ComparisonType, Cursor
<1>3. \A j \in Sides : Len(pushed[j]) \in Nat /\ DOMAIN pushed[j] = 1..Len(pushed[j]) /\ Len(Grid(j)) \in Nat
  BY <1>2, HourFacts, PlanFacts
<1>4. Len(pushed[i]) # Len(Grid(i)) /\ Cursor(i) = Len(pushed[i])
  BY <1>1 DEF AtEnd, Cursor
<1>5. stop \in Nat /\ Len(pushed[i]) <= stop /\ stop <= Len(Grid(i))
  <2> DEFINE S == {Cursor(i) + ChunkHours, Len(Grid(i))}
  <2>1. S \in SUBSET Nat /\ S # {} /\ Len(Grid(i)) \in S
    BY <1>1, <1>3, <1>4, ComparisonAssumption
  <2>2. \A n \in S : Len(pushed[i]) <= n
    BY <1>1, <1>2, <1>3, <1>4, ComparisonAssumption
  <2> HIDE DEF S
  <2>3. Min(S) \in S /\ Min(S) \in Nat /\ Min(S) <= Len(Grid(i))
    BY <2>1, MinFacts
  <2>4. stop = Min(S)
    BY <1>20 DEF S
  <2> QED BY <2>2, <2>3, <2>4
<1>6. new \in [Len(pushed[i]) + 1 .. stop -> Hours] /\ DOMAIN new = Len(pushed[i]) + 1 .. stop
  BY <1>4, <1>19, ComparisonAssumption
<1> DEFINE L == Len(pushed[i])
<1>18. L \in Nat /\ DOMAIN pushed[i] = 1..L /\ DOMAIN new = L + 1 .. stop /\ L <= stop
  BY <1>1, <1>3, <1>5, <1>6
<1> HIDE DEF L
<1> DEFINE chunk == [p \in 1..stop |-> IF p \in DOMAIN new THEN new[p] ELSE pushed[i][p]]
<1>7. chunk \in [1..stop -> Hours]
  <2>1. \A p \in 1..stop : p \notin DOMAIN new => p \in DOMAIN pushed[i]
    BY <1>5, <1>18
  <2>2. \A p \in DOMAIN pushed[i] : pushed[i][p] \in Hours
    BY <1>1, <1>2, HourFacts
  <2>3. \A p \in DOMAIN new : new[p] \in Hours
    BY <1>6
  <2> QED BY <2>1, <2>2, <2>3
<1>8. chunk \in Seq(Hours)
  <2> HIDE DEF chunk
  <2>1. chunk \in UNION { [1..n -> Hours] : n \in Nat }
    BY <1>5, <1>7
  <2>2. Seq(Hours) = UNION { [1..n -> Hours] : n \in Nat }
    BY SeqDef
  <2> QED BY <2>1, <2>2
<1>9. Len(chunk) = stop
  <2>1. Len(chunk) \in Nat /\ DOMAIN chunk = 1..Len(chunk)
    BY <1>8, LenProperties
  <2>2. DOMAIN chunk = 1..stop
    OBVIOUS
  <2> HIDE DEF chunk
  <2> DEFINE n == Len(chunk)
             s == stop
  <2>3. n \in Nat /\ s \in Nat /\ 1..n = 1..s
    BY <1>5, <2>1, <2>2
  <2> HIDE DEF n, s
  <2>4. n = s
    <3>1. n <= s
      <4>1. CASE n = 0
        BY <2>3, <4>1
      <4>2. CASE n # 0
        <5>1. n \in 1..n
          BY <2>3, <4>2
        <5> QED BY <2>3, <5>1
      <4> QED BY <4>1, <4>2
    <3>2. s <= n
      <4>1. CASE s = 0
        BY <2>3, <4>1
      <4>2. CASE s # 0
        <5>1. s \in 1..s
          BY <2>3, <4>2
        <5> QED BY <2>3, <5>1
      <4> QED BY <4>1, <4>2
    <3> QED BY <2>3, <3>1, <3>2
  <2> QED BY <2>4 DEF n, s
<1>10. now = [pushed EXCEPT ![i] = chunk]
  BY <1>19
<1>11. \A p \in 1..stop : p \in DOMAIN pushed[i] => chunk[p] = pushed[i][p]
  <2> TAKE p \in 1..stop
  <2> HAVE p \in DOMAIN pushed[i]
  <2>1. p \notin DOMAIN new
    BY <1>5, <1>18
  <2> QED BY <2>1
<1>12. \A p \in DOMAIN new : p \in 1..stop /\ chunk[p] = new[p]
  <2> TAKE p \in DOMAIN new
  <2>1. p \in 1..stop
    BY <1>5, <1>18
  <2> QED BY <2>1
<1> HIDE DEF chunk
<1>13. now \in [Sides -> Seq(Hours)] /\ now[i] = chunk /\ \A j \in Sides : j # i => now[j] = pushed[j]
  BY <1>1, <1>2, <1>8, <1>10
<1>14. Continues(i, new, now)
  <2>1. Cursor(i) <= Len(now[i])
    BY <1>4, <1>5, <1>9, <1>13
  <2>2. new \in [Cursor(i) + 1 .. Len(now[i]) -> Hours]
    BY <1>4, <1>6, <1>9, <1>13
  <2>3. \A p \in DOMAIN pushed[i] : now[i][p] = pushed[i][p]
    <3>1. \A p \in DOMAIN pushed[i] : p \in 1..stop
      BY <1>5, <1>18
    <3> QED BY <3>1, <1>11, <1>13
  <2>4. \A p \in DOMAIN new : now[i][p] = new[p]
    BY <1>12, <1>13
  <2> QED BY <1>2, <1>13, <2>1, <2>2, <2>3, <2>4 DEF Continues
<1>15. \A j \in Sides : Len(now[j]) \in Nat /\ Len(pushed[j]) <= Len(now[j]) /\ Len(now[j]) <= Len(Grid(j))
  <2> TAKE j \in Sides
  <2>1. Len(pushed[j]) \in Nat /\ Len(pushed[j]) <= Len(Grid(j))
    BY <1>2, <1>3
  <2>2. CASE j = i
    BY <1>5, <1>9, <1>13, <2>2
  <2>3. CASE j # i
    BY <1>13, <2>1, <2>3
  <2> QED BY <2>2, <2>3
<1>16. \A j \in Sides : heads[j] \in Nat /\ heads[j] <= Len(now[j])
  <2> TAKE j \in Sides
  <2>1. heads[j] \in Nat /\ Len(pushed[j]) \in Nat /\ Len(now[j]) \in Nat
    BY <1>2, <1>3, <1>15
  <2>2. heads[j] <= Len(pushed[j])
    BY <1>2
  <2>3. Len(pushed[j]) <= Len(now[j])
    BY <1>15
  <2> DEFINE a == heads[j]
             b == Len(pushed[j])
             c == Len(now[j])
  <2>4. a \in Nat /\ b \in Nat /\ c \in Nat /\ a <= b /\ b <= c
    BY <2>1, <2>2, <2>3
  <2> HIDE DEF a, b, c
  <2>5. a \in Nat /\ a <= c
    BY <2>4
  <2> QED BY <2>5 DEF a, c
<1>17. Chunks(heads, [j \in Sides |-> Len(now[j])])
  BY <1>2, <1>15, <1>16 DEF Chunks
<1> QED BY <1>1, <1>14, <1>15, <1>17

LEMMA ReadsKeeps ==
  ASSUME ComparisonInv, ReadsChunk
  PROVE  ComparisonInv'
<1> DEFINE i == Min(NeedsSide)
           stop == Min({Cursor(i) + ChunkHours, Len(Grid(i))})
           Now(new) == [pushed EXCEPT ![i] = [p \in 1..stop |-> IF p \in DOMAIN new THEN new[p] ELSE @[p]]]
           Ends(now) == [j \in Sides |-> Len(now[j])]
<1>1. /\ ComparisonType /\ HeadsInv /\ CountersInv /\ OutcomeInv
      /\ compared.status = "reading" /\ NeedsSide # {}
      /\ plan' = plan /\ compared' = compared
  BY DEF ComparisonInv, ReadsChunk
<1>2. PICK new \in [Cursor(i) + 1 .. stop -> { h \in HourShapes : Accepted(h) }] :
        /\ pushed' = Now(new)
        /\ heads' = Drain(heads, Ends(Now(new))).at
        /\ house' = HouseAfter(i, new, Now(new), Drain(heads, Ends(Now(new))).matched)
        /\ rows' = [k \in GroupKeys |-> RowAfter(k, i, new, Now(new), Drain(heads, Ends(Now(new))).matched)]
        /\ marks' = MarksAfter(i, new, Now(new), Drain(heads, Ends(Now(new))).matched)
  BY DEF ReadsChunk
<1> DEFINE now == Now(new)
           to == Ends(now)
           d == Drain(heads, to)
           M == MatchedAt(heads)
           D == d.matched
<1>4. /\ pushed' = now /\ heads' = d.at
      /\ house' = HouseAfter(i, new, now, D)
      /\ rows' = [k \in GroupKeys |-> RowAfter(k, i, new, now, D)]
      /\ marks' = MarksAfter(i, new, now, D)
  BY <1>2
<1>5. to = [j \in Sides |-> Len(now[j])] /\ \A j \in Sides : to[j] = Len(now[j])
  OBVIOUS
<1>15. ChunkOf(i, new, now)
  BY <1>2 DEF ChunkOf
<1> HIDE DEF i, stop, Now, Ends, now, to, d, D
<1>3. /\ i \in Sides /\ Continues(i, new, now) /\ Chunks(heads, to)
      /\ \A j \in Sides : Len(now[j]) <= Len(Grid(j))
  <2>1. i \in Sides /\ Continues(i, new, now)
    BY <1>1, <1>15, ChunkFacts
  <2>2. Chunks(heads, [j \in Sides |-> Len(now[j])])
    BY <1>1, <1>15, ChunkFacts
  <2>3. \A j \in Sides : Len(now[j]) <= Len(Grid(j))
    BY <1>1, <1>15, ChunkFacts
  <2> QED BY <1>5, <2>1, <2>2, <2>3
<1>6. plan \in Plans /\ pushed \in [Sides -> Seq(Hours)] /\ heads \in [Sides -> Nat] /\ now \in [Sides -> Seq(Hours)]
      /\ \A j \in Sides : heads[j] <= Len(pushed[j])
  BY <1>1, <1>3 DEF ComparisonType, Continues, Cursor
<1>7. /\ d.at \in [Sides -> Nat] /\ \A j \in Sides : heads[j] <= d.at[j] /\ d.at[j] <= to[j]
      /\ Aligned => NoCrossing(d.at)
      /\ Spent(d.at, to)
      /\ MatchedAt(d.at) = M \cup D
      /\ M \cap D = {}
  BY <1>1, <1>3, <1>6, DrainFacts DEF HeadsInv, d, D
<1> HIDE DEF M
<1>8. 1 \in Sides /\ 2 \in Sides
  BY DEF Sides
<1>9. Paired(M, pushed)
  <2>1. M \in SUBSET SameFrame /\ \A m \in M : m[1] <= heads[1] /\ m[2] <= heads[2]
    BY DEF M, MatchedAt, Behind
  <2>2. \A m \in M : m[1] \in 1..Len(Grid(1)) /\ m[2] \in 1..Len(Grid(2))
    BY <1>6, <2>1, FrameFacts
  <2>3. \A j \in Sides : Len(pushed[j]) \in Nat /\ DOMAIN pushed[j] = 1..Len(pushed[j]) /\ heads[j] \in Nat /\ Len(Grid(j)) \in Nat
    BY <1>6, HourFacts, PlanFacts
  <2>4. \A m \in M : m[1] \in 1..Len(pushed[1]) /\ m[2] \in 1..Len(pushed[2])
    BY <1>6, <1>8, <2>1, <2>2, <2>3
  <2> QED BY <1>8, <2>1, <2>3, <2>4 DEF Paired
<1>10. Paired(D, now)
  <2>1. D \in SUBSET SameFrame /\ \A m \in D : m[1] <= d.at[1] /\ m[2] <= d.at[2]
    <3>1. MatchedAt(d.at) \in SUBSET SameFrame /\ \A m \in MatchedAt(d.at) : m[1] <= d.at[1] /\ m[2] <= d.at[2]
      BY DEF MatchedAt, Behind
    <3> QED BY <1>7, <3>1
  <2>2. \A m \in D : m[1] \in 1..Len(Grid(1)) /\ m[2] \in 1..Len(Grid(2))
    BY <1>6, <2>1, FrameFacts
  <2>3. \A j \in Sides : Len(now[j]) \in Nat /\ DOMAIN now[j] = 1..Len(now[j]) /\ d.at[j] \in Nat /\ d.at[j] <= Len(now[j]) /\ Len(Grid(j)) \in Nat
    BY <1>5, <1>6, <1>7, HourFacts, PlanFacts
  <2>4. \A m \in D : m[1] \in 1..Len(now[1]) /\ m[2] \in 1..Len(now[2])
    BY <1>8, <2>1, <2>2, <2>3
  <2> QED BY <1>8, <2>1, <2>3, <2>4 DEF Paired
<1>11. ComparisonType'
  <2>1. Plans' = Plans /\ \A j : Grid(j)' = Grid(j)
    BY <1>1, SamePlan DEF Plans
  <2>2. \A j \in Sides : heads'[j] <= Len(pushed'[j]) /\ Len(pushed'[j]) <= Len(Grid(j)')
    BY <1>3, <1>4, <1>5, <1>7, <2>1
  <2> QED BY <1>1, <1>4, <1>6, <1>7, <2>1, <2>2 DEF ComparisonType, Cursor
<1>12. HeadsInv'
  <2>1. SameFrame' = SameFrame /\ (Aligned' <=> Aligned) /\ \A j : Grid(j)' = Grid(j)
    BY <1>1, SamePlan
  <2>2. (Aligned => NoCrossing(heads))'
    BY <1>4, <1>7, <2>1 DEF NoCrossing
  <2>3. \A j \in Sides : Cursor(j)' = to[j]
    BY <1>4, <1>5 DEF Cursor
  <2>4. Spent(heads, [j \in Sides |-> Cursor(j)])'
    BY <1>4, <1>7, <2>1, <2>3 DEF Spent, Sides
  <2> QED BY <2>2, <2>4 DEF HeadsInv
<1>13. CountersInv'
  <2>1. house = HouseFor(pushed, M) /\ marks = MarksFor(pushed, M) /\ \A k \in GroupKeys : rows[k] = RowFor(k, pushed, M)
    BY <1>1 DEF CountersInv, M
  <2>2. house' = HouseFor(now, MatchedAt(d.at))
    BY <1>3, <1>4, <1>6, <1>7, <1>9, <1>10, <2>1, HouseStep
  <2>3. marks' = MarksFor(now, MatchedAt(d.at))
    BY <1>3, <1>4, <1>6, <1>7, <1>9, <1>10, <2>1, MarksStep
  <2>4. \A k \in GroupKeys : RowAfter(k, i, new, now, D) = RowFor(k, now, MatchedAt(d.at))
    <3> TAKE k \in GroupKeys
    <3>1. rows[k] = RowFor(k, pushed, M)
      BY <2>1
    <3>2. i \in Sides /\ Continues(i, new, now) /\ plan \in Plans /\ Paired(M, pushed) /\ Paired(D, now) /\ M \cap D = {}
      BY <1>3, <1>6, <1>7, <1>9, <1>10
    <3>3. RowAfter(k, i, new, now, D) = RowFor(k, now, M \cup D)
      BY <3>1, <3>2, RowStep
    <3> QED BY <1>7, <3>3
  <2>5. rows' = [k \in GroupKeys |-> RowFor(k, now, MatchedAt(d.at))]
    BY <1>4, <2>4
  <2>6. /\ (HouseFor(pushed, MatchedAt(heads)))' = HouseFor(now, MatchedAt(d.at))
        /\ \A k \in GroupKeys : (RowFor(k, pushed, MatchedAt(heads)))' = RowFor(k, now, MatchedAt(d.at))
        /\ (MarksFor(pushed, MatchedAt(heads)))' = MarksFor(now, MatchedAt(d.at))
    BY <1>1, <1>4, CountersNext
  <2> QED BY <2>2, <2>3, <2>5, <2>6 DEF CountersInv
<1>14. OutcomeInv'
  <2>1. compared = [status |-> "reading"]
    BY <1>1 DEF OutcomeInv, Outcome
  <2> QED BY <1>1, <2>1 DEF OutcomeInv
<1> QED BY <1>11, <1>12, <1>13, <1>14 DEF ComparisonInv

(***************************************************************************)
(* Finishing, the first state and every state.                              *)
(***************************************************************************)
LEMMA ReadInFull ==
  ASSUME ComparisonType, HeadsInv, NeedsSide = {}
  PROVE  \A i \in Sides : Complete(i)
<1> DEFINE c1 == Cursor(1)
           c2 == Cursor(2)
           g1 == Len(Grid(1))
           g2 == Len(Grid(2))
           h1 == heads[1]
           h2 == heads[2]
<1>1. 1 \in Sides /\ 2 \in Sides /\ Sides = {1, 2} /\ 3 - 1 = 2 /\ 3 - 2 = 1
  BY DEF Sides
<1>2. /\ h1 \in Nat /\ h2 \in Nat /\ h1 <= c1 /\ h2 <= c2 /\ c1 <= g1 /\ c2 <= g2
  BY <1>1 DEF ComparisonType
<1>3. c1 \in Nat /\ c2 \in Nat /\ g1 \in Nat /\ g2 \in Nat
  BY <1>1, HourFacts, PlanFacts DEF ComparisonType, Cursor
<1>4. (h1 < c1 \/ c1 = g1) /\ (h2 < c2 \/ c2 = g2)
  BY <1>1 DEF NeedsSide, HasChunk, AtEnd
<1> DEFINE ends == [i \in Sides |-> Cursor(i)]
<1>5. /\ heads[1] = ends[1] \/ heads[2] = ends[2]
      /\ heads[1] = ends[1] /\ ends[1] = Len(Grid(1)) => heads[2] = ends[2]
      /\ heads[2] = ends[2] /\ ends[2] = Len(Grid(2)) => heads[1] = ends[1]
  <2>1. Spent(heads, ends)
    BY DEF HeadsInv
  <2> HIDE DEF ends
  <2>2. /\ \E i \in Sides : heads[i] = ends[i]
        /\ \A i \in Sides : heads[i] = ends[i] /\ ends[i] = Len(Grid(i)) => heads[3 - i] = ends[3 - i]
    BY <2>1 DEF Spent
  <2> QED BY <1>1, <2>2
<1>6. ends[1] = c1 /\ ends[2] = c2
  BY <1>1
<1>7. /\ h1 = c1 \/ h2 = c2
      /\ h1 = c1 /\ c1 = g1 => h2 = c2
      /\ h2 = c2 /\ c2 = g2 => h1 = c1
  BY <1>5, <1>6
<1> HIDE DEF c1, c2, g1, g2, h1, h2, ends
<1>8. h1 = c1 /\ c1 = g1 /\ h2 = c2 /\ c2 = g2 /\ ~(h1 < c1) /\ ~(h2 < c2)
  BY <1>2, <1>3, <1>4, <1>7
<1> QED BY <1>1, <1>8 DEF Complete, AtEnd, HasChunk, c1, c2, g1, g2, h1, h2

LEMMA OutcomeStays ==
  ASSUME UNCHANGED <<plan, pushed, heads, house, rows, marks>>
  PROVE  Outcome' = Outcome /\ \A i : Complete(i)' <=> Complete(i)
<1>1. \A i : Grid(i)' = Grid(i)
  BY SamePlan
<1>2. \A i : Complete(i)' <=> Complete(i)
  BY <1>1 DEF Complete, AtEnd, HasChunk, Cursor
<1>3. (Aligned' <=> Aligned) /\ HouseHours' = HouseHours /\ (HouseComplete' <=> HouseComplete)
  BY SamePlan DEF HouseComplete, HouseHours, Grid
<1>4. HouseReady' <=> HouseReady
  BY <1>3 DEF HouseReady, Enough
<1>5. HouseCosts' = HouseCosts
  BY <1>1, <1>3, <1>4 DEF HouseCosts, FinishUsage, PeriodIdentities
<1>6. BothPriced(HouseCosts)' <=> BothPriced(HouseCosts)
  BY <1>5 DEF BothPriced
<1>7. \A k \in GroupKeys : (RowComplete(k)' <=> RowComplete(k)) /\ (StructuralZero(k)' <=> StructuralZero(k))
  BY <1>1 DEF RowComplete, StructuralZero
<1>8. \A k \in GroupKeys : RowReady(k)' <=> RowReady(k)
  BY <1>1, <1>3, <1>7 DEF RowReady, Enough
<1>9. \A k \in GroupKeys : SameSelection(k)' <=> SameSelection(k)
  BY <1>7, <1>8 DEF SameSelection
<1>10. Reconciles' <=> Reconciles
  BY <1>3, <1>4, <1>7, <1>9 DEF Reconciles
<1>11. \A k \in GroupKeys, i \in Sides : RowCost(k, i)' = RowCost(k, i)
  BY <1>7 DEF RowCost
<1>12. CostsReconcile' <=> CostsReconcile
  BY <1>3, <1>5, <1>6, <1>7, <1>8, <1>10, <1>11 DEF CostsReconcile, FinishUsage
<1> QED BY <1>2, <1>3, <1>4, <1>6, <1>10, <1>12 DEF Outcome, BothPriced, Reconciles, CostsReconcile

LEMMA CountersStay ==
  ASSUME CountersInv, ComparisonType, HeadsInv, UNCHANGED <<plan, pushed, heads, house, rows, marks>>
  PROVE  ComparisonType' /\ HeadsInv' /\ CountersInv'
<1>1. SameFrame' = SameFrame /\ (Aligned' <=> Aligned) /\ \A j : Grid(j)' = Grid(j)
  BY SamePlan
<1>2. ComparisonType'
  BY <1>1 DEF ComparisonType, Plans, Cursor
<1>3. HeadsInv'
  BY <1>1 DEF HeadsInv, NoCrossing, Spent, Cursor
<1>4. /\ (HouseFor(pushed, MatchedAt(heads)))' = HouseFor(pushed, MatchedAt(heads))
      /\ \A k \in GroupKeys : (RowFor(k, pushed, MatchedAt(heads)))' = RowFor(k, pushed, MatchedAt(heads))
      /\ (MarksFor(pushed, MatchedAt(heads)))' = MarksFor(pushed, MatchedAt(heads))
  BY CountersNext
<1>5. CountersInv'
  BY <1>4 DEF CountersInv
<1> QED BY <1>2, <1>3, <1>5

LEMMA FinishesKeeps ==
  ASSUME ComparisonInv, Finishes
  PROVE  ComparisonInv'
<1>1. ComparisonType /\ HeadsInv /\ CountersInv /\ NeedsSide = {} /\ UNCHANGED <<plan, pushed, heads, house, rows, marks>>
  BY DEF ComparisonInv, Finishes
<1>2. \A i \in Sides : Complete(i)
  BY <1>1, ReadInFull
<1>3. compared' = Outcome
  BY <1>2 DEF Finishes, Outcome
<1>4. Outcome' = Outcome /\ \A i : Complete(i)' <=> Complete(i)
  BY <1>1, OutcomeStays
<1>5. OutcomeInv'
  BY <1>2, <1>3, <1>4 DEF OutcomeInv
<1> QED BY <1>1, <1>5, CountersStay DEF ComparisonInv

LEMMA StutterKeeps ==
  ASSUME ComparisonInv, UNCHANGED comparisonVars
  PROVE  ComparisonInv'
<1>1. ComparisonType /\ HeadsInv /\ CountersInv /\ OutcomeInv /\ UNCHANGED <<plan, pushed, heads, house, rows, marks>> /\ compared' = compared
  BY DEF ComparisonInv, comparisonVars
<1>2. Outcome' = Outcome /\ \A i : Complete(i)' <=> Complete(i)
  BY <1>1, OutcomeStays
<1>3. OutcomeInv'
  BY <1>1, <1>2 DEF OutcomeInv
<1> QED BY <1>1, <1>3, CountersStay DEF ComparisonInv

LEMMA ComparisonStart ==
  ASSUME ComparisonInit
  PROVE  ComparisonInv
<1>1. plan \in Plans /\ pushed = Both(<< >>) /\ heads = Both(0)
  BY DEF ComparisonInit
<1>2. 1 \in Sides /\ 2 \in Sides /\ Sides = {1, 2} /\ \A i \in Sides : 3 - i \in Sides
  BY DEF Sides
<1>3. \A i \in Sides : heads[i] = 0 /\ pushed[i] = << >> /\ Cursor(i) = 0 /\ Len(Grid(i)) \in Nat \ {0}
  BY <1>1, PlanFacts DEF Both, Cursor
<1>4. ComparisonType
  <2>1. pushed \in [Sides -> Seq(Hours)]
    BY <1>1, EmptySeq DEF Both
  <2>2. heads \in [Sides -> Nat]
    BY <1>1 DEF Both
  <2> QED BY <1>1, <1>3, <2>1, <2>2 DEF ComparisonType
<1>5. \A m \in SameFrame : m[1] \in Nat \ {0} /\ m[2] \in Nat \ {0}
  BY <1>1, FrameFacts, PlanFacts
<1>6. HeadsInv
  <2>1. Aligned => NoCrossing(heads)
    BY <1>2, <1>3, <1>5 DEF NoCrossing
  <2> DEFINE ends == [i \in Sides |-> Cursor(i)]
  <2>2. \A i \in Sides : ends[i] = 0 /\ heads[i] = 0
    BY <1>3
  <2> HIDE DEF ends
  <2>3. Spent(heads, ends)
    BY <1>2, <1>3, <2>2 DEF Spent
  <2> QED BY <2>1, <2>3 DEF HeadsInv, ends
<1>7. MatchedAt(heads) = {}
  BY <1>2, <1>3, <1>5 DEF MatchedAt, Behind
<1>8. \A i \in Sides : DOMAIN pushed[i] = {} /\ OwnHours(i, pushed) = {} /\ CommonHours(i, {}, pushed) = {}
  <2> TAKE i \in Sides
  <2>1. DOMAIN pushed[i] = {}
    BY <1>3
  <2>2. OwnHours(i, pushed) = {}
    BY <2>1 DEF OwnHours
  <2>3. CommonHours(i, {}, pushed) = {}
    BY DEF CommonHours
  <2> QED BY <2>1, <2>2, <2>3
<1>9. \A i \in Sides : Usage({}, i) = NoUsage
  <2> TAKE i \in Sides
  <2>1. Cardinality({}) = 0
    BY FS_EmptySet
  <2>2. \A u \in {} : FALSE
    OBVIOUS
  <2>3. Usage({}, i) = [mask |-> 0 + Cardinality({}), priced |-> 0 + Cardinality({}), identities |-> {} \cup ({} \ {NoPrice})]
    <3>1. { u \in {} : plan.tariff[i][u[1]].known } = {} /\ { plan.tariff[i][u[1]].identity : u \in {} } = {}
      OBVIOUS
    <3> QED BY <3>1 DEF Usage, AddUsage, NoUsage
  <2>4. 0 + 0 = 0 /\ {} \cup ({} \ {NoPrice}) = {}
    OBVIOUS
  <2> QED BY <2>1, <2>3, <2>4 DEF NoUsage
<1>10. Cardinality({}) = 0
  BY FS_EmptySet
<1>11. house = HouseFor(pushed, {})
  BY <1>2, <1>8, <1>9, <1>10 DEF HouseFor, ComparisonInit, Both
<1>12. ASSUME NEW k \in GroupKeys
       PROVE  NoRow = RowFor(k, pushed, {})
  <2>1. \A i \in Sides : OwnRows(k, i, pushed) = {} /\ RowUses(k, i, {}, pushed) = {} /\ {} \X {k} = {}
    BY <1>8 DEF OwnRows, RowUses, RowHours, KnownPairs
  <2>2. KnownPairs(k, {}, pushed) = {}
    BY DEF KnownPairs
  <2> DEFINE r == RowFor(k, pushed, {})
  <2>3. /\ r.own = [i \in Sides |-> 0] /\ r.common = 0
        /\ r.ownCost = [i \in Sides |-> NoUsage] /\ r.commonCost = [i \in Sides |-> NoUsage]
    BY <1>9, <1>10, <2>1, <2>2 DEF RowFor
  <2>4. r.alike = TRUE
    BY DEF RowFor
  <2>5. r = [own |-> r.own, common |-> r.common, alike |-> r.alike, ownCost |-> r.ownCost, commonCost |-> r.commonCost]
    BY DEF RowFor
  <2> HIDE DEF r
  <2>6. NoRow = r
    BY <2>3, <2>4, <2>5 DEF NoRow, Both
  <2> QED BY <2>6 DEF r
<1>13. marks = MarksFor(pushed, {})
  <2>1. WholePairs({}, pushed) = {}
    BY DEF WholePairs
  <2> DEFINE r == MarksFor(pushed, {})
  <2>2. r.partition = [i \in Sides |-> TRUE] /\ r.common = TRUE /\ r.whole = 0
    BY <1>8, <1>10, <2>1 DEF MarksFor
  <2>3. r = [partition |-> r.partition, common |-> r.common, whole |-> r.whole]
    BY DEF MarksFor
  <2> HIDE DEF r
  <2>4. marks = r
    BY <2>2, <2>3 DEF ComparisonInit, Both
  <2> QED BY <2>4 DEF r
<1>14. CountersInv
  BY <1>7, <1>11, <1>12, <1>13 DEF CountersInv, ComparisonInit
<1>15. OutcomeInv
  BY DEF OutcomeInv, ComparisonInit
<1> QED BY <1>4, <1>6, <1>14, <1>15 DEF ComparisonInv

(* Whatever is read, the heads cross no shared frame of two aligned periods   *)
(* and stop where a chunk ran dry, and each counter of the household, of the *)
(* groups and of the partition proofs is what the hours read and the pairs   *)
(* behind the heads amount to: no hour is counted twice and no pair is lost  *)
(* where a chunk ends (energy_comparison_stream.py).                              *)
THEOREM ComparisonInductive == ComparisonSpec => []ComparisonInv
<1>1. ComparisonInit => ComparisonInv
  BY ComparisonStart
<1>2. ComparisonInv /\ [ComparisonNext]_comparisonVars => ComparisonInv'
  <2> SUFFICES ASSUME ComparisonInv, [ComparisonNext]_comparisonVars
               PROVE  ComparisonInv'
    OBVIOUS
  <2>1. CASE ReadsChunk
    BY <2>1, ReadsKeeps
  <2>2. CASE Finishes
    BY <2>2, FinishesKeeps
  <2>3. CASE UNCHANGED comparisonVars
    BY <2>3, StutterKeeps
  <2> QED BY <2>1, <2>2, <2>3 DEF ComparisonNext
<1> QED BY <1>1, <1>2, PTL DEF ComparisonSpec

(***************************************************************************)
(* What a finished comparison is made of.                                   *)
(***************************************************************************)
LEMMA InFull ==
  ASSUME ComparisonInv, compared.status # "reading"
  PROVE  /\ compared = Outcome /\ Done /\ plan \in Plans /\ pushed \in [Sides -> Seq(Hours)]
         /\ \A i \in Sides : DOMAIN pushed[i] = DOMAIN Grid(i)
         /\ Aligned => MatchedAt(heads) = SameFrame
         /\ ~Aligned => MatchedAt(heads) = {}
         /\ Paired(MatchedAt(heads), pushed) /\ Paired(SameFrame, pushed)
<1>1. compared = Outcome /\ \A i \in Sides : Complete(i)
  BY DEF ComparisonInv, OutcomeInv
<1>2. plan \in Plans /\ pushed \in [Sides -> Seq(Hours)] /\ heads \in [Sides -> Nat]
  BY DEF ComparisonInv, ComparisonType
<1>3. \A i \in Sides : DOMAIN pushed[i] = 1..Len(pushed[i]) /\ DOMAIN Grid(i) = 1..Len(Grid(i)) /\ Len(Grid(i)) \in Nat
  BY <1>2, HourFacts, PlanFacts
<1>4. \A i \in Sides : Len(pushed[i]) = Len(Grid(i)) /\ ~(heads[i] < Len(Grid(i)))
  BY <1>1 DEF Complete, AtEnd, HasChunk, Cursor
<1>5. \A i \in Sides : DOMAIN pushed[i] = DOMAIN Grid(i)
  BY <1>3, <1>4
<1>6. 1 \in Sides /\ 2 \in Sides /\ Sides = {1, 2}
  BY DEF Sides
<1>7. \A m \in SameFrame : m[1] \in 1..Len(Grid(1)) /\ m[2] \in 1..Len(Grid(2))
  BY <1>2, FrameFacts
<1>8. \A m \in SameFrame : m[1] <= heads[1] /\ m[2] <= heads[2]
  BY <1>2, <1>3, <1>4, <1>6, <1>7
<1>9. (Aligned => MatchedAt(heads) = SameFrame) /\ (~Aligned => MatchedAt(heads) = {})
  BY <1>8 DEF MatchedAt, Behind
<1>10. \A m \in SameFrame : m[1] \in DOMAIN pushed[1] /\ m[2] \in DOMAIN pushed[2]
  BY <1>3, <1>5, <1>6, <1>7
<1>11. Paired(SameFrame, pushed)
  BY <1>10 DEF Paired
<1>12. Paired(MatchedAt(heads), pushed)
  BY <1>9, <1>11 DEF Paired
<1>13. Done
  BY <1>1 DEF Done, Outcome
<1> QED BY <1>1, <1>2, <1>5, <1>9, <1>11, <1>12, <1>13

LEMMA FinishedExactly ==
  ASSUME ComparisonInv
  PROVE  ComparedExactly
<1> SUFFICES ASSUME compared.status # "reading"
             PROVE  /\ Done
                    /\ \A i \in Sides : house.measured[i] = Cardinality({ x \in (DOMAIN Grid(i)) \X GridSources : x[2] \in pushed[i][x[1]].sources })
                    /\ Aligned => /\ house.common = Cardinality(CommonHours(1, SameFrame, pushed))
                                  /\ \A k \in GroupKeys : rows[k].common = Cardinality({ m \in SameFrame : KnownRow(k, m, pushed) })
                    /\ ~Aligned => compared.scope # "common_measurements"
  BY DEF ComparedExactly
<1>1. /\ compared = Outcome /\ Done
      /\ \A i \in Sides : DOMAIN pushed[i] = DOMAIN Grid(i)
      /\ Aligned => MatchedAt(heads) = SameFrame
  BY InFull
<1>2. house = HouseFor(pushed, MatchedAt(heads)) /\ rows = [k \in GroupKeys |-> RowFor(k, pushed, MatchedAt(heads))]
  BY DEF ComparisonInv, CountersInv
<1>3. ASSUME NEW i \in Sides
      PROVE  house.measured[i] = Cardinality({ x \in (DOMAIN Grid(i)) \X GridSources : x[2] \in pushed[i][x[1]].sources })
  <2>1. house.measured[i] = Cardinality(OwnHours(i, pushed))
    BY <1>2 DEF HouseFor
  <2>2. OwnHours(i, pushed) = { x \in (DOMAIN Grid(i)) \X GridSources : x[2] \in pushed[i][x[1]].sources }
    BY <1>1 DEF OwnHours
  <2> QED BY <2>1, <2>2
<1>4. ASSUME Aligned
      PROVE  /\ house.common = Cardinality(CommonHours(1, SameFrame, pushed))
             /\ \A k \in GroupKeys : rows[k].common = Cardinality({ m \in SameFrame : KnownRow(k, m, pushed) })
  <2>1. house.common = Cardinality(CommonHours(1, SameFrame, pushed))
    BY <1>1, <1>2, <1>4 DEF HouseFor
  <2>2. ASSUME NEW k \in GroupKeys
        PROVE  rows[k].common = Cardinality({ m \in SameFrame : KnownRow(k, m, pushed) })
    BY <1>1, <1>2, <1>4 DEF RowFor, KnownPairs
  <2> QED BY <2>1, <2>2
<1>5. ASSUME ~Aligned
      PROVE  compared.scope # "common_measurements"
  BY <1>1, <1>5 DEF Outcome, HouseReady
<1> QED BY <1>1, <1>3, <1>4, <1>5

(* Source hours selected, and the hours they are in.                         *)
SelectedHours(i) == { x[1] : x \in HouseSelection(i) }

LEMMA SelectedUses ==
  ASSUME ComparisonInv, Done, HouseReady, NEW i \in Sides
  PROVE  /\ HouseSelection(i) \in SUBSET ((DOMAIN Grid(i)) \X GridSources)
         /\ IsFiniteSet(HouseSelection(i))
         /\ (IF HouseComplete THEN house.ownCost[i] ELSE house.commonCost[i]) = Usage(HouseSelection(i), i)
<1>1. /\ compared = Outcome /\ plan \in Plans /\ pushed \in [Sides -> Seq(Hours)]
      /\ DOMAIN pushed[i] = DOMAIN Grid(i)
      /\ Aligned => MatchedAt(heads) = SameFrame
      /\ Paired(SameFrame, pushed)
  BY InFull DEF Done
<1>2. house = HouseFor(pushed, MatchedAt(heads))
  BY DEF ComparisonInv, CountersInv
<1>3. Len(Grid(i)) \in Nat /\ IsFiniteSet(DOMAIN Grid(i)) /\ Cardinality(DOMAIN Grid(i)) = Len(Grid(i))
  <2>1. Len(Grid(i)) \in Nat /\ DOMAIN Grid(i) = 1..Len(Grid(i))
    BY <1>1, PlanFacts
  <2> DEFINE n == Len(Grid(i))
  <2>2. n \in Nat
    BY <2>1
  <2> HIDE DEF n
  <2>3. IsFiniteSet(1..n) /\ Cardinality(1..n) = n
    <3>1. IsFiniteSet(1..n) /\ Cardinality(1..n) = IF 1 > n THEN 0 ELSE n - 1 + 1
      BY <2>2, FS_Interval
    <3> QED BY <2>2, <3>1
  <2> QED BY <2>1, <2>3 DEF n
<1> DEFINE all == (DOMAIN Grid(i)) \X GridSources
<1>4. IsFiniteSet(all) /\ Cardinality(all) = Len(Grid(i)) * Cardinality(GridSources)
  BY <1>3, FS_Product, ComparisonAssumption
<1>5. CASE HouseComplete
  <2>1. HouseSelection(i) = all
    BY <1>1, <1>5 DEF HouseSelection, Outcome
  <2>2. Cardinality(OwnHours(i, pushed)) = Len(Grid(i)) * Cardinality(GridSources)
    BY <1>2, <1>5 DEF HouseComplete, HouseHours, HouseFor
  <2>3. OwnHours(i, pushed) \in SUBSET all
    BY <1>1 DEF OwnHours
  <2> HIDE DEF all
  <2>4. OwnHours(i, pushed) = all
    BY <1>4, <2>2, <2>3, FS_Subset
  <2>5. house.ownCost[i] = Usage(OwnHours(i, pushed), i)
    BY <1>2 DEF HouseFor
  <2> QED BY <1>4, <1>5, <2>1, <2>4, <2>5 DEF all
<1>6. CASE ~HouseComplete
  <2>1. Aligned
    BY <1>6 DEF HouseReady
  <2>2. HouseSelection(i) = CommonHours(i, SameFrame, pushed)
    BY <1>1, <1>6 DEF HouseSelection, Outcome
  <2>3. house.commonCost[i] = Usage(CommonHours(i, SameFrame, pushed), i)
    BY <1>1, <1>2, <2>1 DEF HouseFor
  <2>4. CommonHours(i, SameFrame, pushed) \in SUBSET ((DOMAIN pushed[i]) \X GridSources) /\ IsFiniteSet(CommonHours(i, SameFrame, pushed))
    BY <1>1, PairedFacts
  <2> QED BY <1>1, <1>6, <2>2, <2>3, <2>4
<1> QED BY <1>5, <1>6

LEMMA FirstOfPairs ==
  ASSUME NEW S, NEW T, T # {}
  PROVE  { x[1] : x \in S \X T } = S
<1>1. PICK t \in T : TRUE
  OBVIOUS
<1>2. \A s \in S : <<s, t>> \in S \X T /\ <<s, t>>[1] = s
  BY <1>1
<1>3. \A x \in S \X T : x[1] \in S
  OBVIOUS
<1>4. \A s \in S : \E x \in S \X T : s = x[1]
  BY <1>2
<1> QED BY <1>3, <1>4

(* The pairs of a set that a group knows are as many as their hours are.     *)
LEMMA KnownFills ==
  ASSUME plan \in Plans, NEW i \in Sides, NEW M, M \in SUBSET SameFrame, Cardinality(M) = Len(Grid(i))
  PROVE  { m[i] : m \in M } = DOMAIN Grid(i)
<1> DEFINE f == [m \in M |-> m[i]]
           D == DOMAIN Grid(i)
           n == Len(Grid(i))
<1>1. n \in Nat /\ D = 1..n
  BY PlanFacts
<1>2. \A m \in M : m[i] \in D
  BY FrameFacts, PlanFacts DEF Sides
<1>3. \A m, o \in M : m[i] = o[i] => m = o
  BY FrameFacts DEF Sides
<1>4. f \in Injection(M, D)
  <2>1. f \in [M -> D] /\ \A m, o \in M : f[m] = f[o] => m = o
    BY <1>2, <1>3
  <2> HIDE DEF f, D
  <2>2. IsInjective(f)
    BY <2>1 DEF IsInjective
  <2> QED BY <2>1, <2>2 DEF Injection
<1>5. Cardinality(M) = n
  OBVIOUS
<1> HIDE DEF n
<1>6. IsFiniteSet(D) /\ Cardinality(D) = n
  <2>1. IsFiniteSet(1..n) /\ Cardinality(1..n) = IF 1 > n THEN 0 ELSE n - 1 + 1
    BY <1>1, FS_Interval
  <2> QED BY <1>1, <2>1
<1> HIDE DEF f, D
<1>7. f \in Surjection(M, D)
  BY <1>4, <1>5, <1>6, FS_Injection
<1>8. \A p \in D : \E m \in M : f[m] = p
  BY <1>7 DEF Surjection
<1>9. \A p \in D : \E m \in M : m[i] = p
  BY <1>8 DEF f
<1> QED BY <1>2, <1>9 DEF D

(* Where the deltas reconcile, household and groups select the same hours.   *)
LEMMA SelectedAlike ==
  ASSUME ComparisonInv, Done, Reconciles, NEW i \in Sides
  PROVE  /\ HouseSelection(i) = SelectedHours(i) \X GridSources
         /\ \A p \in SelectedHours(i) : pushed[i][p].partition
         /\ \A k \in GroupKeys : StructuralZero(k) \/ RowSelection(k, i) = SelectedHours(i)
<1>1. /\ compared = Outcome /\ plan \in Plans /\ pushed \in [Sides -> Seq(Hours)]
      /\ \A j \in Sides : DOMAIN pushed[j] = DOMAIN Grid(j)
      /\ Aligned => MatchedAt(heads) = SameFrame
      /\ Paired(SameFrame, pushed)
  BY InFull DEF Done
<1>2. /\ rows = [k \in GroupKeys |-> RowFor(k, pushed, MatchedAt(heads))]
      /\ marks = MarksFor(pushed, MatchedAt(heads))
  BY DEF ComparisonInv, CountersInv
<1>3. GridSources # {}
  BY ComparisonAssumption
<1>4. HouseReady
  BY DEF Reconciles
<1>5. CASE HouseComplete
  <2>1. HouseSelection(i) = (DOMAIN Grid(i)) \X GridSources
    BY <1>1, <1>5 DEF HouseSelection, Outcome
  <2>2. SelectedHours(i) = DOMAIN Grid(i)
    BY <1>3, <2>1, FirstOfPairs DEF SelectedHours
  <2>3. marks.partition[i] /\ \A k \in GroupKeys : RowComplete(k)
    BY <1>5 DEF Reconciles
  <2>4. \A p \in DOMAIN Grid(i) : pushed[i][p].partition
    BY <1>1, <1>2, <2>3 DEF MarksFor
  <2>5. \A k \in GroupKeys : RowSelection(k, i) = DOMAIN Grid(i)
    BY <2>3 DEF RowSelection
  <2> QED BY <2>1, <2>2, <2>4, <2>5
<1>6. CASE ~HouseComplete
  <2> DEFINE W == WholePairs(SameFrame, pushed)
             whole == { m[i] : m \in W }
  <2>1. Aligned /\ marks.common /\ \A k \in GroupKeys : SameSelection(k)
    BY <1>6 DEF Reconciles
  <2>2. /\ \A m \in SameFrame : Present(m, pushed) \in {{}, GridSources}
        /\ \A m \in W, j \in Sides : Hour(j, m, pushed).partition
    BY <1>1, <1>2, <2>1 DEF MarksFor
  <2>3. HouseSelection(i) = CommonHours(i, SameFrame, pushed)
    BY <1>1, <1>4, <1>6 DEF HouseSelection, Outcome
  <2>4. CommonHours(i, SameFrame, pushed) = whole \X GridSources
    <3>1. ASSUME NEW x \in CommonHours(i, SameFrame, pushed)
          PROVE  x \in whole \X GridSources
      <4>1. PICK m \in SameFrame : x \in {m[i]} \X Present(m, pushed)
        BY DEF CommonHours
      <4>2. Present(m, pushed) = GridSources
        BY <2>2, <4>1
      <4>3. m \in W
        BY <4>2 DEF WholePairs
      <4> QED BY <4>1, <4>2, <4>3
    <3>2. ASSUME NEW x \in whole \X GridSources
          PROVE  x \in CommonHours(i, SameFrame, pushed)
      <4>1. PICK m \in W : x \in {m[i]} \X GridSources
        OBVIOUS
      <4>2. m \in SameFrame /\ Present(m, pushed) = GridSources
        BY DEF WholePairs
      <4>3. x \in {m[i]} \X Present(m, pushed)
        BY <4>1, <4>2
      <4> QED BY <4>2, <4>3 DEF CommonHours
    <3> HIDE DEF W, whole
    <3> QED BY <3>1, <3>2
  <2>5. SelectedHours(i) = whole
    <3> HIDE DEF whole
    <3> QED BY <1>3, <2>3, <2>4, FirstOfPairs DEF SelectedHours
  <2>6. \A p \in whole : pushed[i][p].partition
    BY <2>2 DEF Hour
  <2>7. ASSUME NEW k \in GroupKeys, ~StructuralZero(k)
        PROVE  RowSelection(k, i) = whole
    <3>1. /\ ~RowComplete(k) \/ rows[k].own = Both(rows[k].common)
          /\ rows[k].alike
      BY <2>1, <2>7 DEF SameSelection
    <3>2. \A m \in SameFrame : KnownRow(k, m, pushed) <=> Present(m, pushed) = GridSources
      BY <1>1, <1>2, <2>1, <2>7, <3>1 DEF RowFor
    <3>3. KnownPairs(k, SameFrame, pushed) = W
      BY <3>2 DEF KnownPairs, WholePairs
    <3>4. { m[i] : m \in { n \in SameFrame : KnownRow(k, n, pushed) } } = whole
      BY <3>3 DEF KnownPairs
    <3>5. CASE RowComplete(k)
      <4>1. rows[k].own[i] = Len(Grid(i)) /\ rows[k].own[i] = rows[k].common
        BY <3>1, <3>5 DEF RowComplete, Both
      <4>2. rows[k].common = Cardinality(W)
        BY <1>1, <1>2, <2>1, <3>3 DEF RowFor
      <4>3. W \in SUBSET SameFrame
        BY DEF WholePairs
      <4> HIDE DEF W
      <4>4. whole = DOMAIN Grid(i)
        BY <1>1, <4>1, <4>2, <4>3, KnownFills
      <4> QED BY <3>5, <4>4 DEF RowSelection
    <3>6. CASE ~RowComplete(k)
      BY <3>4, <3>6 DEF RowSelection
    <3> QED BY <3>5, <3>6
  <2> HIDE DEF whole
  <2> QED BY <2>3, <2>4, <2>5, <2>6, <2>7
<1> QED BY <1>5, <1>6

(* Used hours of which as many are priced as there are all have a price, and *)
(* their currencies are in the identities.                                   *)
LEMMA AllPriced ==
  ASSUME plan \in Plans, NEW i \in Sides, NEW S, IsFiniteSet(S), \A u \in S : u[1] \in DOMAIN Grid(i),
         Usage(S, i).priced = Usage(S, i).mask, NEW c, Usage(S, i).identities \in SUBSET {c}
  PROVE  \A u \in S : plan.tariff[i][u[1]] = [identity |-> c, known |-> TRUE] /\ c # NoPrice
<1> DEFINE known == { u \in S : plan.tariff[i][u[1]].known }
<1>1. Usage(S, i).mask = 0 + Cardinality(S) /\ Usage(S, i).priced = 0 + Cardinality(known)
      /\ Usage(S, i).identities = {} \cup ({ plan.tariff[i][u[1]].identity : u \in S } \ {NoPrice})
  BY DEF Usage, AddUsage, NoUsage
<1>2. known \in SUBSET S
  OBVIOUS
<1> HIDE DEF known
<1>3. Cardinality(S) \in Nat /\ Cardinality(known) \in Nat
  BY <1>2, FS_Subset, FS_CardinalityType
<1>4. Cardinality(S) = Cardinality(known)
  BY <1>1, <1>3
<1>5. S = known
  BY <1>2, <1>4, FS_Subset
<1> TAKE u \in S
<1>6. plan.tariff[i][u[1]].known
  BY <1>5 DEF known
<1>7. /\ plan.tariff[i][u[1]] = [identity |-> plan.tariff[i][u[1]].identity, known |-> plan.tariff[i][u[1]].known]
      /\ plan.tariff[i][u[1]].known \in BOOLEAN
      /\ plan.tariff[i][u[1]].identity # NoPrice
  BY <1>6, PlanFacts
<1>8. plan.tariff[i][u[1]].identity \in Usage(S, i).identities
  BY <1>1, <1>7
<1>9. plan.tariff[i][u[1]].identity = c
  BY <1>8
<1>10. plan.tariff[i][u[1]].known = TRUE
  BY <1>6, <1>7
<1> QED BY <1>7, <1>9, <1>10

(* The currency of a priced comparison.                                      *)
LEMMA PricedIn ==
  ASSUME ComparisonInv, Done, BothPriced(HouseCosts)
  PROVE  \E c : /\ \A i \in Sides : /\ c \in PeriodIdentities(i) /\ HouseCosts[i].identities = {c}
                                    /\ HouseSelection(i) # {}
                                    /\ HouseCosts[i].mask = Cardinality(HouseSelection(i))
                                    /\ HouseCosts[i].priced = Cardinality(HouseSelection(i))
                                    /\ \A x \in HouseSelection(i) : plan.tariff[i][x[1]] = [identity |-> c, known |-> TRUE]
                /\ c # NoPrice
<1> DEFINE cost(i) == IF HouseComplete THEN house.ownCost[i] ELSE house.commonCost[i]
<1>1. 1 \in Sides /\ 2 \in Sides /\ Sides = {1, 2}
  BY DEF Sides
<1>2. \A i \in Sides : HouseCosts[i] = FinishUsage(cost(i), HouseReady, PeriodIdentities(i))
  BY DEF HouseCosts
<1>3. (\A i \in Sides : HouseCosts[i].ready) /\ HouseCosts[1].identities = HouseCosts[2].identities
  BY DEF BothPriced
<1> HIDE DEF cost
<1>4. \A i \in Sides : /\ HouseReady /\ Cardinality(HouseCosts[i].identities) = 1
                       /\ cost(i).mask > 0 /\ cost(i).priced = cost(i).mask
                       /\ HouseCosts[i].identities = cost(i).identities \cup PeriodIdentities(i)
                       /\ HouseCosts[i].mask = cost(i).mask /\ HouseCosts[i].priced = cost(i).priced
  <2> TAKE i \in Sides
  <2> DEFINE C == cost(i)
             P == PeriodIdentities(i)
             ids == C.identities \cup P
  <2>1. HouseCosts[i] = [ready |-> HouseReady /\ Cardinality(ids) = 1 /\ C.mask > 0 /\ C.priced = C.mask,
                         identities |-> ids, mask |-> C.mask, priced |-> C.priced]
    BY <1>2 DEF FinishUsage
  <2>2. HouseCosts[i].ready
    BY <1>3
  <2> HIDE DEF C, P, ids
  <2>3. /\ HouseReady /\ Cardinality(ids) = 1 /\ C.mask > 0 /\ C.priced = C.mask
        /\ HouseCosts[i].identities = ids /\ HouseCosts[i].mask = C.mask /\ HouseCosts[i].priced = C.priced
    <3> DEFINE ok == HouseReady /\ Cardinality(ids) = 1 /\ C.mask > 0 /\ C.priced = C.mask
    <3>1. ok \in BOOLEAN
      BY DEF ok
    <3>2. HouseCosts[i] = [ready |-> ok, identities |-> ids, mask |-> C.mask, priced |-> C.priced]
      BY <2>1
    <3> HIDE DEF ok
    <3>3. ok /\ HouseCosts[i].identities = ids /\ HouseCosts[i].mask = C.mask /\ HouseCosts[i].priced = C.priced
      BY <2>2, <3>1, <3>2
    <3> QED BY <3>3 DEF ok
  <2> QED BY <2>3 DEF C, P, ids
<1>5. plan \in Plans
  BY DEF ComparisonInv, ComparisonType
<1>6. \A i \in Sides : /\ HouseSelection(i) \in SUBSET ((DOMAIN Grid(i)) \X GridSources)
                       /\ IsFiniteSet(HouseSelection(i))
                       /\ cost(i) = Usage(HouseSelection(i), i)
  BY <1>1, <1>4, SelectedUses DEF cost
<1>7. ASSUME NEW i \in Sides
      PROVE  /\ IsFiniteSet(HouseCosts[i].identities)
             /\ cost(i).mask = 0 + Cardinality(HouseSelection(i))
             /\ HouseSelection(i) # {}
             /\ IsFiniteSet(DOMAIN Grid(i))
  <2>1. cost(i).mask = 0 + Cardinality(HouseSelection(i))
        /\ cost(i).identities = {} \cup ({ plan.tariff[i][u[1]].identity : u \in HouseSelection(i) } \ {NoPrice})
    <3> DEFINE S == HouseSelection(i)
               C == cost(i)
    <3>1. C = Usage(S, i)
      BY <1>6
    <3> HIDE DEF S, C
    <3>2. /\ C.mask = 0 + Cardinality(S)
          /\ C.identities = {} \cup ({ plan.tariff[i][u[1]].identity : u \in S } \ {NoPrice})
      BY <3>1 DEF Usage, AddUsage, NoUsage
    <3> QED BY <3>2 DEF S, C
  <2>2. HouseSelection(i) # {}
    <3>1. Cardinality({}) = 0
      BY FS_EmptySet
    <3>2. cost(i).mask > 0
      BY <1>4
    <3>3. SUFFICES ASSUME HouseSelection(i) = {}
                   PROVE  FALSE
      OBVIOUS
    <3>4. cost(i).mask = 0 + 0
      BY <2>1, <3>1, <3>3
    <3> QED BY <3>2, <3>4
  <2>3. IsFiniteSet(DOMAIN Grid(i))
    <3>1. DOMAIN Grid(i) = 1..Len(Grid(i)) /\ Len(Grid(i)) \in Nat
      BY <1>5, PlanFacts
    <3> QED BY <3>1, FS_Interval
  <2>4. HouseCosts[i].identities \in SUBSET { plan.tariff[i][p].identity : p \in DOMAIN Grid(i) }
    BY <1>4, <1>6, <2>1 DEF PeriodIdentities
  <2>5. IsFiniteSet({ plan.tariff[i][p].identity : p \in DOMAIN Grid(i) })
    <3> DEFINE D == DOMAIN Grid(i)
               T == { plan.tariff[i][p].identity : p \in D }
               f == [p \in D |-> plan.tariff[i][p].identity]
    <3>1. f \in Surjection(D, T)
      BY DEF Surjection
    <3> HIDE DEF f, D, T
    <3>2. IsFiniteSet(D)
      BY <2>3 DEF D
    <3>3. IsFiniteSet(T)
      BY <3>1, <3>2, FS_Surjection
    <3> QED BY <3>3 DEF T, D
  <2> QED BY <2>1, <2>2, <2>3, <2>4, <2>5, FS_Subset
<1>8. PICK c : HouseCosts[1].identities = {c}
  BY <1>1, <1>4, <1>7, FS_Singleton
<1>9. \A i \in Sides : HouseCosts[i].identities = {c}
  BY <1>1, <1>3, <1>8
<1>10. ASSUME NEW i \in Sides
       PROVE  /\ c \in PeriodIdentities(i) /\ c # NoPrice
              /\ \A x \in HouseSelection(i) : plan.tariff[i][x[1]] = [identity |-> c, known |-> TRUE]
  <2>1. cost(i).identities \in SUBSET {c}
    BY <1>4, <1>9
  <2>2. \A u \in HouseSelection(i) : u[1] \in DOMAIN Grid(i)
    BY <1>6
  <2>3. Usage(HouseSelection(i), i).priced = Usage(HouseSelection(i), i).mask
    BY <1>4, <1>6
  <2>4. \A u \in HouseSelection(i) : plan.tariff[i][u[1]] = [identity |-> c, known |-> TRUE] /\ c # NoPrice
    BY <1>5, <1>6, <2>1, <2>2, <2>3, AllPriced
  <2>5. PICK u \in HouseSelection(i) : TRUE
    BY <1>7
  <2>6. plan.tariff[i][u[1]].identity = c /\ c # NoPrice /\ u[1] \in DOMAIN Grid(i)
    BY <2>2, <2>4, <2>5
  <2> QED BY <2>4, <2>6 DEF PeriodIdentities
<1>11. ASSUME NEW i \in Sides
       PROVE  HouseCosts[i].mask = Cardinality(HouseSelection(i)) /\ HouseCosts[i].priced = Cardinality(HouseSelection(i))
  <2>1. Cardinality(HouseSelection(i)) \in Nat
    BY <1>6, FS_CardinalityType
  <2> QED BY <1>4, <1>7, <2>1
<1>12. c # NoPrice
  BY <1>1, <1>10
<1> QED BY <1>7, <1>9, <1>10, <1>11, <1>12

(* What a group's costs are made of is what the group selects.               *)
LEMMA RowUsesAre ==
  ASSUME ComparisonInv, Done, NEW k \in GroupKeys, NEW i \in Sides, RowComplete(k) \/ Aligned
  PROVE  /\ RowCost(k, i) = Usage(RowSelection(k, i) \X {k}, i)
         /\ RowSelection(k, i) \in SUBSET DOMAIN Grid(i)
<1>1. /\ plan \in Plans /\ pushed \in [Sides -> Seq(Hours)]
      /\ DOMAIN pushed[i] = DOMAIN Grid(i)
      /\ Aligned => MatchedAt(heads) = SameFrame
      /\ Paired(SameFrame, pushed)
  BY InFull DEF Done
<1>2. rows = [g \in GroupKeys |-> RowFor(g, pushed, MatchedAt(heads))]
  BY DEF ComparisonInv, CountersInv
<1>3. CASE RowComplete(k)
  <2>1. Cardinality(OwnRows(k, i, pushed)) = Len(Grid(i))
    BY <1>2, <1>3 DEF RowComplete, RowFor
  <2> DEFINE D == DOMAIN Grid(i)
             n == Len(Grid(i))
  <2>2. n \in Nat /\ D = 1..n
    BY <1>1, PlanFacts
  <2>3. OwnRows(k, i, pushed) \in SUBSET D
    BY <1>1 DEF OwnRows
  <2>4. Cardinality(OwnRows(k, i, pushed)) = n
    BY <2>1
  <2> HIDE DEF D, n
  <2>5. IsFiniteSet(D) /\ Cardinality(D) = n
    <3>1. IsFiniteSet(1..n) /\ Cardinality(1..n) = IF 1 > n THEN 0 ELSE n - 1 + 1
      BY <2>2, FS_Interval
    <3> QED BY <2>2, <3>1
  <2>6. OwnRows(k, i, pushed) = D
    BY <2>3, <2>4, <2>5, FS_Subset
  <2>7. RowSelection(k, i) = D
    BY <1>3 DEF RowSelection, D
  <2>8. RowCost(k, i) = Usage(OwnRows(k, i, pushed) \X {k}, i)
    BY <1>2, <1>3 DEF RowCost, RowFor
  <2> QED BY <2>6, <2>7, <2>8 DEF D
<1>4. CASE ~RowComplete(k)
  <2>1. RowSelection(k, i) = RowHours(k, i, SameFrame, pushed)
    BY <1>4 DEF RowSelection, RowHours, KnownPairs
  <2>2. RowCost(k, i) = Usage(RowUses(k, i, SameFrame, pushed), i)
    BY <1>1, <1>2, <1>4 DEF RowCost, RowFor
  <2>3. \A m \in SameFrame : m[i] \in DOMAIN Grid(i)
    BY <1>1, PairedFacts
  <2>4. RowHours(k, i, SameFrame, pushed) \in SUBSET DOMAIN Grid(i)
    BY <2>3 DEF RowHours, KnownPairs
  <2> QED BY <2>1, <2>2, <2>4 DEF RowUses
<1> QED BY <1>3, <1>4

(* The use of hours that all have one price identity.                        *)
LEMMA OneIdentity ==
  ASSUME NEW i \in Sides, NEW S, IsFiniteSet(S), S # {}, NEW c, c # NoPrice,
         \A u \in S : plan.tariff[i][u[1]] = [identity |-> c, known |-> TRUE]
  PROVE  Usage(S, i).mask = Cardinality(S) /\ Usage(S, i).priced = Cardinality(S) /\ Usage(S, i).identities = {c}
<1> DEFINE known == { u \in S : plan.tariff[i][u[1]].known }
           names == { plan.tariff[i][u[1]].identity : u \in S }
<1>1. Usage(S, i).mask = 0 + Cardinality(S) /\ Usage(S, i).priced = 0 + Cardinality(known)
      /\ Usage(S, i).identities = {} \cup (names \ {NoPrice})
  BY DEF Usage, AddUsage, NoUsage
<1>2. known = S
  OBVIOUS
<1>3. names = {c}
  <2>1. \A u \in S : plan.tariff[i][u[1]].identity = c
    OBVIOUS
  <2> QED BY <2>1
<1>4. Cardinality(S) \in Nat
  BY FS_CardinalityType
<1> HIDE DEF known, names
<1> QED BY <1>1, <1>2, <1>3, <1>4

LEMMA FinishedAlike ==
  ASSUME ComparisonInv
  PROVE  ReconciledAlike
<1> SUFFICES ASSUME Done
             PROVE  ReconciledAlike
  BY DEF ReconciledAlike
<1>1. compared = Outcome /\ plan \in Plans
  BY InFull DEF Done
<1>2. /\ compared.reconciles = Reconciles /\ compared.priced = BothPriced(HouseCosts)
      /\ compared.costs = CostsReconcile
      /\ compared.scope = IF HouseComplete THEN "calendar_totals" ELSE IF HouseReady THEN "common_measurements" ELSE "unknown"
  BY <1>1 DEF Outcome
<1>3. ASSUME compared.reconciles, NEW i \in Sides
      PROVE  LET whole == { x[1] : x \in HouseSelection(i) }
             IN /\ HouseSelection(i) = whole \X GridSources
                /\ \A p \in whole : pushed[i][p].partition
                /\ \A k \in GroupKeys : StructuralZero(k) \/ RowSelection(k, i) = whole
  <2>1. Reconciles
    BY <1>2, <1>3
  <2> QED BY <1>3, <2>1, SelectedAlike DEF SelectedHours
<1>4. ASSUME compared.priced
      PROVE  \E c \in UNION { PeriodIdentities(i) : i \in Sides } : \A i \in Sides :
               \A x \in HouseSelection(i) : plan.tariff[i][x[1]] = [identity |-> c, known |-> TRUE]
  <2>1. BothPriced(HouseCosts)
    BY <1>2, <1>4
  <2>2. PICK c : /\ \A i \in Sides : c \in PeriodIdentities(i)
                 /\ \A i \in Sides : \A x \in HouseSelection(i) : plan.tariff[i][x[1]] = [identity |-> c, known |-> TRUE]
    BY <2>1, PricedIn
  <2>3. c \in UNION { PeriodIdentities(i) : i \in Sides }
    BY <2>2 DEF Sides
  <2> QED BY <2>2, <2>3
<1>5. ASSUME compared.costs
      PROVE  compared.reconciles /\ compared.priced /\ compared.scope = "common_measurements"
  <2>1. CostsReconcile
    BY <1>2, <1>5
  <2>2. Reconciles /\ ~HouseComplete /\ BothPriced(HouseCosts) /\ HouseReady
    BY <2>1 DEF CostsReconcile, Reconciles
  <2> QED BY <1>2, <2>2
<1>6. ASSUME compared.reconciles, compared.priced, compared.scope = "common_measurements"
      PROVE  compared.costs
  <2>1. Reconciles /\ BothPriced(HouseCosts) /\ ~HouseComplete
    BY <1>2, <1>6
  <2>2. PICK c : /\ \A i \in Sides : /\ HouseCosts[i].identities = {c}
                                     /\ HouseSelection(i) # {}
                                     /\ HouseCosts[i].mask = Cardinality(HouseSelection(i))
                                     /\ HouseCosts[i].priced = Cardinality(HouseSelection(i))
                                     /\ \A x \in HouseSelection(i) : plan.tariff[i][x[1]] = [identity |-> c, known |-> TRUE]
                 /\ c # NoPrice
    BY <2>1, PricedIn
  <2>3. ASSUME NEW k \in GroupKeys, NEW i \in Sides, ~StructuralZero(k)
        PROVE  LET cost == FinishUsage(RowCost(k, i), RowReady(k), {})
               IN /\ cost.ready /\ cost.identities = HouseCosts[i].identities
                  /\ cost.mask * Cardinality(GridSources) = HouseCosts[i].mask
                  /\ cost.priced * Cardinality(GridSources) = HouseCosts[i].priced
    <3> DEFINE W == SelectedHours(i)
               U == W \X {k}
               r == RowCost(k, i)
               H == HouseSelection(i)
    <3>1. SameSelection(k) /\ RowReady(k) /\ Aligned
      BY <2>1, <2>3 DEF Reconciles, SameSelection
    <3>2. H = W \X GridSources /\ RowSelection(k, i) = W
      BY <2>1, <2>3, SelectedAlike
    <3>3. r = Usage(U, i) /\ W \in SUBSET DOMAIN Grid(i)
      BY <3>1, <3>2, RowUsesAre
    <3>4. GridSources # {} /\ IsFiniteSet(GridSources)
      BY ComparisonAssumption
    <3>5. H # {} /\ HouseCosts[i].mask = Cardinality(H) /\ HouseCosts[i].priced = Cardinality(H) /\ HouseCosts[i].identities = {c}
      BY <2>2
    <3>6. \A x \in H : plan.tariff[i][x[1]] = [identity |-> c, known |-> TRUE]
      BY <2>2
    <3>7. IsFiniteSet(W)
      <4>1. DOMAIN Grid(i) = 1..Len(Grid(i)) /\ Len(Grid(i)) \in Nat
        BY <1>1, PlanFacts
      <4>2. IsFiniteSet(DOMAIN Grid(i))
        BY <4>1, FS_Interval
      <4> HIDE DEF W
      <4> QED BY <3>3, <4>2, FS_Subset
    <3> HIDE DEF W, r, H
    <3>8. \A p \in W : plan.tariff[i][p] = [identity |-> c, known |-> TRUE]
      <4> TAKE p \in W
      <4>1. PICK s \in GridSources : TRUE
        BY <3>4
      <4>2. <<p, s>> \in H /\ <<p, s>>[1] = p
        BY <3>2, <4>1
      <4> QED BY <3>6, <4>2
    <3>9. W # {}
      BY <3>2, <3>5
    <3>10. Cardinality(W) \in Nat /\ Cardinality(W) # 0 /\ Cardinality(U) = Cardinality(W) * 1 /\ IsFiniteSet(U)
           /\ Cardinality(H) = Cardinality(W) * Cardinality(GridSources) /\ Cardinality(GridSources) \in Nat
      <4>1. IsFiniteSet({k}) /\ Cardinality({k}) = 1
        BY FS_Singleton
      <4>2. Cardinality(W) \in Nat /\ Cardinality(GridSources) \in Nat
        BY <3>4, <3>7, FS_CardinalityType
      <4>3. Cardinality(W) # 0
        BY <3>7, <3>9, FS_EmptySet
      <4>4. IsFiniteSet(U) /\ Cardinality(U) = Cardinality(W) * 1
        BY <3>7, <4>1, FS_Product
      <4>5. Cardinality(H) = Cardinality(W) * Cardinality(GridSources)
        BY <3>2, <3>4, <3>7, FS_Product
      <4> QED BY <4>2, <4>3, <4>4, <4>5
    <3>11. U # {} /\ \A u \in U : plan.tariff[i][u[1]] = [identity |-> c, known |-> TRUE]
      <4>1. PICK p \in W : TRUE
        BY <3>9
      <4>2. <<p, k>> \in U
        BY <4>1
      <4>3. \A u \in U : u[1] \in W
        OBVIOUS
      <4> HIDE DEF U
      <4> QED BY <3>8, <4>2, <4>3
    <3> HIDE DEF U
    <3>12. r.mask = Cardinality(U) /\ r.priced = Cardinality(U) /\ r.identities = {c}
      BY <2>2, <3>3, <3>10, <3>11, OneIdentity
    <3>13. r.mask = Cardinality(W) /\ r.priced = Cardinality(W) /\ r.mask > 0
      BY <3>10, <3>12
    <3> DEFINE cost == FinishUsage(r, RowReady(k), {})
    <3>14. cost = [ready |-> RowReady(k) /\ Cardinality({c}) = 1 /\ r.mask > 0 /\ r.priced = r.mask,
                   identities |-> {c}, mask |-> r.mask, priced |-> r.priced]
      BY <3>12 DEF FinishUsage
    <3>15. Cardinality({c}) = 1
      BY FS_Singleton
    <3> HIDE DEF cost
    <3>16. cost.ready /\ cost.identities = {c} /\ cost.mask = Cardinality(W) /\ cost.priced = Cardinality(W)
      BY <3>1, <3>13, <3>14, <3>15
    <3>17. /\ cost.ready /\ cost.identities = HouseCosts[i].identities
           /\ cost.mask * Cardinality(GridSources) = HouseCosts[i].mask
           /\ cost.priced * Cardinality(GridSources) = HouseCosts[i].priced
      BY <3>5, <3>10, <3>16
    <3> QED BY <3>17 DEF cost, r
  <2>4. CostsReconcile
    BY <2>1, <2>3 DEF CostsReconcile
  <2> QED BY <1>2, <2>4
<1>7. compared.costs <=> compared.reconciles /\ compared.priced /\ compared.scope = "common_measurements"
  BY <1>5, <1>6
<1> QED BY <1>3, <1>4, <1>7 DEF ReconciledAlike

(* A finished comparison is what both whole periods have in common, hour by   *)
(* hour, and claims that its parts add up only where household and groups    *)
(* select the same hours, all priced in one currency if it shows costs.      *)
THEOREM ComparisonIsExactHolds == ComparisonSpec => []ComparisonIsExact
<1>1. ComparisonInv => ComparisonIsExact
  BY FinishedExactly, FinishedAlike DEF ComparisonIsExact
<1> QED BY <1>1, ComparisonInductive, PTL

=============================================================================
