----------------------------- MODULE TariffBook -----------------------------
(* The tariff book while time passes: what validation makes of a proposed    *)
(* book, the migration of the old profile, edits of the whole book or of one *)
(* version, the proof that an edit does not rewrite the past in silence, and *)
(* the two readers of rates: whole intervals for past energy, and the next   *)
(* change for the live entities. Each edit happens under the Store's lock    *)
(* with a matching revision (EmailStore). Time is counted in instants, some  *)
(* to a minute and a fixed number to a day; a version holds one profile, and *)
(* what a profile costs at an instant is a constant. Names, fees, zones and  *)
(* clocks that shift a profile against the civil day are left out.           *)
EXTENDS Integers, FiniteSetsExt

CONSTANTS
  TariffIds,
  Profiles,       \* rates with a validity of their own: [name, from, to], the last day inclusive
  RateOf(_, _),   \* what a profile's name costs at an instant, or NoRate
  Turns(_),       \* instants inside a minute at which a dynamic price changes
  Proposals,      \* sets of versions an editor writes as a tariff
  LastDay,        \* bound: days
  PerDay,         \* instants of a day
  PerMinute,      \* instants of a minute
  Horizon,        \* how far the next change is looked for: eight days in the code
  Blank           \* no date, no rate, no book

Days == 0..LastDay
Instants == 0..((LastDay + 1) * PerDay - 1)

(* What an editor writes: dates are days, and a profile has one. *)
Versions == [from : Nat \cup {Blank}, to : Nat \cup {Blank}, profile : Profiles, unknown : BOOLEAN]

ASSUME TariffBookAssumption ==
  /\ PerDay \in Nat \ {0} /\ PerMinute \in Nat \ {0} /\ PerDay % PerMinute = 0
  /\ LastDay \in Nat /\ Horizon \in Nat \ {0}
  /\ Blank \notin Int /\ Blank \notin Versions
  /\ Proposals \subseteq SUBSET Versions
  /\ \A p \in Profiles : p.from \in Nat \cup {Blank} /\ p.to \in Nat \cup {Blank} /\ p.name # Blank
  /\ \A p \in Profiles, t \in Instants :
       t % PerMinute # 0 /\ t \notin Turns(p.name) => RateOf(p.name, t) = RateOf(p.name, t - 1)

VARIABLES
  book,      \* the versions of each tariff; a tariff without versions does not exist
  oldStyle,  \* the profile of schema 1 while no book was saved
  clock,     \* the present instant
  asked      \* the last edit: acknowledged, and the past ranges it named

tariffVars == <<book, oldStyle, clock, asked>>

-----------------------------------------------------------------------------
(* A version is [from, to, profile, unknown]: from and to are days, the end  *)
(* exclusive; unknown is a migrated start that nobody dated yet.             *)

StartOf(v) == v.from * PerDay
Governs(v, t) ==
  /\ v.from # Blank /\ StartOf(v) <= t
  /\ v.to = Blank \/ t < v.to * PerDay

VersionAt(versions, t) ==
  IF \E v \in versions : Governs(v, t) THEN CHOOSE v \in versions : Governs(v, t) ELSE Blank

Bounds(v) == { d * PerDay : d \in {v.from, v.to} \ {Blank} }

DayBefore(a, b) == b # Blank /\ (a = Blank \/ a < b)

Following(v, versions) ==
  LET later == { w \in versions : DayBefore(v.from, w.from) }
  IN IF later = {} THEN Blank ELSE Min({ w.from : w \in later })

(* Every version but the last ends where the next begins. *)
Chained(versions) ==
  { [v EXCEPT !.to = IF Following(v, versions) = Blank THEN @ ELSE Following(v, versions)] : v \in versions }

(* The validity inside the profile includes its last day. *)
ProfileCovers(v) ==
  /\ v.profile.from # Blank /\ v.from # Blank => v.profile.from <= v.from
  /\ v.profile.to # Blank => (v.to # Blank /\ v.to <= v.profile.to + 1)

(* What validate_tariff_book accepts, before and after it chains the versions. *)
ValidTariff(versions) ==
  /\ \A v, w \in versions : v.from = w.from => v = w
  /\ \A v \in versions : /\ v.from = Blank => v.unknown
                         /\ v.from # Blank /\ v.to # Blank => v.from < v.to
                         /\ Following(v, versions) # Blank => v.to \in {Blank, Following(v, versions)}
  /\ \A v \in Chained(versions) : ProfileCovers(v)

(* What the profile says at an instant. *)
InProfile(p, t) ==
  IF (p.from # Blank /\ t \div PerDay < p.from) \/ (p.to # Blank /\ t \div PerDay > p.to)
  THEN Blank ELSE RateOf(p.name, t)

RateAt(versions, t) ==
  LET v == VersionAt(versions, t) IN IF v = Blank THEN Blank ELSE InProfile(v.profile, t)

-----------------------------------------------------------------------------
(* Changes of the past *)

(* What an editor has to acknowledge about a version: not its dates. Its       *)
(* identifier goes with the profile.                                          *)
Signature(v) == IF v = Blank THEN Blank ELSE v.profile.name

PastPoints_Mutant(a, b) == { p \in UNION { Bounds(v) : v \in b } : p < clock }

PastPoints(a, b) == { p \in UNION { Bounds(v) : v \in a \cup b } : p < clock }

Stop(p, points) ==
  LET later == { q \in points : q > p } IN IF later = {} THEN clock ELSE Min(later)

Changes(a, b) ==
  LET points == PastPoints(a, b)
  IN { <<p, Stop(p, points)>> : p \in { q \in points :
         Signature(VersionAt(a, q)) # Signature(VersionAt(b, q)) } }

HistoricalChanges(before, after) ==
  [id \in TariffIds |-> Changes(before[id], after[id])]

Saves(after, ack) ==
  LET clean == [id \in TariffIds |-> Chained(after[id])]
      changes == HistoricalChanges(book, clean)
  IN /\ \A id \in TariffIds : ValidTariff(after[id])
     /\ ~ack => \A id \in TariffIds : changes[id] = {}
     /\ book' = clean
     /\ oldStyle' = Blank
     /\ asked' = [ack |-> ack, changes |-> changes]
     /\ UNCHANGED clock

-----------------------------------------------------------------------------
(* Edits *)

NoBook == [id \in TariffIds |-> {}]
NoEdit == [ack |-> FALSE, changes |-> NoBook]

(* The old profile as a book: its last day is inclusive, a version's end is not. *)
Migrated1(p) ==
  [from |-> p.from, to |-> IF p.to = Blank THEN Blank ELSE p.to + 1, profile |-> p, unknown |-> TRUE]

Base == IF oldStyle = Blank THEN book ELSE [NoBook EXCEPT ![CHOOSE id \in TariffIds : TRUE] = {Migrated1(oldStyle)}]

TariffInit ==
  /\ book = NoBook
  /\ oldStyle \in {Blank} \cup { p \in Profiles : p.from = Blank \/ p.to = Blank \/ p.from <= p.to }
  /\ clock = 0
  /\ asked = NoEdit

(* The whole book is replaced by an editor. While there is none, nothing is  *)
(* compared: the first book cannot rewrite a priced past.                    *)
SavesBook(after, ack) ==
  \/ book # NoBook /\ after # NoBook /\ Saves(after, ack)
  \/ /\ book = NoBook /\ after # NoBook
     /\ \A id \in TariffIds : ValidTariff(after[id])
     /\ book' = [id \in TariffIds |-> Chained(after[id])]
     /\ oldStyle' = Blank
     /\ asked' = [ack |-> ack, changes |-> NoBook]
     /\ UNCHANGED clock

(* One version merged into a tariff: an exact start replaces it, a new start  *)
(* is inserted and closes an open predecessor or its automatic boundary.      *)
Merged(versions, v) ==
  LET earlier == { w \in versions : DayBefore(w.from, v.from) }
      previous == { w \in earlier : \A u \in earlier : ~DayBefore(w.from, u.from) }
      following == Following(v, versions)
  IN IF \E w \in versions : w.from = v.from
     THEN { w \in versions : w.from # v.from } \cup {v}
     ELSE { IF w \in previous /\ w.to \in {Blank, following} THEN [w EXCEPT !.to = v.from] ELSE w : w \in versions }
            \cup {v}

SavesVersion(id, v, ack) ==
  /\ {v.profile.from, v.profile.to} = {Blank}
  /\ LET after == Merged(Base[id], v)
         clean == [Base EXCEPT ![id] = Chained(after)]
         changes == IF Base = NoBook THEN NoBook ELSE HistoricalChanges(Base, clean)
     IN /\ ValidTariff(after)
        /\ ~ack => \A k \in TariffIds : changes[k] = {}
        /\ book' = clean
        /\ oldStyle' = Blank
        /\ asked' = [ack |-> ack, changes |-> changes]
  /\ UNCHANGED clock

TimePasses ==
  /\ clock < Max(Instants)
  /\ clock' = clock + 1 /\ asked' = NoEdit
  /\ UNCHANGED <<book, oldStyle>>

TariffNext ==
  \/ TimePasses
  \/ \E after \in [TariffIds -> Proposals], ack \in BOOLEAN : SavesBook(after, ack)
  \/ \E id \in TariffIds, ack \in BOOLEAN : \E v \in UNION Proposals : SavesVersion(id, v, ack)

TariffSpec == TariffInit /\ [][TariffNext]_tariffVars

-----------------------------------------------------------------------------
(* Readers *)

Boundaries(versions) == UNION { Bounds(v) \cup Turns(v.profile.name) : v \in versions }

Minutes(a, b) == { t \in a..b : t % PerMinute = 0 }

IntervalRate_Mutant(versions, a, b) ==
  LET v == VersionAt(versions, a)
      points == {a, b - 1} \cup Minutes(a + 1, b - 1)
  IN IF \/ v = Blank \/ VersionAt(versions, b - 1) # v
        \/ \E p, q \in points : InProfile(v.profile, p) # InProfile(v.profile, q)
     THEN Blank ELSE InProfile(v.profile, a)

(* One rate for all of [a, b), tested at its ends, each minute and each boundary. *)
IntervalRate(versions, a, b) ==
  LET v == VersionAt(versions, a)
      points == {a, b - 1} \cup Minutes(a + 1, b - 1) \cup (Turns(v.profile.name) \cap (a + 1)..(b - 1))
  IN IF \/ v = Blank \/ VersionAt(versions, b - 1) # v
        \/ \E p, q \in points : InProfile(v.profile, p) # InProfile(v.profile, q)
     THEN Blank ELSE InProfile(v.profile, a)

(* The next instant at which the price is another one, or none within the horizon. *)
NextChange(versions, t) ==
  LET points == Minutes(t + 1, t + Horizon) \cup (Boundaries(versions) \cap (t + 1)..(t + Horizon)) \cup {t + Horizon}
      changed == { p \in points : RateAt(versions, p) # RateAt(versions, t) }
  IN IF changed = {} THEN Blank ELSE Min(changed)

-----------------------------------------------------------------------------
(* Properties *)

(* An edit that its author did not acknowledge leaves the price of every past *)
(* instant alone, and the ranges an acknowledged edit was told are exactly    *)
(* the past instants whose version it replaces.                               *)
PastIsAcknowledged ==
  [][book # NoBook /\ book' # book => \A id \in TariffIds, t \in 0..(clock - 1) :
       LET named == \E c \in asked'.changes[id] : t \in c[1]..(c[2] - 1)
       IN /\ named <=> Signature(VersionAt(book[id], t)) # Signature(VersionAt(book'[id], t))
          /\ RateAt(book[id], t) # RateAt(book'[id], t) => asked'.ack /\ named]_tariffVars

(* However versions are chained, dated and migrated, the two readers agree    *)
(* with the price of every single instant: an interval has a rate only if all *)
(* its instants have it from one version, the next change is the first one,   *)
(* and no version outlives the validity of its own profile.                   *)
RatesAreExact ==
  book # NoBook => \A id \in TariffIds :
    LET versions == book[id]
    IN /\ \A v \in versions, t \in Instants : Governs(v, t) =>
            VersionAt(versions, t) = v /\ InProfile(v.profile, t) = RateOf(v.profile.name, t)
       /\ \A a, b \in Instants : a < b /\ IntervalRate(versions, a, b) # Blank =>
            \A t \in a..(b - 1) : /\ RateAt(versions, t) = IntervalRate(versions, a, b)
                                  /\ VersionAt(versions, t) = VersionAt(versions, a)
       /\ clock + Horizon \in Instants =>
            LET other == { t \in (clock + 1)..(clock + Horizon) : RateAt(versions, t) # RateAt(versions, clock) }
            IN NextChange(versions, clock) = IF other = {} THEN Blank ELSE Min(other)
=============================================================================
