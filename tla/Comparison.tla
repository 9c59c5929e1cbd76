----------------------------- MODULE Comparison -----------------------------
(* One comparison of two calendar periods: the analysis service reads both   *)
(* side by side in bounded chunks, the household's accumulator and the one   *)
(* of the groups keep at most one chunk per side, and match the hours that   *)
(* stand for the same place in both calendars. An hour is a position in its  *)
(* period; its frame is its place in the calendar (a day of the month and an *)
(* hour, say). Both accumulators drain their chunks alike, so one pair of    *)
(* heads stands for both. Energy is counted in source hours; amounts, chart  *)
(* bins and fees are left out.                                               *)
EXTENDS Integers, Sequences, FiniteSets, FiniteSetsExt, SequencesExt

CONSTANTS
  Calendars,    \* pairs of grids: the frames of the two periods in the order of their hours
  GridSources,  \* what the household's energy is measured by
  GroupKeys,    \* rows of the groups, "unassigned" among them
  HourShapes,   \* what an hour holds: the sources present, the rows known, a proven partition
  Tariffs,      \* per side and position the price of an hour
  Memberships,  \* what the registry says: "unknown", "all" assigned, "some" are not
  ChunkHours,   \* 168 in the code
  ReadyTenths   \* coverage that is enough, in tenths: 9 in the code

Sides == {1, 2}     \* current, baseline
NoPrice == "no price"

Hours == [sources : SUBSET GridSources, rows : SUBSET GroupKeys, partition : BOOLEAN]

ASSUME ComparisonAssumption ==
  /\ ChunkHours \in Nat \ {0} /\ ReadyTenths \in 0..10
  /\ IsFiniteSet(GridSources) /\ GridSources # {}
  /\ HourShapes \subseteq Hours
  /\ \A h \in HourShapes : h.partition => h.sources = GridSources /\ h.rows = GroupKeys
  /\ \A c \in Calendars, i \in Sides :
       /\ c[i] \in Seq(ToSet(c[i])) /\ IsInjective(c[i]) /\ c[i] # << >>
       /\ \A t \in Tariffs, p \in DOMAIN c[i] :
            /\ t[i][p] \in [identity : {t[i][p].identity}, known : BOOLEAN]
            /\ t[i][p].known => t[i][p].identity # NoPrice

VARIABLES
  plan,      \* the frozen plan: calendar, tariff, membership
  pushed,    \* the hours read so far, per side
  heads,     \* hours consumed by the matching; a side has a chunk while hours are left
  house,     \* the household's counters
  rows,      \* the counters of each group
  marks,     \* what the groups' accumulator noted about partitions
  compared   \* the result, once finished

comparisonVars == <<plan, pushed, heads, house, rows, marks, compared>>

-----------------------------------------------------------------------------
(* The calendar plan *)

Grid(i) == plan.calendar[i]
SharedFrames == ToSet(Grid(1)) \cap ToSet(Grid(2))
Place(i, f) == CHOOSE p \in DOMAIN Grid(i) : Grid(i)[p] = f

(* Both periods have the frames they share in one order. *)
Aligned == \A f, g \in SharedFrames : Place(1, f) < Place(1, g) => Place(2, f) < Place(2, g)

Cursor(i) == Len(pushed[i])
AtEnd(i) == Cursor(i) = Len(Grid(i))
HasChunk(i) == heads[i] < Cursor(i)

NeedsSide == { i \in Sides : ~HasChunk(i) /\ ~AtEnd(i) }

(* What stays of the chunks when one side ran dry: a chunk that no hour of the  *)
(* other side can match any more is dropped.                                    *)
Dry(at, to) ==
  [i \in Sides |-> IF at[3 - i] = to[3 - i] /\ to[3 - i] = Len(Grid(3 - i)) THEN to[i] ELSE at[i]]

(* One turn of the merge of the two chunks: an hour skipped or matched. *)
Turn(w, to) ==
  LET a == Grid(1)[w.at[1] + 1]
      b == Grid(2)[w.at[2] + 1]
      Skip(i) == [w EXCEPT !.at[i] = @ + 1]
  IN IF \E i \in Sides : w.at[i] = to[i] THEN w
     ELSE CASE a \notin SharedFrames -> Skip(1)
            [] a \in SharedFrames /\ b \notin SharedFrames -> Skip(2)
            [] {a, b} \subseteq SharedFrames /\ a = b ->
                 [matched |-> w.matched \cup {<<w.at[1] + 1, w.at[2] + 1>>}, at |-> [i \in Sides |-> w.at[i] + 1]]
            [] OTHER -> Skip(IF Place(1, a) < Place(1, b) THEN 1 ELSE 2)

(* The merge, until a side runs dry. *)
Drained(at, to) ==
  LET merge[n \in 0..(to[1] + to[2])] == IF n = 0 THEN [matched |-> {}, at |-> at] ELSE Turn(merge[n - 1], to)
  IN merge[to[1] + to[2]]

Drain(at, to) ==
  IF Aligned THEN LET w == Drained(at, to) IN [w EXCEPT !.at = Dry(@, to)] ELSE [matched |-> {}, at |-> to]

-----------------------------------------------------------------------------
(* Costs of a selection of hours *)

NoUsage == [mask |-> 0, priced |-> 0, identities |-> {}]

(* used: what an hour was used for, as pairs of the hour and a source or the group. *)
AddUsage(cost, used, side) ==
  LET Price(u) == plan.tariff[side][u[1]]
  IN [mask |-> cost.mask + Cardinality(used),
      priced |-> cost.priced + Cardinality({ u \in used : Price(u).known }),
      identities |-> cost.identities \cup ({ Price(u).identity : u \in used } \ {NoPrice})]

PeriodIdentities(i) == { plan.tariff[i][p].identity : p \in DOMAIN Grid(i) } \ {NoPrice}

FinishUsage(cost, eligible, constraints) ==
  LET identities == cost.identities \cup constraints
  IN [ready |-> eligible /\ Cardinality(identities) = 1 /\ cost.mask > 0 /\ cost.priced = cost.mask,
      identities |-> identities, mask |-> cost.mask, priced |-> cost.priced]

BothPriced(side) ==
  /\ \A i \in Sides : side[i].ready
  /\ side[1].identities = side[2].identities

-----------------------------------------------------------------------------
(* Reading *)

Both(x) == [i \in Sides |-> x]

NoRow == [own |-> Both(0), common |-> 0, alike |-> TRUE, ownCost |-> Both(NoUsage), commonCost |-> Both(NoUsage)]

Plans == [calendar : Calendars, tariff : Tariffs, membership : Memberships]

ComparisonInit ==
  /\ plan \in Plans
  /\ pushed = Both(<< >>) /\ heads = Both(0)
  /\ house = [measured |-> Both(0), common |-> 0, ownCost |-> Both(NoUsage), commonCost |-> Both(NoUsage)]
  /\ rows = [k \in GroupKeys |-> NoRow]
  /\ marks = [partition |-> Both(TRUE), common |-> TRUE, whole |-> 0]
  /\ compared = [status |-> "reading"]

StructuralZero(k) == k = "unassigned" /\ plan.membership = "all"

Accepted(hour) == plan.membership = "all" => "unassigned" \in hour.rows

Hour(i, m, now) == now[i][m[i]]
Present(m, now) == Hour(1, m, now).sources \cap Hour(2, m, now).sources
KnownRow(k, m, now) == \A i \in Sides : k \in Hour(i, m, now).rows

(* Source hours of one side that a set of matched pairs selects. *)
CommonHours(i, matched, now) == UNION { {m[i]} \X Present(m, now) : m \in matched }

HouseAfter(i, new, now, matched) ==
  LET own == { u \in (DOMAIN new) \X GridSources : u[2] \in new[u[1]].sources }
  IN [measured |-> [house.measured EXCEPT ![i] = @ + Cardinality(own)],
      common |-> house.common + Cardinality(CommonHours(1, matched, now)),
      ownCost |-> [house.ownCost EXCEPT ![i] = AddUsage(@, own, i)],
      commonCost |-> [j \in Sides |-> AddUsage(house.commonCost[j], CommonHours(j, matched, now), j)]]

RowAfter(k, i, new, now, matched) ==
  LET known == { m \in matched : KnownRow(k, m, now) }
      own == { p \in DOMAIN new : k \in new[p].rows }
  IN [own |-> [rows[k].own EXCEPT ![i] = @ + Cardinality(own)],
      common |-> rows[k].common + Cardinality(known),
      alike |-> /\ rows[k].alike
                /\ StructuralZero(k)
                   \/ \A m \in matched : KnownRow(k, m, now) <=> Present(m, now) = GridSources,
      ownCost |-> [rows[k].ownCost EXCEPT ![i] = AddUsage(@, own \X {k}, i)],
      commonCost |-> [j \in Sides |-> AddUsage(rows[k].commonCost[j], { m[j] : m \in known } \X {k}, j)]]

MarksAfter(i, new, now, matched) ==
  LET whole == { m \in matched : Present(m, now) = GridSources }
  IN [partition |-> [marks.partition EXCEPT ![i] = @ /\ \A p \in DOMAIN new : new[p].partition],
      common |-> /\ marks.common
                 /\ \A m \in matched : Present(m, now) \in {{}, GridSources}
                 /\ \A m \in whole, j \in Sides : Hour(j, m, now).partition,
      whole |-> marks.whole + Cardinality(whole)]

(* One round of the reading loop: the chunk of the side that is needed, the   *)
(* current one first, into both accumulators.                                 *)
ReadsChunk ==
  /\ compared.status = "reading" /\ NeedsSide # {}
  /\ LET i == Min(NeedsSide)
         stop == Min({Cursor(i) + ChunkHours, Len(Grid(i))})
     IN \E new \in [Cursor(i) + 1 .. stop -> { h \in HourShapes : Accepted(h) }] :
          LET now == [pushed EXCEPT ![i] = [p \in 1..stop |-> IF p \in DOMAIN new THEN new[p] ELSE @[p]]]
              drain == Drain(heads, [j \in Sides |-> Len(now[j])])
          IN /\ pushed' = now
             /\ heads' = drain.at
             /\ house' = HouseAfter(i, new, now, drain.matched)
             /\ rows' = [k \in GroupKeys |-> RowAfter(k, i, new, now, drain.matched)]
             /\ marks' = MarksAfter(i, new, now, drain.matched)
  /\ UNCHANGED <<plan, compared>>

-----------------------------------------------------------------------------
(* Finishing *)

Enough(all) == { n \in 0..all : 10 * n >= ReadyTenths * all }

HouseHours == [i \in Sides |-> Len(Grid(i)) * Cardinality(GridSources)]
HouseComplete == house.measured = HouseHours
HouseReady ==
  \/ HouseComplete
  \/ Aligned /\ \A i \in Sides : {house.measured[i], house.common} \subseteq Enough(HouseHours[i])

HouseCosts ==
  [i \in Sides |-> FinishUsage(IF HouseComplete THEN house.ownCost[i] ELSE house.commonCost[i],
                               HouseReady, PeriodIdentities(i))]

RowComplete(k) == rows[k].own = [i \in Sides |-> Len(Grid(i))]
RowReady(k) ==
  \/ RowComplete(k)
  \/ Aligned /\ \A i \in Sides : {rows[k].own[i], rows[k].common} \subseteq Enough(Len(Grid(i)))

RowCost(k, i) == IF RowComplete(k) THEN rows[k].ownCost[i] ELSE rows[k].commonCost[i]

(* The deltas of the groups add up to the household's. *)
SameSelection_Mutant(k) == StructuralZero(k) \/ (RowReady(k) /\ rows[k].alike)

SameSelection(k) ==
  \/ StructuralZero(k)
  \/ /\ ~RowComplete(k) \/ rows[k].own = Both(rows[k].common)
     /\ RowReady(k)
     /\ rows[k].alike

Reconciles ==
  /\ HouseReady
  /\ IF HouseComplete
     THEN /\ \A i \in Sides : marks.partition[i]
          /\ \A k \in GroupKeys : RowComplete(k)
     ELSE /\ plan.membership # "unknown" /\ Aligned
          /\ marks.common /\ marks.whole > 0
          /\ \A k \in GroupKeys : SameSelection(k)

(* So do the costs, on common measurements: the household's cents are split. *)
CostsReconcile ==
  /\ Reconciles /\ ~HouseComplete /\ BothPriced(HouseCosts)
  /\ \A k \in GroupKeys, i \in Sides : StructuralZero(k) \/
       LET cost == FinishUsage(RowCost(k, i), RowReady(k), {})
       IN /\ cost.ready /\ cost.identities = HouseCosts[i].identities
          /\ cost.mask * Cardinality(GridSources) = HouseCosts[i].mask
          /\ cost.priced * Cardinality(GridSources) = HouseCosts[i].priced

Complete(i) == AtEnd(i) /\ ~HasChunk(i)

Finishes ==
  /\ compared.status = "reading" /\ NeedsSide = {}
  /\ compared' = IF \A i \in Sides : Complete(i)
                 THEN [status |-> "finished",
                       scope |-> IF HouseComplete THEN "calendar_totals"
                                 ELSE IF HouseReady THEN "common_measurements" ELSE "unknown",
                       priced |-> BothPriced(HouseCosts),
                       reconciles |-> Reconciles, costs |-> CostsReconcile]
                 ELSE [status |-> "comparison_chunks_incomplete"]
  /\ UNCHANGED <<plan, pushed, heads, house, rows, marks>>

ComparisonNext == ReadsChunk \/ Finishes

ComparisonSpec == ComparisonInit /\ [][ComparisonNext]_comparisonVars

-----------------------------------------------------------------------------
(* Properties *)

Done == compared.status = "finished"

(* The hours of both periods that stand for the same frame. *)
SameFrame == { m \in (DOMAIN Grid(1)) \X (DOMAIN Grid(2)) : Grid(1)[m[1]] = Grid(2)[m[2]] }

(* Source hours the household's comparison is made of, on one side. *)
HouseSelection(i) ==
  CASE ~Done -> {}
    [] Done /\ compared.scope = "calendar_totals" -> (DOMAIN Grid(i)) \X GridSources
    [] Done /\ compared.scope = "unknown" -> {}
    [] OTHER -> CommonHours(i, SameFrame, pushed)

(* Hours the comparison of a group is made of. *)
RowSelection(k, i) ==
  IF RowComplete(k) THEN DOMAIN Grid(i) ELSE { m[i] : m \in { n \in SameFrame : KnownRow(k, n, pushed) } }

(* However the periods are cut into chunks and shifted against each other by  *)
(* clock changes, leap days or unequal months: when the loop asks for no more *)
(* both accumulators accept to finish, and what they counted is what the two  *)
(* whole periods have in common, hour by hour.                                *)
ComparedExactly ==
  compared.status # "reading" =>
    /\ Done
    /\ \A i \in Sides : house.measured[i] = Cardinality({ x \in (DOMAIN Grid(i)) \X GridSources : x[2] \in pushed[i][x[1]].sources })
    /\ Aligned => /\ house.common = Cardinality(CommonHours(1, SameFrame, pushed))
                  /\ \A k \in GroupKeys : rows[k].common = Cardinality({ m \in SameFrame : KnownRow(k, m, pushed) })
    /\ ~Aligned => compared.scope # "common_measurements"

(* A comparison that claims that the deltas of its groups add up to the       *)
(* household's is made of the same hours on either side: every group selects  *)
(* exactly the hours in which the household selects every source, and each of *)
(* them is a proven partition. A priced comparison selects no hour without a  *)
(* price in its one currency, and the masks of the groups' costs then agree   *)
(* too, so that the household's cents can be split on common measurements.    *)
ReconciledAlike ==
  Done => /\ compared.reconciles => \A i \in Sides :
               LET whole == { x[1] : x \in HouseSelection(i) }
               IN /\ HouseSelection(i) = whole \X GridSources
                  /\ \A p \in whole : pushed[i][p].partition
                  /\ \A k \in GroupKeys : StructuralZero(k) \/ RowSelection(k, i) = whole
          /\ compared.priced => \E c \in UNION { PeriodIdentities(i) : i \in Sides } : \A i \in Sides :
               \A x \in HouseSelection(i) : plan.tariff[i][x[1]] = [identity |-> c, known |-> TRUE]
          /\ compared.costs <=> compared.reconciles /\ compared.priced /\ compared.scope = "common_measurements"

(* A finished comparison of two periods, of the household and of its groups,  *)
(* is what both calendars have in common, and says that its parts add up only *)
(* where they are made of the same hours.                                     *)
ComparisonIsExact == ComparedExactly /\ ReconciledAlike
=============================================================================
