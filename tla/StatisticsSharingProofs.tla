---------------------- MODULE StatisticsSharingProofs ----------------------
(* The durable document, the cache, the Recorder's rows and the automatic    *)
(* updates of StatisticsSharing agree, for any series, costs, datasets and   *)
(* any number of hours, consents, jobs, reloads and crashes.                 *)
EXTENDS StatisticsSharing, SequenceTheorems, FiniteSetTheorems, WellFoundedInduction, TLAPS

-----------------------------------------------------------------------------
(* The inductive invariant *)

HourRows == {Sums(p) : p \in [Hours -> Cells]}

ClearJobs == [do : {"clear"}, epoch : Epochs, series : SUBSET Series]
ImportJobs == [do : {"import"}, epoch : Epochs, series : SUBSET Series, rows : HourRows]

(* Every job was planned from facts the ledger still has.                    *)
Planned(job) ==
  \A s \in job.series :
    /\ \E h \in Hours : disk.points[job.epoch][s][h] # Absent
    /\ job.do = "import" => \A h \in DOMAIN job.rows : h \in Hours /\ disk.points[job.epoch][s][h] # Absent

(* So is every row of the Recorder.                                          *)
RowsKnown ==
  \A e \in Epochs, s \in Series :
    rows[e][s] # NoRows => \A h \in Hours : rows[e][s][h] # Absent => disk.points[e][s][h] # Absent

WorldInv ==
  /\ now \in Hours /\ dataset \in Datasets /\ pub \in Nat /\ epochs \in 0 .. MaxEpoch
  /\ queue \in Seq(ClearJobs \cup ImportJobs)
  /\ \A i \in 1 .. Len(queue) : Planned(queue[i])
  /\ rows = [e \in Epochs |-> [s \in Series |-> rows[e][s]]]
  /\ RowsKnown

(* Beyond what validate_state asks: an intent belongs to an enabled consent   *)
(* and is not empty; the epochs in use are among those taken; series without *)
(* an intent are covered.                                                    *)
GoodDocument(d) ==
  /\ d \in Documents /\ ValidState(d)
  /\ d.pending # None => Enabled(d) /\ d.pending.series # {}
  /\ d.share # None => d.share.epoch <= epochs
  /\ \A i \in 1 .. Len(d.archived) : d.archived[i].epoch <= epochs
  /\ \A e \in Epochs, s \in Series : Covered(d, e, s)

(* Facts are replaced, never lost.                                           *)
Grown(c) ==
  \A e \in Epochs, s \in Series, h \in Hours : disk.points[e][s][h] # Absent => c.points[e][s][h] # Absent

Steps == {"cursor", "facts", "probe", "merged", "enqueue", "verify", "complete"}

Operations ==
  [pc : Saving \cup Steps, runtime : BOOLEAN, pub : Nat, now : Hours, window : SUBSET Hours,
   cand : {None} \cup Documents]

(* async_refresh works under one enabled consent.                            *)
Refreshing == (Saving \ {"savingShare", "savingDisable"}) \cup Steps

(* An automatic update works for the hour of the cursor.                     *)
AtHour(o, d) == o.runtime => d.cursor # None /\ d.cursor.next <= o.now /\ o.window = {d.cursor.next}

AllRecorded(o, d) == o.runtime => o.window \subseteq RecordedHours(d)

(* The document that an operation is about to write, by what it is for.      *)
Candidate(o, c) ==
  /\ GoodDocument(c) /\ Grown(c)
  /\ o.pc \in {"savingShare", "savingDisable"} => c.revision > disk.revision /\ c.cursor = None
  /\ o.pc \in Refreshing => c.share = disk.share /\ c.revision = disk.revision
  /\ o.pc = "savingCursor" =>
       o.runtime /\ disk.cursor = None /\ c.cursor # None /\ c.points = disk.points
  /\ o.pc = "savingPause" =>
       /\ disk.cursor # None /\ c.cursor # None /\ c.cursor.next = disk.cursor.next
       /\ c.points = disk.points
  /\ o.pc \in {"merged", "savingIntent"} => c.pending # None /\ c.cursor = disk.cursor /\ AllRecorded(o, c)
  /\ o.pc = "savingConfirmed" => c.cursor = disk.cursor /\ c.points = disk.points
  /\ o.pc = "savingCompleted" =>
       /\ disk.cursor # None /\ c.cursor # None /\ c = Advance(disk)
       /\ disk.cursor.next \in RecordedHours(disk)

(* The last job under way imports a series of the plan that is verified.     *)
LastRepeats ==
  queue # <<>> =>
    LET job == queue[Len(queue)] IN
    \E s \in disk.pending.series :
      /\ job.epoch = disk.share.epoch /\ job.series = {s}
      /\ Repeats(job, disk, disk.share.epoch, s)

(* What an operation may rely on at each of its steps.                       *)
GoodOp(o) ==
  /\ o \in Operations
  /\ o.pub <= pub /\ (o.pub # pub => cache = None)
  /\ o.pc \in Refreshing => Enabled(disk)
  /\ o.pc = "cursor" => o.runtime /\ disk.cursor # None
  /\ o.pc \in {"facts", "probe", "merged", "savingIntent", "enqueue", "verify", "savingConfirmed", "complete"}
       => AtHour(o, disk)
  /\ o.pc = "probe" => disk.pending = None
  /\ o.pc \in {"enqueue", "verify"} => disk.pending # None
  /\ o.pc \in {"probe", "enqueue", "verify", "savingConfirmed", "complete"} => AllRecorded(o, disk)
  /\ o.pc = "verify" => LastRepeats
  /\ o.pc \in Saving \cup {"merged"} => Candidate(o, o.cand)

OpInv == op # NoOp => GoodOp(op)

SharingInv == WorldInv /\ GoodDocument(disk) /\ CacheIsDurable /\ OpInv

-----------------------------------------------------------------------------
(* Operators *)

(* make_plan: rows for the hours with a known cost only.                     *)
LEMMA SumsDomain ==
  ASSUME NEW p
  PROVE  DOMAIN Sums(p) = {k \in Hours : p[k] \in Costs}
  BY DEF Sums

(* The series of a plan in some order.                                       *)
LEMMA OrderFacts ==
  ASSUME NEW S \in SUBSET Series
  PROVE  SetToSeq(S) \in Seq(S) /\ (S # {} => Len(SetToSeq(S)) \in Nat \ {0})
<1>1. IsFiniteSet(S)
  BY SharingAssumption, FS_Subset
<1> DEFINE n == Cardinality(S)
<1>2. n \in Nat /\ ExistsBijection(1 .. n, S)
  BY <1>1, FS_CardinalityType
<1>3. \E f \in [1 .. n -> S] : IsInjective(f)
  BY <1>2 DEF ExistsBijection, Bijection, Injection
<1>4. SetToSeq(S) \in [1 .. n -> S]
  BY <1>3 DEF SetToSeq
<1>5. SetToSeq(S) \in Seq(S) /\ Len(SetToSeq(S)) = n
  BY <1>2, <1>4, IsASeq, LenProperties
<1>6. S # {} => n # 0
  BY <1>1, FS_EmptySet
<1> QED BY <1>2, <1>5, <1>6

LEMMA DocumentFacts ==
  ASSUME NEW d \in Documents
  PROVE  /\ d.revision \in Nat
         /\ d.share # None => d.share.epoch \in Epochs /\ d.share.dataset \in Datasets /\ d.share.enabled \in BOOLEAN
         /\ d.pending # None => d.pending.series \subseteq Series /\ d.pending.clear \subseteq Series
         /\ d.cursor # None => d.cursor.next \in 1 .. MaxHour + 1 /\ d.cursor.last \in 0 .. MaxHour
         /\ d.archived \in Seq(Archives)
         /\ \A e \in Epochs : d.points[e] \in [Series -> [Hours -> Cells]]
         /\ d.points \in Points
  BY DEF Documents, Shares, Intents, Cursors, Points

(* The jobs of a plan: at most one clear, then an import for each series.    *)
LEMMA PlanFacts ==
  ASSUME NEW d \in Documents, d.share # None, d.pending # None,
         d.pending.clear \subseteq d.pending.series, d.pending.series # {}
  PROVE  /\ Jobs(d) \in Seq(ClearJobs \cup ImportJobs) /\ Len(Jobs(d)) \in Nat \ {0}
         /\ \A i \in 1 .. Len(Jobs(d)) :
              /\ Jobs(d)[i].epoch = d.share.epoch
              /\ Jobs(d)[i].series \subseteq d.pending.series
              /\ Jobs(d)[i].do = "import" =>
                   \E s \in d.pending.series :
                     Jobs(d)[i].series = {s} /\ Jobs(d)[i].rows = Sums(d.points[d.share.epoch][s])
         /\ Jobs(d)[Len(Jobs(d))].do = "import"
<1> DEFINE e == d.share.epoch
           order == SetToSeq(d.pending.series)
           clears == IF d.pending.clear = {} THEN <<>>
                     ELSE << [do |-> "clear", epoch |-> e, series |-> d.pending.clear] >>
           Import(i) == [do |-> "import", epoch |-> e, series |-> {order[i]}, rows |-> Sums(d.points[e][order[i]])]
           imports == [i \in 1 .. Len(order) |-> Import(i)]
           AnyJob == ClearJobs \cup ImportJobs
<1>1. Jobs(d) = clears \o imports
  BY DEF Jobs
<1>2. e \in Epochs /\ d.pending.series \subseteq Series /\ d.points[e] \in [Series -> [Hours -> Cells]]
  BY DocumentFacts
<1>3. order \in Seq(d.pending.series) /\ Len(order) \in Nat \ {0}
  BY <1>2, OrderFacts
<1>4. \A i \in 1 .. Len(order) :
        /\ order[i] \in d.pending.series
        /\ Import(i) \in ImportJobs
  <2> TAKE i \in 1 .. Len(order)
  <2>1. order[i] \in d.pending.series
    BY <1>3, ElementOfSeq
  <2>2. Sums(d.points[e][order[i]]) \in HourRows
    BY <1>2, <2>1 DEF HourRows
  <2> HIDE DEF order
  <2> QED BY <1>2, <2>1, <2>2 DEF ImportJobs
<1>5. imports \in Seq(AnyJob) /\ Len(imports) = Len(order)
  <2> HIDE DEF order, Import
  <2>1. imports \in [1 .. Len(order) -> AnyJob]
    BY <1>4
  <2> HIDE DEF imports, AnyJob
  <2> QED BY <1>3, <2>1, IsASeq, LenProperties
<1>6. clears \in Seq(AnyJob) /\ Len(clears) \in {0, 1}
      /\ (Len(clears) = 1 => clears[1] = [do |-> "clear", epoch |-> e, series |-> d.pending.clear])
  <2>1. CASE d.pending.clear = {}
    BY <2>1
  <2>2. CASE d.pending.clear # {}
    <3> DEFINE c == [do |-> "clear", epoch |-> e, series |-> d.pending.clear]
    <3>1. c \in AnyJob
      BY <1>2 DEF ClearJobs
    <3>2. clears = <<c>>
      BY <2>2
    <3> HIDE DEF c, AnyJob, clears
    <3>3. <<c>> \in Seq(AnyJob) /\ Len(<<c>>) = 1 /\ <<c>>[1] = c
      BY <3>1
    <3> QED BY <3>2, <3>3 DEF c
  <2> QED BY <2>1, <2>2
<1>7. /\ clears \o imports \in Seq(AnyJob)
      /\ Len(clears \o imports) = Len(clears) + Len(imports)
      /\ \A i \in 1 .. Len(clears) + Len(imports) :
           (clears \o imports)[i] = IF i <= Len(clears) THEN clears[i] ELSE imports[i - Len(clears)]
  <2> HIDE DEF clears, imports, AnyJob
  <2>1. clears \in Seq(AnyJob) /\ imports \in Seq(AnyJob)
    BY <1>5, <1>6
  <2> QED BY <2>1, ConcatProperties, Zenon
<1>8. \A i \in 1 .. Len(Jobs(d)) :
        \/ i = 1 /\ Jobs(d)[i] = [do |-> "clear", epoch |-> e, series |-> d.pending.clear] /\ Len(clears) = 1
        \/ \E k \in 1 .. Len(order) : k = i - Len(clears) /\ Jobs(d)[i] = Import(k)
  <2> TAKE i \in 1 .. Len(Jobs(d))
  <2>1. imports = [k \in 1 .. Len(order) |-> Import(k)]
    OBVIOUS
  <2> HIDE DEF clears, order, Import, imports
  <2>2. i \in 1 .. Len(clears) + Len(order) /\ Len(clears) \in {0, 1} /\ Len(order) \in Nat
    BY <1>1, <1>3, <1>5, <1>6, <1>7
  <2>3. CASE i <= Len(clears)
    BY <1>1, <1>5, <1>6, <1>7, <2>2, <2>3
  <2>4. CASE ~(i <= Len(clears))
    <3>1. i - Len(clears) \in 1 .. Len(order)
      BY <2>2, <2>4
    <3>2. Jobs(d)[i] = imports[i - Len(clears)]
      BY <1>1, <1>5, <1>7, <2>2, <2>4
    <3> QED BY <2>1, <3>1, <3>2
  <2> QED BY <2>3, <2>4
<1>9. Len(Jobs(d)) \in Nat \ {0} /\ Len(Jobs(d)) = Len(clears) + Len(order)
  <2> HIDE DEF clears, imports, order
  <2> QED BY <1>1, <1>3, <1>5, <1>6, <1>7
<1>10. Jobs(d)[Len(Jobs(d))] = Import(Len(order))
  <2> HIDE DEF clears, imports, order, Import
  <2> QED BY <1>3, <1>6, <1>8, <1>9
<1>11. \A i \in 1 .. Len(Jobs(d)) :
         /\ Jobs(d)[i].epoch = e
         /\ Jobs(d)[i].series \subseteq d.pending.series
         /\ Jobs(d)[i].do = "import" =>
              \E s \in d.pending.series :
                Jobs(d)[i].series = {s} /\ Jobs(d)[i].rows = Sums(d.points[e][s])
  <2> TAKE i \in 1 .. Len(Jobs(d))
  <2>1. CASE Jobs(d)[i] = [do |-> "clear", epoch |-> e, series |-> d.pending.clear]
    BY <2>1
  <2>2. CASE \E k \in 1 .. Len(order) : Jobs(d)[i] = Import(k)
    <3>1. PICK k \in 1 .. Len(order) : Jobs(d)[i] = Import(k)
      BY <2>2
    <3>2. order[k] \in d.pending.series
      BY <1>4
    <3> HIDE DEF order
    <3> QED BY <3>1, <3>2
  <2> QED
    <3> HIDE DEF order, Import, clears
    <3> QED BY <1>8, <2>1, <2>2
<1>12. Jobs(d)[Len(Jobs(d))].do = "import"
  BY <1>10
<1> HIDE DEF clears, imports, order, Import
<1> QED BY <1>1, <1>7, <1>9, <1>11, <1>12

-----------------------------------------------------------------------------
(* Documents *)

(* What every conjunct below reads of a document.                            *)
LEMMA IntentFacts ==
  ASSUME NEW d, NEW e, NEW s
  PROVE  s \in IntentOf(d, e) <=>
           \/ d.share # None /\ d.share.epoch = e /\ d.pending # None /\ s \in d.pending.series
           \/ \E i \in 1 .. Len(d.archived) : d.archived[i].epoch = e /\ s \in d.archived[i].series
  BY DEF IntentOf, Intended

(* A document that keeps a series and its intent covers it as before.        *)
LEMMA CoveredCarries ==
  ASSUME NEW c, NEW d, NEW e, NEW s, Covered(d, e, s), c.points[e][s] = d.points[e][s],
         s \in IntentOf(d, e) => s \in IntentOf(c, e)
  PROVE  Covered(c, e, s)
  BY DEF Covered, Holds, Repeats

(* A covered document stays good: epochs are only ever taken.                *)
LEMMA CoverStays ==
  ASSUME NEW d, GoodDocument(d), \A e \in Epochs, s \in Series : Covered(d, e, s)',
         epochs \in Nat, epochs' \in Nat, epochs <= epochs'
  PROVE  GoodDocument(d)'
<1>2. d.share # None => d.share.epoch \in Nat
  BY DocumentFacts DEF GoodDocument, Epochs
<1>3. \A i \in 1 .. Len(d.archived) : d.archived[i].epoch \in Nat
  <2> TAKE i \in 1 .. Len(d.archived)
  <2>1. d.archived[i] \in Archives
    BY DocumentFacts, ElementOfSeq DEF GoodDocument
  <2> QED BY <2>1 DEF Archives, Epochs
<1> QED BY <1>2, <1>3 DEF GoodDocument

(* Nothing that GoodDocument reads besides the document changes, but epochs  *)
(* are taken.                                                                *)
LEMMA GoodStays ==
  ASSUME NEW d, GoodDocument(d), UNCHANGED <<queue, rows, removed>>,
         epochs \in Nat, epochs' \in Nat, epochs <= epochs'
  PROVE  GoodDocument(d)'
<1>1. \A e \in Epochs, s \in Series : Covered(d, e, s)'
  BY DEF GoodDocument, Covered, Holds, Repeats
<1> QED BY <1>1, CoverStays

LEMMA CursorDocument ==
  ASSUME NEW d \in Documents, NEW k \in {None} \cup Cursors
  PROVE  LET c == [d EXCEPT !.cursor = k] IN
         /\ c \in Documents /\ c.cursor = k /\ c.share = d.share /\ c.pending = d.pending
         /\ c.points = d.points /\ c.archived = d.archived /\ c.revision = d.revision
  BY DEF Documents

LEMMA CursorGood ==
  ASSUME NEW d, GoodDocument(d), Enabled(d), NEW k \in Cursors, k.last # 0 => k.next = k.last + 1
  PROVE  GoodDocument([d EXCEPT !.cursor = k])
<1> DEFINE c == [d EXCEPT !.cursor = k]
<1>1. /\ c \in Documents /\ c.cursor = k /\ c.share = d.share /\ c.pending = d.pending
      /\ c.points = d.points /\ c.archived = d.archived
  BY CursorDocument DEF GoodDocument
<1> HIDE DEF c
<1>2. \A e \in Epochs, s \in Series : Covered(c, e, s)
  <2> TAKE e \in Epochs, s \in Series
  <2>1. s \in IntentOf(d, e) => s \in IntentOf(c, e)
    BY <1>1, IntentFacts
  <2> QED BY <1>1, <2>1, CoveredCarries DEF GoodDocument
<1>3. ValidState(c)
  BY <1>1 DEF GoodDocument, ValidState, Enabled
<1>4. GoodDocument(c)
  BY <1>1, <1>2, <1>3 DEF GoodDocument, Enabled
<1> QED BY <1>4 DEF c

LEMMA PendingDocument ==
  ASSUME NEW d \in Documents, NEW q \in {None} \cup Intents
  PROVE  LET c == [d EXCEPT !.pending = q] IN
         /\ c \in Documents /\ c.pending = q /\ c.share = d.share /\ c.cursor = d.cursor
         /\ c.points = d.points /\ c.archived = d.archived /\ c.revision = d.revision
  BY DEF Documents

(* The rows of a view differ: all of its series, if nothing else is pending. *)
LEMMA RepairGood ==
  ASSUME NEW d, GoodDocument(d), Enabled(d), d.pending = None, NEW S \in SUBSET Series, S # {},
         \A s \in S : \E h \in Hours : d.points[d.share.epoch][s][h] # Absent
  PROVE  GoodDocument([d EXCEPT !.pending = [series |-> S, clear |-> S]])
<1> DEFINE q == [series |-> S, clear |-> S]
           c == [d EXCEPT !.pending = q]
<1>1. /\ c \in Documents /\ c.pending = q /\ c.share = d.share /\ c.cursor = d.cursor
      /\ c.points = d.points /\ c.archived = d.archived
  <2>1. q \in {None} \cup Intents
    BY DEF Intents
  <2> HIDE DEF q
  <2> QED BY <2>1, PendingDocument DEF GoodDocument
<1>0. q.series = S /\ q.clear = S /\ q # None
  BY NoneAssumption DEF Intents
<1> HIDE DEF c, q
<1>2. \A e \in Epochs, s \in Series : Covered(c, e, s)
  <2> TAKE e \in Epochs, s \in Series
  <2>1. s \in IntentOf(d, e) => s \in IntentOf(c, e)
    BY <1>1, IntentFacts
  <2> QED BY <1>1, <2>1, CoveredCarries DEF GoodDocument
<1>3. ValidState(c)
  BY <1>0, <1>1 DEF GoodDocument, ValidState, Enabled
<1>4. GoodDocument(c)
  BY <1>0, <1>1, <1>2, <1>3 DEF GoodDocument, Enabled
<1> QED BY <1>4 DEF c, q

Ledger == [Series -> [Hours -> Cells]]
FactsOf(W) == [W -> [Series -> Cells]]

(* Merging hours replaces facts and loses none; only a touched series is     *)
(* cleared, and it has a fact.                                               *)
Merged(old, W, facts, new) ==
  /\ new \in Ledger
  /\ \A s \in Series, h \in Hours : old[s][h] # Absent => new[s][h] # Absent
  /\ \A s \in Series, h \in W : facts[h][s] # Absent => new[s][h] # Absent
  /\ \A s \in Touched(old, new) : s \in Series /\ \E h \in Hours : new[s][h] # Absent
  /\ Cleared(old, new) \subseteq Touched(old, new)

LEMMA MergedFacts ==
  ASSUME NEW old \in Ledger, NEW W \in SUBSET Hours, NEW facts \in FactsOf(W)
  PROVE  Merged(old, W, facts, MergedPoints(old, facts))
<1> DEFINE new == MergedPoints(old, facts)
<1> USE DEF Ledger, FactsOf
<1>0. Unknown # Absent /\ Absent \notin Costs /\ Unknown \notin Costs /\ DOMAIN facts = W
  BY SharingAssumption
<1>1. \A s \in Series, h \in Hours :
        new[s][h] = IF h \notin W THEN old[s][h]
                    ELSE IF facts[h][s] # Absent THEN facts[h][s]
                    ELSE IF old[s][h] \in Costs THEN Unknown ELSE old[s][h]
  BY <1>0 DEF MergedPoints
<1>2. new \in [Series -> [Hours -> Cells]]
  <2>1. \A s \in Series, h \in Hours : new[s][h] \in Cells
    BY <1>1 DEF Cells
  <2>2. new = [s \in Series |-> [h \in Hours |-> new[s][h]]]
    BY DEF MergedPoints
  <2> QED BY <2>1, <2>2
<1>3. \A s \in Series, h \in Hours : old[s][h] # Absent => new[s][h] # Absent
  BY <1>0, <1>1
<1>4. \A s \in Series, h \in W : facts[h][s] # Absent => new[s][h] # Absent
  BY <1>1
<1>5. \A s \in Touched(old, new) : s \in Series /\ \E h \in Hours : new[s][h] # Absent
  <2> TAKE s \in Touched(old, new)
  <2>1. s \in Series /\ new[s] # old[s]
    BY DEF Touched
  <2>2. PICK h \in Hours : new[s][h] # old[s][h]
    BY <1>2, <2>1
  <2>3. new[s][h] # Absent
    BY <1>0, <1>1, <2>1, <2>2
  <2> QED BY <2>1, <2>3
<1>6. Cleared(old, new) \subseteq Touched(old, new)
  BY DEF Cleared, Touched
<1> QED BY <1>2, <1>3, <1>4, <1>5, <1>6 DEF Merged

(* merge_facts: the series it touches get an intent, the others stay covered. *)
LEMMA MergeGood ==
  ASSUME NEW d, GoodDocument(d), Enabled(d), NEW W \in SUBSET Hours, NEW facts \in Facts(W),
         NEW c, c = MergeFacts(d, facts)
  PROVE  /\ GoodDocument(c) /\ c.share = d.share /\ c.cursor = d.cursor /\ c.revision = d.revision
         /\ \A e \in Epochs, s \in Series, h \in Hours : d.points[e][s][h] # Absent => c.points[e][s][h] # Absent
         /\ W \subseteq RecordedHours(c)
         /\ c.pending = None => d.pending = None /\ c.points = d.points
<1> DEFINE e == d.share.epoch
           old == d.points[e]
           new == MergedPoints(old, facts)
           series == Intended(d).series \cup Touched(old, new)
           clear == Intended(d).clear \cup Cleared(old, new)
           q == IF series = {} THEN None ELSE [series |-> series, clear |-> clear]
<1>1. d \in Documents /\ d.share # None /\ e \in Epochs /\ old \in [Series -> [Hours -> Cells]]
  BY DocumentFacts DEF GoodDocument, Enabled
<1>2. facts \in [W -> [Series -> Cells]] /\ \A h \in W, s \in Always : facts[h][s] # Absent
  BY DEF Facts
<1>3. /\ new \in [Series -> [Hours -> Cells]]
      /\ \A s \in Series, h \in Hours : old[s][h] # Absent => new[s][h] # Absent
      /\ \A s \in Series, h \in W : facts[h][s] # Absent => new[s][h] # Absent
      /\ \A s \in Touched(old, new) : s \in Series /\ \E h \in Hours : new[s][h] # Absent
      /\ Cleared(old, new) \subseteq Touched(old, new)
  <2>1. old \in Ledger /\ facts \in FactsOf(W)
    BY <1>1, <1>2 DEF Ledger, FactsOf
  <2> HIDE DEF old
  <2>2. Merged(old, W, facts, new)
    BY <2>1, MergedFacts
  <2> HIDE DEF new
  <2> QED BY <2>2 DEF Merged, Ledger
<1>4. /\ Intended(d).series \subseteq Series /\ Intended(d).clear \subseteq Intended(d).series
      /\ d.pending = None => Intended(d).series = {}
      /\ d.pending # None => Intended(d).series = d.pending.series /\ d.pending.series # {}
  BY <1>1, DocumentFacts DEF Intended, GoodDocument, ValidState
<1>5. series \subseteq Series /\ clear \subseteq series
  <2> HIDE DEF old, new
  <2> QED BY <1>3, <1>4
<1>6. q \in {None} \cup Intents
  <2> HIDE DEF series, clear
  <2> QED BY <1>5 DEF Intents
<1>7. c = [d EXCEPT !.points[e] = new, !.pending = q]
  BY DEF MergeFacts
<1>8. /\ c \in Documents /\ c.pending = q /\ c.share = d.share /\ c.cursor = d.cursor
      /\ c.archived = d.archived /\ c.revision = d.revision
      /\ c.points = [d.points EXCEPT ![e] = new]
  <2> HIDE DEF e, new, q, old
  <2>1. new \in Ledger
    BY <1>3 DEF Ledger
  <2> DEFINE p == [d.points EXCEPT ![e] = new]
  <2>2. p \in Points
    BY <1>1, <2>1 DEF Documents, Points, Ledger
  <2>3. c = [d EXCEPT !.points = p, !.pending = q]
    BY <1>1, <1>7 DEF Documents
  <2> HIDE DEF p
  <2>4. /\ c \in Documents /\ c.pending = q /\ c.share = d.share /\ c.cursor = d.cursor
        /\ c.archived = d.archived /\ c.revision = d.revision /\ c.points = p
    BY <1>1, <1>6, <2>2, <2>3 DEF Documents
  <2> QED BY <2>4 DEF p
<1>9. c.points[e] = new /\ \A x \in Epochs : x # e => c.points[x] = d.points[x]
  <2> HIDE DEF e, new
  <2> QED BY <1>1, <1>8 DEF Documents, Points
<1>10. (q = None <=> series = {}) /\ (q # None => q.series = series /\ q.clear = clear)
  <2> HIDE DEF series, clear
  <2>1. [series |-> series, clear |-> clear] \in Intents
    BY <1>5 DEF Intents
  <2> QED BY <2>1, NoneAssumption
<1>11. \A x \in Epochs, s \in Series, h \in Hours : d.points[x][s][h] # Absent => c.points[x][s][h] # Absent
  <2> HIDE DEF new, e, q
  <2> QED BY <1>3, <1>9 DEF old
<1>12. \A s \in Series : s \notin Touched(old, new) => new[s] = old[s]
  BY DEF Touched
<1>13. \A x \in Epochs, s \in Series : Covered(c, x, s)
  <2> TAKE x \in Epochs, s \in Series
  <2>0. s \in IntentOf(d, x) => s \in IntentOf(c, x)
    <3>1. d.pending # None => q # None /\ d.pending.series \subseteq series
      <4> HIDE DEF q, old, new
      <4> QED BY <1>4, <1>10
    <3> HIDE DEF q, series
    <3> QED BY <1>8, <1>10, <3>1, IntentFacts
  <2>1. CASE x = e /\ s \in series
    <3>1. q # None /\ s \in q.series
      <4> HIDE DEF q, series
      <4> QED BY <1>10, <2>1
    <3> HIDE DEF q, series
    <3>2. s \in IntentOf(c, x)
      BY <1>1, <1>8, <2>1, <3>1, IntentFacts
    <3> QED BY <3>2 DEF Covered
  <2>2. CASE ~(x = e /\ s \in series)
    <3>1. c.points[x][s] = d.points[x][s]
      <4>1. x = e => s \notin Touched(old, new)
        BY <2>2
      <4>2. x = e => new[s] = d.points[x][s]
        BY <1>12, <4>1 DEF old
      <4> HIDE DEF e, new, q, series, old
      <4> QED BY <1>9, <4>2
    <3> QED BY <2>0, <3>1, CoveredCarries DEF GoodDocument
  <2> QED BY <2>1, <2>2
<1>14. ValidState(c)
  <2>1. c.pending # None =>
          /\ c.share # None
          /\ c.pending.clear \subseteq c.pending.series
          /\ \A s \in c.pending.series : \E h \in Hours : c.points[c.share.epoch][s][h] # Absent
    <3> SUFFICES ASSUME q # None
                 PROVE  \A s \in series : \E h \in Hours : new[s][h] # Absent
      <4> HIDE DEF q, series, clear, new
      <4> QED BY <1>1, <1>5, <1>8, <1>9, <1>10 DEF e
    <3> TAKE s \in series
    <3>1. CASE s \in Touched(old, new)
      <4> HIDE DEF old, new
      <4> QED BY <1>3, <3>1
    <3>2. CASE s \in Intended(d).series
      <4>1. d.pending # None /\ s \in d.pending.series
        BY <1>4, <3>2
      <4>2. PICK h \in Hours : old[s][h] # Absent
        BY <4>1 DEF GoodDocument, ValidState
      <4>3. s \in Series
        BY <1>4, <3>2
      <4> HIDE DEF old, new
      <4> QED BY <1>3, <4>2, <4>3
    <3> QED BY <3>1, <3>2
  <2> HIDE DEF q, series, new
  <2> QED BY <1>8, <2>1 DEF GoodDocument, ValidState, Enabled
<1>15. GoodDocument(c)
  <2> HIDE DEF q, series, clear, new
  <2>1. c.pending # None => c.pending.series # {}
    BY <1>8, <1>10
  <2> QED BY <1>8, <1>13, <1>14, <2>1 DEF GoodDocument, Enabled
<1>16. W \subseteq RecordedHours(c)
  <2> SUFFICES ASSUME NEW h \in W, NEW s \in Always
               PROVE  c.points[c.share.epoch][s][h] # Absent
    BY <1>1, <1>8 DEF RecordedHours
  <2>1. s \in Series
    BY SharingAssumption
  <2> HIDE DEF new, q
  <2> QED BY <1>2, <1>3, <1>8, <1>9, <2>1 DEF e
<1>17. c.pending = None => d.pending = None /\ c.points = d.points
  <2> SUFFICES ASSUME c.pending = None
               PROVE  d.pending = None /\ c.points = d.points
    OBVIOUS
  <2>1. series = {}
    <3> HIDE DEF series, q
    <3> QED BY <1>8, <1>10
  <2>2. d.pending = None
    BY <1>4, <2>1
  <2>3. \A s \in Series : new[s] = old[s]
    BY <1>12, <2>1
  <2>4. new = old
    <3> HIDE DEF new, old
    <3> QED BY <1>1, <1>3, <2>3
  <2>5. c.points = d.points
    <3> HIDE DEF new, q
    <3> QED BY <1>1, <1>8, <2>4 DEF Documents, Points, old
  <2> QED BY <2>2, <2>5
<1> HIDE DEF q, series, clear, new, old, e
<1> QED BY <1>8, <1>11, <1>15, <1>16, <1>17
(* A complete readback: rows outside the verified span would be facts.       *)
LEMMA MatchHolds ==
  ASSUME NEW e \in Epochs, NEW s \in Series, RowsKnown, Matches(e, s, Hours)
  PROVE  Holds(disk, e, s)
<1> DEFINE p == disk.points[e][s]
           sums == Sums(p)
           expected(h) == IF h \in DOMAIN sums THEN sums[h] ELSE Absent
<1>1. /\ rows[e][s] # NoRows
      /\ \E h \in Hours : p[h] # Absent
      /\ \A h \in Hours : p[h] # Absent => rows[e][s][h] = expected(h)
      /\ \A h \in Hours : (\E a, b \in {k \in Hours : p[k] # Absent} : a <= h /\ h <= b) => rows[e][s][h] = expected(h)
  <2>1. \A h \in Hours : h <= h
    BY SharingAssumption DEF Hours
  <2> HIDE DEF Hours
  <2> QED BY <2>1 DEF Matches
<1>2. \A h \in Hours : p[h] = Absent => rows[e][s][h] = Absent /\ expected(h) = Absent
  <2> TAKE h \in Hours
  <2>1. p[h] = Absent => rows[e][s][h] = Absent
    BY <1>1 DEF RowsKnown
  <2>2. p[h] = Absent => h \notin DOMAIN sums
    BY SumsDomain, SharingAssumption
  <2> QED BY <2>1, <2>2
<1>3. \A h \in Hours : rows[e][s][h] = expected(h)
  BY <1>1, <1>2
<1> QED BY <1>1, <1>3 DEF Holds

(* The intent is dropped once every series of the plan was read back, while   *)
(* the last job may still repeat its rows.                                   *)
LEMMA ConfirmGood ==
  ASSUME GoodDocument(disk), Enabled(disk), disk.pending # None, RowsKnown, LastRepeats,
         queue \in Seq(ClearJobs \cup ImportJobs), Len(queue) <= 1,
         \A s \in disk.pending.series : Matches(disk.share.epoch, s, Hours)
  PROVE  GoodDocument([disk EXCEPT !.pending = None])
<1> DEFINE c == [disk EXCEPT !.pending = None]
<1>1. /\ c \in Documents /\ c.pending = None /\ c.share = disk.share /\ c.cursor = disk.cursor
      /\ c.points = disk.points /\ c.archived = disk.archived
  BY PendingDocument DEF GoodDocument
<1>0. disk.share # None /\ disk.share.epoch \in Epochs /\ disk.pending.series \subseteq Series
  BY DocumentFacts DEF GoodDocument, Enabled
<1> HIDE DEF c
<1>2. \A e \in Epochs, s \in Series : Covered(c, e, s)
  <2> TAKE e \in Epochs, s \in Series
  <2>1. CASE e = disk.share.epoch /\ s \in disk.pending.series
    <3>1. Holds(c, e, s)
      <4>1. Holds(disk, e, s)
        BY <2>1, MatchHolds
      <4> QED BY <1>1, <4>1 DEF Holds
    <3>2. ASSUME NEW i \in 1 .. Len(queue), queue[i].epoch = e, s \in queue[i].series
          PROVE  Repeats(queue[i], c, e, s)
      <4>1. i = Len(queue) /\ queue # <<>>
        BY EmptySeq
      <4>2. Repeats(queue[i], disk, e, s)
        BY <2>1, <3>2, <4>1 DEF LastRepeats
      <4> QED BY <1>1, <4>2 DEF Repeats
    <3> QED BY <3>1, <3>2 DEF Covered
  <2>2. CASE ~(e = disk.share.epoch /\ s \in disk.pending.series)
    <3>1. s \in IntentOf(disk, e) => s \in IntentOf(c, e)
      BY <1>1, <2>2, IntentFacts
    <3> QED BY <1>1, <3>1, CoveredCarries DEF GoodDocument
  <2> QED BY <2>1, <2>2
<1>3. ValidState(c)
  BY <1>1 DEF GoodDocument, ValidState, Enabled
<1>4. GoodDocument(c)
  BY <1>1, <1>2, <1>3 DEF GoodDocument, Enabled
<1> QED BY <1>4 DEF c

(* A new consent keeps the epoch of an extended one, with its intent, or      *)
(* takes an epoch no document ever used.                                     *)
LEMMA EnableGood ==
  ASSUME WorldInv, GoodDocument(disk), UNCHANGED <<queue, rows, removed>>, disk.revision < MaxRevision,
         disk.pending # None => KeepsEpoch(disk), NEW a \in Authors, NEW e \in Epochs,
         e = IF KeepsEpoch(disk) THEN disk.share.epoch ELSE epochs + 1,
         epochs' = IF KeepsEpoch(disk) THEN epochs ELSE e,
         NEW sh, sh = [enabled |-> TRUE, author |-> a, epoch |-> e, dataset |-> dataset],
         NEW c, c = [disk EXCEPT !.share = sh, !.revision = @ + 1, !.cursor = None]
  PROVE  /\ GoodDocument(c)' /\ Grown(c) /\ c.revision = disk.revision + 1 /\ c.cursor = None
         /\ epochs \in Nat /\ epochs' \in Nat /\ epochs <= epochs' /\ epochs' <= MaxEpoch
<1>0. sh \in Shares /\ sh # None /\ sh.enabled = TRUE /\ sh.epoch = e /\ dataset \in Datasets
  <2>1. dataset \in Datasets /\ TRUE \in BOOLEAN
    BY DEF WorldInv
  <2>2. sh \in Shares
    BY <2>1 DEF Shares
  <2> QED BY <2>1, <2>2, NoneAssumption
<1>1. /\ c \in Documents /\ c.share = sh /\ c.revision = disk.revision + 1 /\ c.cursor = None
      /\ c.pending = disk.pending /\ c.points = disk.points /\ c.archived = disk.archived
  <2>1. disk \in Documents
    BY DEF GoodDocument
  <2>2. disk.revision + 1 \in 0 .. MaxRevision
    BY <2>1, SharingAssumption DEF Documents
  <2> QED BY <1>0, <2>1, <2>2 DEF Documents
<1>2. epochs \in Nat /\ epochs' \in Nat /\ epochs <= epochs' /\ epochs' <= MaxEpoch
  BY SharingAssumption DEF WorldInv, Epochs
<1>3. KeepsEpoch(disk) => Enabled(disk)
  BY DEF KeepsEpoch, Enabled
<1>4. \A x \in Epochs, s \in Series : Covered(c, x, s)
  <2> TAKE x \in Epochs, s \in Series
  <2>0. disk.pending # None => sh.epoch = disk.share.epoch
    BY <1>0
  <2>1. s \in IntentOf(disk, x) => s \in IntentOf(c, x)
    <3>1. disk.pending # None => c.share # None /\ c.share.epoch = disk.share.epoch
      BY <1>0, <1>1, <2>0
    <3>2. c.pending = disk.pending /\ c.archived = disk.archived
      BY <1>1
    <3>3. CASE disk.share # None /\ disk.share.epoch = x /\ disk.pending # None /\ s \in disk.pending.series
      BY <3>1, <3>2, <3>3, IntentFacts
    <3>4. CASE \E i \in 1 .. Len(disk.archived) : disk.archived[i].epoch = x /\ s \in disk.archived[i].series
      <4>1. \E i \in 1 .. Len(c.archived) : c.archived[i].epoch = x /\ s \in c.archived[i].series
        BY <3>2, <3>4
      <4> QED BY <4>1, IntentFacts
    <3> QED BY <3>3, <3>4, IntentFacts
  <2> QED BY <1>1, <2>1, CoveredCarries DEF GoodDocument
<1>5. \A x \in Epochs, s \in Series : Covered(c, x, s)'
  BY <1>4 DEF Covered, Holds, Repeats
<1>6. \A i \in 1 .. Len(c.archived) : c.archived[i].epoch \in Nat /\ c.archived[i].epoch <= epochs
  <2> TAKE i \in 1 .. Len(c.archived)
  <2>1. c.archived[i] \in Archives
    BY <1>1, DocumentFacts, ElementOfSeq DEF GoodDocument
  <2> QED BY <1>1, <2>1 DEF Archives, Epochs, GoodDocument
<1>7. \A i \in 1 .. Len(c.archived) : e # c.archived[i].epoch
  <2>1. CASE KeepsEpoch(disk)
    BY <1>1, <1>3, <2>1 DEF GoodDocument, ValidState
  <2>2. CASE ~KeepsEpoch(disk)
    BY <1>2, <1>6, <2>2
  <2> QED BY <2>1, <2>2
<1>8. ValidState(c)
  <2>1. c.pending # None => e = disk.share.epoch
    BY <1>1
  <2> QED BY <1>0, <1>1, <1>7, <2>1 DEF GoodDocument, ValidState
<1>9. e <= epochs'
  BY <1>2, <1>3 DEF GoodDocument, Enabled
<1>10. Grown(c)
  BY <1>1 DEF Grown
<1>11. GoodDocument(c)'
  <2>1. \A i \in 1 .. Len(c.archived) : c.archived[i].epoch <= epochs'
    BY <1>2, <1>6
  <2>2. c.pending # None => c.pending.series # {}
    BY <1>1 DEF GoodDocument
  <2>3. Enabled(c)
    BY <1>0, <1>1 DEF Enabled
  <2> QED BY <1>0, <1>1, <1>5, <1>8, <1>9, <2>1, <2>2, <2>3 DEF GoodDocument
<1> QED BY <1>1, <1>2, <1>10, <1>11

(* Disabling archives the intent that was never confirmed.                   *)
LEMMA DisableGood ==
  ASSUME GoodDocument(disk), disk.revision < MaxRevision, NEW sh,
         sh = IF disk.share = None THEN None ELSE [disk.share EXCEPT !.enabled = FALSE],
         NEW c,
         c = [disk EXCEPT !.share = sh, !.archived = Archived(disk), !.pending = None, !.cursor = None,
                          !.revision = @ + 1]
  PROVE  GoodDocument(c) /\ Grown(c) /\ c.revision = disk.revision + 1 /\ c.cursor = None
<1> DEFINE old == disk.archived
           new == Archived(disk)
           x == [epoch |-> disk.share.epoch, series |-> disk.pending.series]
<1>0. disk \in Documents /\ old \in Seq(Archives)
  BY DocumentFacts DEF GoodDocument
<1>1. sh \in {None} \cup Shares /\ (sh = None <=> disk.share = None)
      /\ (sh # None => sh.epoch = disk.share.epoch /\ sh.enabled = FALSE)
  <2>1. disk.share # None => [disk.share EXCEPT !.enabled = FALSE] \in Shares
    BY <1>0 DEF Documents, Shares
  <2>2. disk.share # None => [disk.share EXCEPT !.enabled = FALSE].epoch = disk.share.epoch
                             /\ [disk.share EXCEPT !.enabled = FALSE].enabled = FALSE
    BY <1>0 DEF Documents, Shares
  <2> QED BY <2>1, <2>2, NoneAssumption
<1>2. disk.pending # None => disk.share # None /\ Enabled(disk) /\ x \in Archives
  BY <1>0, DocumentFacts DEF GoodDocument, Enabled, Archives
<1>3. /\ new \in Seq(Archives)
      /\ disk.pending = None => new = old
      /\ disk.pending # None =>
           Len(new) = Len(old) + 1 /\ new[Len(old) + 1] = x /\ \A i \in 1 .. Len(old) : new[i] = old[i]
  <2>1. CASE disk.pending = None
    BY <1>0, <2>1 DEF Archived
  <2>2. CASE disk.pending # None
    <3>1. new = Append(old, x)
      BY <2>2 DEF Archived
    <3> HIDE DEF new, x, old
    <3> QED BY <1>0, <1>2, <2>2, <3>1, AppendProperties
  <2> QED BY <2>1, <2>2
<1> HIDE DEF x
<1>4. /\ c \in Documents /\ c.share = sh /\ c.revision = disk.revision + 1 /\ c.cursor = None
      /\ c.pending = None /\ c.points = disk.points /\ c.archived = new
  <2>1. disk.revision + 1 \in 0 .. MaxRevision
    BY <1>0, SharingAssumption DEF Documents
  <2>2. c = [disk EXCEPT !.share = sh, !.archived = new, !.pending = None, !.cursor = None, !.revision = @ + 1]
    OBVIOUS
  <2>3. sh \in {None} \cup Shares /\ new \in Seq(Archives) /\ disk \in Documents
    BY <1>0, <1>1, <1>3
  <2> HIDE DEF new, old
  <2>4. c \in Documents
    BY <2>1, <2>2, <2>3 DEF Documents
  <2>5. /\ c.share = sh /\ c.revision = disk.revision + 1 /\ c.cursor = None
        /\ c.pending = None /\ c.points = disk.points /\ c.archived = new
    BY <2>2, <2>3 DEF Documents
  <2> QED BY <2>4, <2>5
<1>5. ~Enabled(c)
  BY <1>1, <1>4 DEF Enabled
<1>6. \A i \in 1 .. Len(new) :
        \/ i \in 1 .. Len(old) /\ new[i] = old[i]
        \/ disk.pending # None /\ i = Len(old) + 1 /\ new[i] = x
  <2> HIDE DEF new, old
  <2>1. Len(old) \in Nat
    BY <1>0
  <2>2. CASE disk.pending = None
    BY <1>3, <2>2
  <2>3. CASE disk.pending # None
    <3>1. TAKE i \in 1 .. Len(new)
    <3>2. i \in 1 .. Len(old) \/ i = Len(old) + 1
      BY <1>3, <2>1, <2>3
    <3> QED BY <1>3, <2>3, <3>2
  <2> QED BY <2>2, <2>3
<1>7. x.epoch = disk.share.epoch /\ x.series = disk.pending.series
  BY DEF x
<1>8. ValidState(c)
  <2> SUFFICES ASSUME NEW i \in 1 .. Len(new), NEW j \in 1 .. Len(new), new[i].epoch = new[j].epoch
               PROVE  i = j
    <3> HIDE DEF new, old
    <3> QED BY <1>4, <1>5 DEF ValidState
  <2>1. \A k \in 1 .. Len(old) : disk.pending # None => old[k].epoch # disk.share.epoch
    BY <1>2 DEF GoodDocument, ValidState
  <2>2. \A k, l \in 1 .. Len(old) : old[k].epoch = old[l].epoch => k = l
    BY DEF GoodDocument, ValidState
  <2> HIDE DEF new, old
  <2> QED BY <1>6, <1>7, <2>1, <2>2
<1>9. \A i \in 1 .. Len(new) : new[i].epoch <= epochs
  <2>1. \A k \in 1 .. Len(old) : old[k].epoch <= epochs
    BY DEF GoodDocument
  <2>2. disk.pending # None => disk.share.epoch <= epochs
    BY <1>2 DEF GoodDocument
  <2> HIDE DEF new, old
  <2> QED BY <1>6, <1>7, <2>1, <2>2
<1>10. \A e \in Epochs, s \in Series : Covered(c, e, s)
  <2> TAKE e \in Epochs, s \in Series
  <2>1. s \in IntentOf(disk, e) => s \in IntentOf(c, e)
    <3>1. Len(old) \in Nat
      BY <1>0
    <3>2. CASE \E i \in 1 .. Len(old) : old[i].epoch = e /\ s \in old[i].series
      <4>1. PICK i \in 1 .. Len(old) : old[i].epoch = e /\ s \in old[i].series
        BY <3>2
      <4>2. i \in 1 .. Len(new) /\ new[i] = old[i]
        <5> HIDE DEF new, old
        <5> QED BY <1>3, <3>1
      <4> HIDE DEF new, old
      <4> QED BY <1>4, <4>1, <4>2, IntentFacts
    <3>3. CASE disk.share # None /\ disk.share.epoch = e /\ disk.pending # None /\ s \in disk.pending.series
      <4>1. Len(old) + 1 \in 1 .. Len(new) /\ new[Len(old) + 1] = x
        <5> HIDE DEF new, old
        <5> QED BY <1>3, <3>1, <3>3
      <4> HIDE DEF new, old
      <4> QED BY <1>4, <1>7, <3>3, <4>1, IntentFacts
    <3> QED BY <3>2, <3>3, IntentFacts
  <2> QED BY <1>4, <2>1, CoveredCarries DEF GoodDocument
<1>11. GoodDocument(c)
  <2>1. c.share # None => c.share.epoch <= epochs
    BY <1>1, <1>4 DEF GoodDocument
  <2> HIDE DEF new, old
  <2> QED BY <1>4, <1>8, <1>9, <1>10, <2>1 DEF GoodDocument
<1>12. Grown(c)
  BY <1>4 DEF Grown
<1> QED BY <1>4, <1>11, <1>12

-----------------------------------------------------------------------------
(* Frames *)

LEMMA SavingFacts ==
  /\ Saving = {"savingCursor", "savingPause", "savingIntent", "savingConfirmed", "savingCompleted",
               "savingShare", "savingDisable"}
  /\ Refreshing = {"savingCursor", "savingPause", "savingIntent", "savingConfirmed", "savingCompleted",
                   "cursor", "facts", "probe", "merged", "enqueue", "verify", "complete"}
  BY DEF Saving, After, Refreshing, Steps

LEMMA EpochsTaken ==
  ASSUME WorldInv
  PROVE  epochs \in Nat
  BY SharingAssumption DEF WorldInv

(* A step that changes neither the document nor the Recorder's side.         *)
LEMMA OpStays ==
  ASSUME NEW o, GoodOp(o), WorldInv, UNCHANGED <<disk, pub, queue, rows, removed, epochs>>,
         o.pub = pub \/ cache' = cache
  PROVE  GoodOp(o)'
<1>1. epochs \in Nat /\ epochs' \in Nat /\ epochs <= epochs'
  BY EpochsTaken
<1>2. o.pc \in Saving \cup {"merged"} => Candidate(o, o.cand)'
  <2> SUFFICES ASSUME o.pc \in Saving \cup {"merged"}
               PROVE  Candidate(o, o.cand)'
    OBVIOUS
  <2>1. Candidate(o, o.cand)
    BY DEF GoodOp
  <2>2. GoodDocument(o.cand)'
    BY <1>1, <2>1, GoodStays DEF Candidate
  <2>3. \A d : RecordedHours(d)' = RecordedHours(d)
    BY DEF RecordedHours
  <2> QED BY <2>1, <2>2, <2>3 DEF Candidate, Grown, AllRecorded, Advance
<1>3. LastRepeats' = LastRepeats
  BY DEF LastRepeats, Repeats
<1>4. (o.pub <= pub /\ (o.pub # pub => cache = None))'
  BY DEF GoodOp
<1> QED BY <1>2, <1>3, <1>4 DEF GoodOp, Enabled, AtHour, AllRecorded, RecordedHours

LEMMA WorldStays ==
  ASSUME WorldInv, UNCHANGED <<disk, queue, rows>>, now' \in Hours, dataset' \in Datasets, pub' \in Nat,
         epochs' \in 0 .. MaxEpoch
  PROVE  WorldInv'
  BY DEF WorldInv, Planned, RowsKnown

(* A step of the operation in progress, or the first one of a new operation. *)
LEMMA StepStays ==
  ASSUME SharingInv, UNCHANGED opFrame, Loads \/ UNCHANGED cache,
         op' = NoOp \/ (GoodOp(op') /\ (op'.pub = pub \/ UNCHANGED cache))
  PROVE  SharingInv'
<1> USE DEF SharingInv
<1>1. UNCHANGED <<now, dataset, rows, epochs, removed, pub, disk, queue>>
  BY DEF opFrame, worldVars
<1>2. epochs \in Nat /\ epochs' \in Nat /\ epochs <= epochs'
  BY <1>1, EpochsTaken
<1>3. WorldInv'
  BY <1>1, WorldStays DEF WorldInv
<1>4. GoodDocument(disk)'
  BY <1>1, <1>2, GoodStays
<1>5. CacheIsDurable'
  BY <1>1 DEF CacheIsDurable, Loads
<1>6. OpInv'
  BY <1>1, OpStays DEF OpInv
<1> QED BY <1>3, <1>4, <1>5, <1>6

-----------------------------------------------------------------------------
(* The steps of an operation *)

LEMMA BeginFacts ==
  ASSUME NEW pc \in Saving \cup Steps, NEW runtime \in BOOLEAN, NEW window \in SUBSET Hours,
         NEW cand \in {None} \cup Documents, WorldInv, Begin(pc, runtime, window, cand)
  PROVE  /\ op' \in Operations /\ op'.pc = pc /\ op'.runtime = runtime /\ op'.pub = pub
         /\ op'.now = now /\ op'.window = window /\ op'.cand = cand
<1>1. pub \in Nat /\ now \in Hours
  BY DEF WorldInv
<1> QED BY <1>1 DEF Begin, Operations

LEMMA GotoFacts ==
  ASSUME NEW pc \in Saving \cup Steps, NEW cand \in {None} \cup Documents, op \in Operations, Goto(pc, cand)
  PROVE  /\ op' \in Operations /\ op'.pc = pc /\ op'.runtime = op.runtime /\ op'.pub = op.pub
         /\ op'.now = op.now /\ op'.window = op.window /\ op'.cand = cand
  BY DEF Goto, Operations

LEMMA OpFacts ==
  ASSUME SharingInv, op # NoOp
  PROVE  /\ GoodOp(op) /\ op \in Operations /\ op.runtime \in BOOLEAN /\ op.window \in SUBSET Hours
         /\ op.pc \in Refreshing => Enabled(disk) /\ disk.share # None
         /\ disk \in Documents /\ GoodDocument(disk) /\ WorldInv
  BY DEF SharingInv, OpInv, GoodOp, Operations, GoodDocument, Enabled

(* async_disable                                                             *)
LEMMA DisableStep ==
  ASSUME SharingInv, Disable
  PROVE  SharingInv'
<1> DEFINE sh == IF disk.share = None THEN None ELSE [disk.share EXCEPT !.enabled = FALSE]
           c == [disk EXCEPT !.share = sh, !.archived = Archived(disk), !.pending = None, !.cursor = None,
                             !.revision = @ + 1]
<1>1. disk \in Documents /\ GoodDocument(disk) /\ WorldInv /\ disk.revision < MaxRevision
  BY DEF SharingInv, GoodDocument, Disable
<1>2. Begin("savingDisable", FALSE, {}, c)
  <2>1. c = [disk EXCEPT !.share = IF @ = None THEN None ELSE [@ EXCEPT !.enabled = FALSE],
                         !.archived = Archived(disk),
                         !.pending = None, !.cursor = None, !.revision = @ + 1]
    BY <1>1 DEF Documents
  <2> QED BY <2>1 DEF Disable
<1>3. GoodDocument(c) /\ Grown(c) /\ c.revision = disk.revision + 1 /\ c.cursor = None
  <2>1. sh = IF disk.share = None THEN None ELSE [disk.share EXCEPT !.enabled = FALSE]
    OBVIOUS
  <2> HIDE DEF sh
  <2>2. c = [disk EXCEPT !.share = sh, !.archived = Archived(disk), !.pending = None, !.cursor = None,
                         !.revision = @ + 1]
    OBVIOUS
  <2> HIDE DEF c
  <2> QED BY <1>1, <2>1, <2>2, DisableGood
<1> HIDE DEF c, sh
<1>4. c \in Documents /\ disk.revision \in Nat
  BY <1>1, <1>3, DocumentFacts DEF GoodDocument
<1>5. op' \in Operations /\ op'.pc = "savingDisable" /\ op'.pub = pub /\ op'.cand = c
  BY <1>1, <1>2, <1>4, BeginFacts, SavingFacts
<1>6. Candidate(op', c)
  BY <1>3, <1>4, <1>5, SavingFacts DEF Candidate
<1>7. GoodOp(op')
  BY <1>1, <1>5, <1>6, SavingFacts DEF GoodOp, WorldInv
<1> QED BY <1>5, <1>7, StepStays DEF Disable

(* async_refresh by an administrator                                         *)
LEMMA RefreshBeginsStep ==
  ASSUME SharingInv, RefreshBegins
  PROVE  SharingInv'
<1>1. disk \in Documents /\ GoodDocument(disk) /\ WorldInv /\ now \in Hours
  BY DEF SharingInv, GoodDocument, WorldInv
<1>2. PICK window \in {{now}, 1 .. now} : Begin("facts", FALSE, window, None)
  BY DEF RefreshBegins
<1>3. window \in SUBSET Hours
  BY <1>1, <1>2, SharingAssumption DEF Hours
<1>4. op' \in Operations /\ op'.pc = "facts" /\ op'.pub = pub /\ op'.runtime = FALSE
  BY <1>1, <1>2, <1>3, BeginFacts DEF Steps
<1>5. GoodOp(op')
  BY <1>1, <1>4, SavingFacts DEF GoodOp, WorldInv, RefreshBegins, AtHour
<1> QED BY <1>4, <1>5, StepStays DEF RefreshBegins

(* async_refresh by the hourly runtime: the cursor is durable first.         *)
LEMMA RuntimeBeginsStep ==
  ASSUME SharingInv, RuntimeBegins
  PROVE  SharingInv'
<1>1. disk \in Documents /\ GoodDocument(disk) /\ WorldInv /\ now \in Hours /\ Enabled(disk)
  BY DEF SharingInv, GoodDocument, WorldInv, RuntimeBegins
<1>2. CASE disk.cursor = None
  <2> DEFINE k == [next |-> now, last |-> 0, paused |-> FALSE]
             c == [disk EXCEPT !.cursor = k]
  <2>1. k \in Cursors /\ k.last = 0 /\ k # None
    <3>1. now \in 1 .. MaxHour + 1 /\ 0 \in 0 .. MaxHour /\ FALSE \in BOOLEAN
      BY <1>1, SharingAssumption DEF Hours
    <3>2. k \in Cursors
      BY <3>1 DEF Cursors
    <3> QED BY <3>2, NoneAssumption
  <2>2. Begin("savingCursor", TRUE, {}, c)
    BY <1>2 DEF RuntimeBegins
  <2> HIDE DEF k
  <2>3. GoodDocument(c)
    BY <1>1, <2>1, CursorGood
  <2>4. c.cursor = k /\ c.share = disk.share /\ c.revision = disk.revision /\ c.points = disk.points
    BY <1>1, <2>1, CursorDocument
  <2> HIDE DEF c
  <2>5. /\ op' \in Operations /\ op'.pc = "savingCursor" /\ op'.pub = pub /\ op'.runtime = TRUE
        /\ op'.cand = c
    BY <1>1, <2>2, <2>3, BeginFacts, SavingFacts DEF GoodDocument
  <2>6. Candidate(op', c)
    BY <1>2, <2>1, <2>3, <2>4, <2>5, SavingFacts DEF Candidate, Grown
  <2>7. GoodOp(op')
    BY <1>1, <2>5, <2>6, SavingFacts DEF GoodOp, WorldInv
  <2> QED BY <2>5, <2>7, StepStays DEF RuntimeBegins
<1>3. CASE disk.cursor # None
  <2>1. op' \in Operations /\ op'.pc = "cursor" /\ op'.pub = pub /\ op'.runtime = TRUE
    BY <1>1, <1>3, BeginFacts DEF Steps, RuntimeBegins
  <2>2. GoodOp(op')
    BY <1>1, <1>3, <2>1, SavingFacts DEF GoodOp, WorldInv
  <2> QED BY <2>1, <2>2, StepStays DEF RuntimeBegins
<1> QED BY <1>2, <1>3
(* Too many hours late: automatic updates pause until a new consent.         *)
LEMMA RuntimePausesStep ==
  ASSUME SharingInv, RuntimePauses
  PROVE  SharingInv'
<1> DEFINE k == [disk.cursor EXCEPT !.paused = TRUE]
           c == [disk EXCEPT !.cursor = k]
<1>1. op # NoOp /\ op.pc = "cursor"
  BY DEF RuntimePauses, NoOp
<1>2. /\ GoodOp(op) /\ op \in Operations /\ Enabled(disk) /\ disk.cursor # None
      /\ disk \in Documents /\ GoodDocument(disk) /\ WorldInv
  BY <1>1, OpFacts, SavingFacts DEF GoodOp
<1>3. k \in Cursors /\ k.next = disk.cursor.next /\ k.last = disk.cursor.last
  <2>1. disk.cursor \in Cursors /\ TRUE \in BOOLEAN
    BY <1>2 DEF Documents
  <2> QED BY <2>1 DEF Cursors
<1>4. Goto("savingPause", c)
  BY <1>2 DEF RuntimePauses, Documents
<1>5. k # None /\ (k.last # 0 => k.next = k.last + 1)
  BY <1>2, <1>3, NoneAssumption DEF GoodDocument, ValidState
<1> HIDE DEF k
<1>6. GoodDocument(c)
  BY <1>2, <1>3, <1>5, CursorGood
<1>7. c.cursor = k /\ c.share = disk.share /\ c.revision = disk.revision /\ c.points = disk.points
  BY <1>2, <1>3, CursorDocument
<1> HIDE DEF c
<1>8. /\ op' \in Operations /\ op'.pc = "savingPause" /\ op'.runtime = op.runtime /\ op'.pub = op.pub
      /\ op'.now = op.now /\ op'.window = op.window /\ op'.cand = c
  BY <1>2, <1>4, <1>6, GotoFacts, SavingFacts DEF GoodDocument
<1>9. Candidate(op', c)
  BY <1>2, <1>3, <1>5, <1>6, <1>7, <1>8, SavingFacts DEF Candidate, Grown
<1>10. GoodOp(op')
  BY <1>2, <1>8, <1>9, SavingFacts DEF GoodOp
<1> QED BY <1>10, StepStays DEF RuntimePauses

(* The hour of the cursor is read only once it is over.                      *)
LEMMA RuntimeReadsStep ==
  ASSUME SharingInv, RuntimeReads
  PROVE  SharingInv'
<1>1. op # NoOp /\ op.pc = "cursor"
  BY DEF RuntimeReads, NoOp
<1>2. /\ GoodOp(op) /\ op \in Operations /\ Enabled(disk) /\ disk.cursor # None
      /\ disk \in Documents /\ WorldInv
  BY <1>1, OpFacts, SavingFacts DEF GoodOp
<1>3. {disk.cursor.next} \in SUBSET Hours /\ disk.cursor.next <= op.now
  <2>1. disk.cursor.next \in 1 .. MaxHour + 1 /\ op.now \in Hours
    BY <1>2, DocumentFacts DEF Operations
  <2> QED BY <2>1, SharingAssumption DEF Hours, RuntimeReads, Due
<1>4. op' = [op EXCEPT !.pc = "facts", !.window = {disk.cursor.next}]
  BY DEF RuntimeReads
<1> DEFINE W == {disk.cursor.next}
<1>5. W \in SUBSET Hours /\ op' = [op EXCEPT !.pc = "facts", !.window = W]
  BY <1>3, <1>4
<1> HIDE DEF W
<1>6. /\ op' \in Operations /\ op'.pc = "facts" /\ op'.runtime = op.runtime /\ op'.pub = op.pub
      /\ op'.now = op.now /\ op'.window = W
  BY <1>2, <1>5 DEF Operations, Steps
<1>7. AtHour(op', disk)
  BY <1>2, <1>3, <1>6 DEF AtHour, W
<1>8. GoodOp(op')
  BY <1>2, <1>6, <1>7, SavingFacts DEF GoodOp
<1> QED BY <1>8, StepStays DEF RuntimeReads

(* Exact facts become a candidate with its intent, or change nothing.        *)
LEMMA FactsMergeStep ==
  ASSUME SharingInv, FactsMerge
  PROVE  SharingInv'
<1>1. op # NoOp /\ op.pc = "facts"
  BY DEF FactsMerge, NoOp
<1>2. /\ GoodOp(op) /\ op \in Operations /\ Enabled(disk) /\ op.window \in SUBSET Hours
      /\ disk \in Documents /\ GoodDocument(disk) /\ WorldInv /\ AtHour(op, disk)
  BY <1>1, OpFacts, SavingFacts DEF GoodOp
<1>3. PICK facts \in Facts(op.window) :
        LET cand == MergeFacts(disk, facts) IN
        IF cand.pending = None THEN Goto("probe", None) ELSE Goto("merged", cand)
  BY DEF FactsMerge
<1> DEFINE c == MergeFacts(disk, facts)
<1>4. IF c.pending = None THEN Goto("probe", None) ELSE Goto("merged", c)
  BY <1>3
<1>5. c = MergeFacts(disk, facts)
  OBVIOUS
<1> HIDE DEF c
<1>6. /\ GoodDocument(c) /\ c.share = disk.share /\ c.cursor = disk.cursor /\ c.revision = disk.revision
      /\ Grown(c)
      /\ op.window \subseteq RecordedHours(c)
      /\ c.pending = None => disk.pending = None /\ c.points = disk.points
  BY <1>2, <1>5, MergeGood DEF Grown
<1>7. CASE c.pending = None
  <2>1. /\ op' \in Operations /\ op'.pc = "probe" /\ op'.runtime = op.runtime /\ op'.pub = op.pub
        /\ op'.now = op.now /\ op'.window = op.window
    BY <1>2, <1>4, <1>7, GotoFacts DEF Steps
  <2>2. AllRecorded(op', disk)
    BY <1>6, <1>7, <2>1 DEF AllRecorded, RecordedHours
  <2>3. GoodOp(op')
    BY <1>2, <1>6, <1>7, <2>1, <2>2, SavingFacts DEF GoodOp, AtHour
  <2> QED BY <2>3, StepStays DEF FactsMerge
<1>8. CASE c.pending # None
  <2>1. /\ op' \in Operations /\ op'.pc = "merged" /\ op'.runtime = op.runtime /\ op'.pub = op.pub
        /\ op'.now = op.now /\ op'.window = op.window /\ op'.cand = c
    BY <1>2, <1>4, <1>6, <1>8, GotoFacts DEF Steps, GoodDocument
  <2>2. Candidate(op', c)
    BY <1>6, <1>8, <2>1, SavingFacts DEF Candidate, AllRecorded
  <2>3. GoodOp(op')
    BY <1>2, <2>1, <2>2, SavingFacts DEF GoodOp, AtHour
  <2> QED BY <2>3, StepStays DEF FactsMerge
<1> QED BY <1>7, <1>8

(* _complete_runtime: the cursor moves past an hour that is in the ledger.    *)
LEMMA CompletesStep ==
  ASSUME SharingInv, op.pc \in {"probe", "complete"}, Completes, UNCHANGED <<opFrame, cache>>
  PROVE  SharingInv'
<1> DEFINE k == [disk.cursor EXCEPT !.last = disk.cursor.next, !.next = disk.cursor.next + 1]
           c == [disk EXCEPT !.cursor = k]
<1>1. op # NoOp
  BY DEF NoOp
<1>2. /\ GoodOp(op) /\ op \in Operations /\ Enabled(disk) /\ op.runtime \in BOOLEAN
      /\ disk \in Documents /\ GoodDocument(disk) /\ WorldInv /\ AtHour(op, disk) /\ AllRecorded(op, disk)
  BY <1>1, OpFacts, SavingFacts DEF GoodOp
<1>3. CASE ~op.runtime
  BY <1>3, StepStays DEF Completes, End
<1>4. CASE op.runtime
  <2>1. /\ disk.cursor # None /\ disk.cursor \in Cursors /\ disk.cursor.next \in RecordedHours(disk)
        /\ disk.cursor.next <= op.now
    BY <1>2, <1>4 DEF AtHour, AllRecorded, Documents
  <2>2. k \in Cursors /\ k # None /\ k.next = disk.cursor.next + 1 /\ k.last = disk.cursor.next
    <3>1. op.now \in Hours /\ disk.cursor.next \in 1 .. MaxHour + 1
      BY <1>2, <2>1, DocumentFacts DEF Operations
    <3>2. disk.cursor.next + 1 \in 1 .. MaxHour + 1 /\ disk.cursor.next \in 0 .. MaxHour
      BY <2>1, <3>1, SharingAssumption DEF Hours
    <3>3. k \in Cursors /\ k.next = disk.cursor.next + 1 /\ k.last = disk.cursor.next
      BY <2>1, <3>2 DEF Cursors
    <3> QED BY <3>3, NoneAssumption
  <2>3. Advance(disk) = c
    BY <1>2, <2>1 DEF Advance, Documents, Cursors
  <2> HIDE DEF k
  <2>4. GoodDocument(c)
    BY <1>2, <2>2, CursorGood
  <2>5. c.cursor = k /\ c.share = disk.share /\ c.revision = disk.revision /\ c.points = disk.points
    BY <1>2, <2>2, CursorDocument
  <2> HIDE DEF c
  <2>6. /\ op' \in Operations /\ op'.pc = "savingCompleted" /\ op'.runtime = op.runtime /\ op'.pub = op.pub
        /\ op'.cand = c
    BY <1>2, <1>4, <2>3, <2>4, GotoFacts, SavingFacts DEF GoodDocument, Completes
  <2>7. Candidate(op', c)
    BY <2>1, <2>2, <2>3, <2>4, <2>5, <2>6, SavingFacts DEF Candidate, Grown
  <2>8. GoodOp(op')
    BY <1>2, <2>6, <2>7, SavingFacts DEF GoodOp
  <2> QED BY <2>8, StepStays
<1> QED BY <1>2, <1>3, <1>4

(* Rows of a view that differ are planned again from the ledger.             *)
LEMMA ProbeDiffersStep ==
  ASSUME SharingInv, ProbeDiffers
  PROVE  SharingInv'
<1> DEFINE q == [series |-> ViewSeries, clear |-> ViewSeries]
           c == [disk EXCEPT !.pending = q]
<1>1. op # NoOp /\ op.pc = "probe"
  BY DEF ProbeDiffers, NoOp
<1>2. /\ GoodOp(op) /\ op \in Operations /\ Enabled(disk) /\ disk.pending = None /\ op.window \in SUBSET Hours
      /\ disk \in Documents /\ GoodDocument(disk) /\ WorldInv /\ AtHour(op, disk) /\ AllRecorded(op, disk)
  BY <1>1, OpFacts, SavingFacts DEF GoodOp
<1>3. /\ ViewSeries \in SUBSET Series /\ ViewSeries # {}
      /\ \A s \in ViewSeries : \E h \in Hours : disk.points[disk.share.epoch][s][h] # Absent
  BY <1>2 DEF ProbeDiffers, ViewMatches, ViewSeries
<1>4. GoodDocument(c)
  BY <1>2, <1>3, RepairGood
<1>5. c.pending # None /\ c.share = disk.share /\ c.cursor = disk.cursor /\ c.points = disk.points
      /\ c.revision = disk.revision
  <2>1. q \in Intents
    BY <1>3 DEF Intents
  <2> HIDE DEF q
  <2> QED BY <1>2, <2>1, PendingDocument, NoneAssumption
<1>6. Goto("merged", c)
  BY DEF ProbeDiffers
<1> HIDE DEF c
<1>7. /\ op' \in Operations /\ op'.pc = "merged" /\ op'.runtime = op.runtime /\ op'.pub = op.pub
      /\ op'.now = op.now /\ op'.window = op.window /\ op'.cand = c
  BY <1>2, <1>4, <1>6, GotoFacts DEF Steps, GoodDocument
<1>8. Candidate(op', c)
  BY <1>2, <1>4, <1>5, <1>7, SavingFacts DEF Candidate, Grown, AllRecorded, RecordedHours
<1>9. GoodOp(op')
  BY <1>2, <1>7, <1>8, SavingFacts DEF GoodOp, AtHour
<1> QED BY <1>9, StepStays DEF ProbeDiffers

LEMMA SavesIntentStep ==
  ASSUME SharingInv, SavesIntent
  PROVE  SharingInv'
<1>1. op # NoOp /\ op.pc = "merged"
  BY DEF SavesIntent, NoOp
<1>2. /\ GoodOp(op) /\ op \in Operations /\ Enabled(disk) /\ AtHour(op, disk) /\ Candidate(op, op.cand)
  BY <1>1, OpFacts, SavingFacts DEF GoodOp
<1> DEFINE c == op.cand
<1>3. c \in Documents /\ Goto("savingIntent", c)
  BY <1>2 DEF SavesIntent, Candidate, GoodDocument
<1> HIDE DEF c
<1>4. /\ op' \in Operations /\ op'.pc = "savingIntent" /\ op'.runtime = op.runtime /\ op'.pub = op.pub
      /\ op'.now = op.now /\ op'.window = op.window /\ op'.cand = c
  BY <1>2, <1>3, GotoFacts, SavingFacts
<1>5. Candidate(op, c)
  BY <1>2 DEF c
<1>6. Candidate(op', c)
  BY <1>1, <1>4, <1>5, SavingFacts DEF Candidate, AllRecorded
<1>7. GoodOp(op')
  BY <1>2, <1>4, <1>6, SavingFacts DEF GoodOp, AtHour
<1> QED BY <1>7, StepStays DEF SavesIntent

(* The readback matched while at most the last job is under way.             *)
LEMMA VerifiesStep ==
  ASSUME SharingInv, Verifies
  PROVE  SharingInv'
<1> DEFINE c == [disk EXCEPT !.pending = None]
<1>1. op # NoOp /\ op.pc = "verify"
  BY DEF Verifies, NoOp
<1>2. /\ GoodOp(op) /\ op \in Operations /\ Enabled(disk) /\ disk.pending # None /\ LastRepeats
      /\ disk \in Documents /\ GoodDocument(disk) /\ WorldInv /\ AtHour(op, disk) /\ AllRecorded(op, disk)
  BY <1>1, OpFacts, SavingFacts DEF GoodOp
<1>3. GoodDocument(c)
  BY <1>2, ConfirmGood DEF WorldInv, Verifies, Barrier
<1>4. c.share = disk.share /\ c.cursor = disk.cursor /\ c.points = disk.points /\ c.revision = disk.revision
  BY <1>2, PendingDocument
<1>5. Goto("savingConfirmed", c)
  BY DEF Verifies
<1> HIDE DEF c
<1>6. /\ op' \in Operations /\ op'.pc = "savingConfirmed" /\ op'.runtime = op.runtime /\ op'.pub = op.pub
      /\ op'.now = op.now /\ op'.window = op.window /\ op'.cand = c
  BY <1>2, <1>3, <1>5, GotoFacts, SavingFacts DEF GoodDocument
<1>7. Candidate(op', c)
  BY <1>2, <1>3, <1>4, <1>6, SavingFacts DEF Candidate, Grown
<1>8. GoodOp(op')
  BY <1>2, <1>6, <1>7, SavingFacts DEF GoodOp, AtHour, AllRecorded
<1> QED BY <1>8, StepStays DEF Verifies
(* async_enable: the operation is the first one of its consent.              *)
LEMMA EnableStep ==
  ASSUME SharingInv, NEW a \in Authors, Enable(a)
  PROVE  SharingInv'
<1> DEFINE e == IF KeepsEpoch(disk) THEN disk.share.epoch ELSE epochs + 1
           sh == [enabled |-> TRUE, author |-> a, epoch |-> e, dataset |-> dataset]
<1>1. disk \in Documents /\ GoodDocument(disk) /\ WorldInv
  BY DEF SharingInv, GoodDocument
<1>2. /\ disk.revision < MaxRevision /\ (disk.pending # None => KeepsEpoch(disk))
      /\ e \in Epochs /\ epochs' = (IF KeepsEpoch(disk) THEN epochs ELSE e)
      /\ Loads /\ UNCHANGED <<now, dataset, rows, removed, pub, disk, queue>>
  BY DEF Enable
<1>3. /\ op'.cand = [disk EXCEPT !.share = sh, !.revision = @ + 1, !.cursor = None]
      /\ op'.pc = "savingShare" /\ op'.pub = pub /\ op'.now = now /\ op'.window = {} /\ op'.runtime = FALSE
      /\ op' = [pc |-> op'.pc, runtime |-> op'.runtime, pub |-> op'.pub, now |-> op'.now,
                window |-> op'.window, cand |-> op'.cand]
  BY DEF Enable, Begin
<1>4. /\ GoodDocument(op.cand)' /\ Grown(op'.cand) /\ op'.cand.revision = disk.revision + 1 /\ op'.cand.cursor = None
      /\ epochs \in Nat /\ epochs' \in Nat /\ epochs <= epochs' /\ epochs' <= MaxEpoch
  <2>1. e = (IF KeepsEpoch(disk) THEN disk.share.epoch ELSE epochs + 1)
    OBVIOUS
  <2> HIDE DEF e
  <2>2. sh = [enabled |-> TRUE, author |-> a, epoch |-> e, dataset |-> dataset]
    OBVIOUS
  <2> HIDE DEF sh
  <2> QED BY <1>1, <1>2, <1>3, <2>1, <2>2, EnableGood
<1> HIDE DEF sh, e
<1>5. op'.cand \in Documents
  BY <1>4 DEF GoodDocument
<1>6. op' \in Operations
  <2>1. pub \in Nat /\ now \in Hours
    BY <1>1 DEF WorldInv
  <2> QED BY <1>3, <1>5, <2>1, SavingFacts DEF Operations
<1>7. GoodDocument(disk)'
  BY <1>1, <1>2, <1>4, GoodStays
<1>8. disk.revision \in Nat
  BY <1>1, DocumentFacts
<1>9. Candidate(op, op.cand)'
  BY <1>2, <1>3, <1>4, <1>8, SavingFacts DEF Candidate, Grown
<1>10. GoodOp(op)'
  BY <1>1, <1>2, <1>3, <1>6, <1>9, SavingFacts DEF GoodOp, WorldInv
<1>11. WorldInv'
  BY <1>1, <1>2, <1>4, WorldStays DEF WorldInv
<1>12. CacheIsDurable'
  BY <1>2 DEF CacheIsDurable, Loads
<1> QED BY <1>7, <1>10, <1>11, <1>12 DEF SharingInv, OpInv

-----------------------------------------------------------------------------
(* The steps around the operations *)

(* A write ends: confirmed, failed, cancelled, of a publisher in use or not.  *)
LEMMA SaveEndsStep ==
  ASSUME SharingInv, NEW ok \in BOOLEAN, NEW durable \in BOOLEAN, SaveEnds(ok, durable)
  PROVE  SharingInv'
<1>1. op # NoOp /\ op.pc \in Saving
  BY SavingFacts DEF SaveEnds, NoOp
<1>2. /\ GoodOp(op) /\ op \in Operations /\ disk \in Documents /\ GoodDocument(disk) /\ WorldInv
      /\ Candidate(op, op.cand) /\ CacheIsDurable
  BY <1>1, OpFacts DEF GoodOp, SharingInv
<1>3. UNCHANGED <<now, dataset, rows, epochs, removed, pub, queue>>
  BY DEF SaveEnds, worldVars
<1>4. /\ ok => durable
      /\ disk' = (IF durable THEN op.cand ELSE disk)
      /\ cache' = (IF ~Live THEN cache ELSE IF ok THEN op.cand ELSE CacheAfterFailure)
      /\ IF ok /\ After[op.pc] # "idle" THEN Goto(After[op.pc], None) ELSE End
  BY DEF SaveEnds
<1>5. ~Live => cache = None
  BY <1>2 DEF GoodOp, Live
<1>6. GoodDocument(op.cand) /\ Grown(op.cand)
  BY <1>2 DEF Candidate
<1>7. GoodDocument(disk)'
  <2>1. epochs \in Nat /\ epochs' \in Nat /\ epochs <= epochs'
    BY <1>2, <1>3, EpochsTaken
  <2>2. GoodDocument(disk')
    BY <1>2, <1>4, <1>6
  <2> QED BY <1>3, <2>1, <2>2, GoodStays
<1>8. \A x \in Epochs, s \in Series, h \in Hours :
        disk.points[x][s][h] # Absent => disk'.points[x][s][h] # Absent
  BY <1>4, <1>6 DEF Grown
<1>9. WorldInv'
  <2>1. ASSUME NEW i \in 1 .. Len(queue)
        PROVE  Planned(queue[i])'
    <3>1. queue[i] \in ClearJobs \cup ImportJobs /\ Planned(queue[i])
      BY <1>2, ElementOfSeq DEF WorldInv
    <3>2. queue[i].epoch \in Epochs /\ queue[i].series \subseteq Series
      BY <3>1 DEF ClearJobs, ImportJobs
    <3> QED BY <1>3, <1>8, <3>1, <3>2 DEF Planned
  <2>2. RowsKnown'
    BY <1>2, <1>3, <1>8 DEF WorldInv, RowsKnown
  <2> QED BY <1>2, <1>3, <2>1, <2>2 DEF WorldInv
<1>10. CacheIsDurable'
  BY <1>2, <1>4, <1>5 DEF CacheIsDurable, CacheAfterFailure
<1>11. OpInv'
  <2>1. CASE ok /\ After[op.pc] # "idle"
    <3>0. op.pc \in {"savingCursor", "savingIntent", "savingConfirmed"}
          /\ (op.pc = "savingCursor" => After[op.pc] = "cursor")
          /\ (op.pc = "savingIntent" => After[op.pc] = "enqueue")
          /\ (op.pc = "savingConfirmed" => After[op.pc] = "complete")
      BY <1>1, <2>1, SavingFacts DEF After
    <3>1. /\ op' \in Operations /\ op'.pc = After[op.pc] /\ op'.runtime = op.runtime /\ op'.pub = op.pub
          /\ op'.now = op.now /\ op'.window = op.window /\ op'.cand = None
      BY <1>2, <1>4, <2>1, <3>0, GotoFacts DEF Steps
    <3>2. disk' = op.cand /\ disk'.share = disk.share /\ Enabled(disk')
      BY <1>2, <1>4, <2>1, <3>0, SavingFacts DEF Candidate, GoodOp, Enabled
    <3>3. op'.pub <= pub' /\ (op'.pub # pub' => cache' = None)
      BY <1>2, <1>3, <1>4, <1>5, <3>1 DEF GoodOp, Live
    <3>4. CASE op.pc = "savingCursor"
      <4>1. op.runtime /\ disk'.cursor # None
        BY <1>2, <3>2, <3>4 DEF Candidate
      <4> QED BY <3>0, <3>1, <3>2, <3>3, <3>4, <4>1, SavingFacts DEF OpInv, GoodOp, Enabled
    <3>5. CASE op.pc = "savingIntent"
      <4>1. /\ disk'.pending # None /\ disk'.cursor = disk.cursor /\ AllRecorded(op, disk')
            /\ AtHour(op, disk)
        BY <1>2, <3>2, <3>5, SavingFacts DEF Candidate, GoodOp
      <4>2. AtHour(op, disk)' /\ AllRecorded(op, disk)'
        BY <3>1, <4>1 DEF AtHour, AllRecorded, RecordedHours
      <4> QED BY <3>0, <3>1, <3>2, <3>3, <3>5, <4>1, <4>2, SavingFacts DEF OpInv, GoodOp, Enabled
    <3>6. CASE op.pc = "savingConfirmed"
      <4>1. /\ disk'.cursor = disk.cursor /\ disk'.points = disk.points
            /\ AtHour(op, disk) /\ AllRecorded(op, disk)
        BY <1>2, <3>2, <3>6, SavingFacts DEF Candidate, GoodOp
      <4>2. AtHour(op, disk)' /\ AllRecorded(op, disk)'
        BY <3>1, <3>2, <4>1 DEF AtHour, AllRecorded, RecordedHours
      <4> QED BY <3>0, <3>1, <3>2, <3>3, <3>6, <4>2, SavingFacts DEF OpInv, GoodOp, Enabled
    <3> QED BY <3>0, <3>4, <3>5, <3>6
  <2>2. CASE ~(ok /\ After[op.pc] # "idle")
    BY <1>4, <2>2 DEF End, OpInv, NoOp
  <2> QED BY <2>1, <2>2
<1> QED BY <1>7, <1>9, <1>10, <1>11 DEF SharingInv

(* Every job of the plan is for the durable intent.                          *)
LEMMA EnqueuesStep ==
  ASSUME SharingInv, Enqueues
  PROVE  SharingInv'
<1> DEFINE J == Jobs(disk)
           AnyJob == ClearJobs \cup ImportJobs
           e == disk.share.epoch
<1>1. op # NoOp /\ op.pc = "enqueue"
  BY DEF Enqueues, NoOp
<1>2. /\ GoodOp(op) /\ op \in Operations /\ Enabled(disk) /\ disk.share # None /\ disk.pending # None
      /\ disk \in Documents /\ GoodDocument(disk) /\ WorldInv /\ AtHour(op, disk) /\ AllRecorded(op, disk)
  BY <1>1, OpFacts, SavingFacts DEF GoodOp
<1>3. /\ UNCHANGED <<now, dataset, rows, epochs, removed, pub, disk, cache>>
      /\ queue' = queue \o J /\ Goto("verify", None)
  BY DEF Enqueues, worldVars
<1>4. /\ disk.pending.clear \subseteq disk.pending.series /\ disk.pending.series # {}
      /\ disk.pending.series \subseteq Series /\ e \in Epochs
      /\ \A s \in disk.pending.series : \E h \in Hours : disk.points[e][s][h] # Absent
      /\ disk.points[e] \in [Series -> [Hours -> Cells]]
  BY <1>2, DocumentFacts DEF GoodDocument, ValidState
<1>5. /\ J \in Seq(AnyJob) /\ Len(J) \in Nat \ {0}
      /\ \A i \in 1 .. Len(J) :
           /\ J[i].epoch = e
           /\ J[i].series \subseteq disk.pending.series
           /\ J[i].do = "import" =>
                \E s \in disk.pending.series : J[i].series = {s} /\ J[i].rows = Sums(disk.points[e][s])
      /\ J[Len(J)].do = "import"
  BY <1>2, <1>4, PlanFacts
<1>6. queue \in Seq(AnyJob) /\ Len(queue) \in Nat
  BY <1>2 DEF WorldInv
<1>7. /\ queue' \in Seq(AnyJob) /\ Len(queue') = Len(queue) + Len(J)
      /\ \A i \in 1 .. Len(queue') :
           \/ i \in 1 .. Len(queue) /\ queue'[i] = queue[i]
           \/ \E k \in 1 .. Len(J) : k = i - Len(queue) /\ queue'[i] = J[k]
  <2> HIDE DEF J, AnyJob
  <2>0. queue \in Seq(AnyJob) /\ J \in Seq(AnyJob)
    BY <1>5, <1>6
  <2>1. /\ queue \o J \in Seq(AnyJob)
        /\ Len(queue \o J) = Len(queue) + Len(J)
        /\ \A i \in 1 .. Len(queue) + Len(J) :
             (queue \o J)[i] = IF i <= Len(queue) THEN queue[i] ELSE J[i - Len(queue)]
    BY ONLY <2>0, ConcatProperties, Zenon
  <2>2. ASSUME NEW i \in 1 .. Len(queue')
        PROVE  \/ i \in 1 .. Len(queue) /\ queue'[i] = queue[i]
               \/ \E k \in 1 .. Len(J) : k = i - Len(queue) /\ queue'[i] = J[k]
    <3>1. i \in 1 .. Len(queue) + Len(J) /\ Len(J) \in Nat
      BY <1>3, <1>5, <2>1
    <3>2. CASE i <= Len(queue)
      BY <1>3, <1>6, <2>1, <3>1, <3>2
    <3>3. CASE ~(i <= Len(queue))
      <4>1. i - Len(queue) \in 1 .. Len(J)
        BY <1>6, <3>1, <3>3
      <4>2. queue'[i] = J[i - Len(queue)]
        BY <1>3, <2>1, <3>1, <3>3
      <4> QED BY <4>1, <4>2
    <3> QED BY <3>2, <3>3
  <2> QED BY <1>3, <2>1, <2>2
<1> HIDE DEF J, AnyJob
<1>8. \A k \in 1 .. Len(J) : Planned(J[k])
  <2> TAKE k \in 1 .. Len(J)
  <2>1. ASSUME J[k].do = "import", NEW s \in J[k].series, NEW h \in DOMAIN J[k].rows
        PROVE  h \in Hours /\ disk.points[e][s][h] # Absent
    <3>1. h \in DOMAIN Sums(disk.points[e][s])
      BY <1>5, <2>1
    <3> QED BY <3>1, SumsDomain, SharingAssumption
  <2> QED BY <1>4, <1>5, <2>1 DEF Planned
<1>9. WorldInv'
  <2>1. \A i \in 1 .. Len(queue') : Planned(queue'[i])
    BY <1>2, <1>7, <1>8 DEF WorldInv
  <2>2. \A i \in 1 .. Len(queue') : Planned(queue[i])'
    BY <1>3, <2>1 DEF Planned
  <2> QED BY <1>2, <1>3, <1>7, <2>2 DEF WorldInv, RowsKnown, AnyJob
<1>10. GoodDocument(disk)'
  <2>1. ASSUME NEW x \in Epochs, NEW s \in Series
        PROVE  Covered(disk, x, s)'
    <3> SUFFICES ASSUME s \notin IntentOf(disk, x), <<x, s>> \notin removed
                 PROVE  /\ Holds(disk, x, s)'
                        /\ \A i \in 1 .. Len(queue') :
                             queue'[i].epoch = x /\ s \in queue'[i].series => Repeats(queue'[i], disk, x, s)
      BY <1>3 DEF Covered, IntentOf, Intended, Repeats
    <3>1. Covered(disk, x, s)
      BY <1>2 DEF GoodDocument
    <3>2. Holds(disk, x, s)'
      BY <1>3, <3>1 DEF Covered, Holds
    <3>3. x # e \/ s \notin disk.pending.series
      BY <1>2, IntentFacts
    <3>4. \A i \in 1 .. Len(queue') :
            queue'[i].epoch = x /\ s \in queue'[i].series => Repeats(queue'[i], disk, x, s)
      BY <1>5, <1>7, <3>1, <3>3 DEF Covered
    <3> QED BY <3>2, <3>4
  <2>2. epochs \in Nat /\ epochs' \in Nat /\ epochs <= epochs'
    BY <1>2, <1>3, EpochsTaken
  <2> QED BY <1>2, <1>3, <2>1, <2>2, CoverStays
<1>11. LastRepeats'
  <2>1. queue'[Len(queue')] = J[Len(J)]
    BY <1>5, <1>6, <1>7
  <2>2. PICK s \in disk.pending.series : J[Len(J)].series = {s} /\ J[Len(J)].rows = Sums(disk.points[e][s])
    BY <1>5
  <2>3. J[Len(J)].epoch = e
    BY <1>5
  <2> QED BY <1>3, <1>5, <2>1, <2>2, <2>3 DEF LastRepeats, Repeats
<1>12. OpInv'
  <2>1. /\ op' \in Operations /\ op'.pc = "verify" /\ op'.runtime = op.runtime /\ op'.pub = op.pub
        /\ op'.now = op.now /\ op'.window = op.window
    BY <1>2, <1>3, GotoFacts DEF Steps
  <2>2. AtHour(op, disk)' /\ AllRecorded(op, disk)'
    BY <1>2, <1>3, <2>1 DEF AtHour, AllRecorded, RecordedHours
  <2> QED BY <1>2, <1>3, <1>11, <2>1, <2>2, SavingFacts DEF OpInv, GoodOp, Enabled
<1>13. CacheIsDurable'
  BY <1>3 DEF CacheIsDurable, SharingInv
<1> QED BY <1>9, <1>10, <1>12, <1>13 DEF SharingInv
(* What the next queue keeps when the Recorder takes a job.                  *)
LEMMA TailFacts ==
  ASSUME queue \in Seq(ClearJobs \cup ImportJobs), queue # <<>>, queue' = Tail(queue)
  PROVE  /\ queue' \in Seq(ClearJobs \cup ImportJobs)
         /\ \A i \in 1 .. Len(queue') : i + 1 \in 1 .. Len(queue) /\ queue'[i] = queue[i + 1]
         /\ queue' # <<>> => queue'[Len(queue')] = queue[Len(queue)]
         /\ Head(queue) = queue[1] /\ 1 \in 1 .. Len(queue)
<1> DEFINE AnyJob == ClearJobs \cup ImportJobs
<1> HIDE DEF AnyJob
<1>1. queue \in Seq(AnyJob)
  BY DEF AnyJob
<1>2. /\ queue' \in Seq(AnyJob) /\ Len(queue') = Len(queue) - 1 /\ Len(queue) \in Nat \ {0}
      /\ \A i \in 1 .. Len(queue') : queue'[i] = queue[i + 1]
      /\ Head(queue) = queue[1]
  BY <1>1, HeadTailProperties, EmptySeq
<1>3. Len(queue') \in Nat
  BY <1>2
<1>4. queue' # <<>> => Len(queue') # 0
  BY <1>2, EmptySeq
<1>5. queue' # <<>> => queue'[Len(queue')] = queue[Len(queue)]
  BY <1>2, <1>3, <1>4
<1> QED BY <1>2, <1>3, <1>5 DEF AnyJob

(* The operation in progress keeps what it relies on while the queue drains   *)
(* and rows change under it, as long as its document stays covered.          *)
LEMMA OpKeeps ==
  ASSUME SharingInv, UNCHANGED <<pub, cache, disk, op, epochs>>,
         queue' # <<>> => queue # <<>> /\ queue'[Len(queue')] = queue[Len(queue)],
         op # NoOp /\ op.pc \in Saving \cup {"merged"} => GoodDocument(op.cand)'
  PROVE  OpInv' /\ CacheIsDurable'
<1>1. CacheIsDurable'
  BY DEF SharingInv, CacheIsDurable
<1>2. ASSUME op # NoOp
      PROVE  GoodOp(op)'
  <2>1. GoodOp(op)
    BY <1>2 DEF SharingInv, OpInv
  <2>2. LastRepeats => LastRepeats'
    BY DEF LastRepeats, Repeats
  <2>3. op.pc \in Saving \cup {"merged"} => Candidate(op, op.cand)'
    <3>1. \A d : RecordedHours(d)' = RecordedHours(d)
      BY DEF RecordedHours
    <3> QED BY <1>2, <2>1, <3>1 DEF GoodOp, Candidate, Grown, AllRecorded, Advance
  <2> QED BY <2>1, <2>2, <2>3 DEF GoodOp, Enabled, AtHour, AllRecorded, RecordedHours
<1> QED BY <1>1, <1>2 DEF OpInv

(* The other steps of the Recorder.                                          *)
LEMMA RecorderDropsStep ==
  ASSUME SharingInv, RecorderDrops
  PROVE  SharingInv'
<1>1. /\ UNCHANGED <<now, dataset, rows, epochs, removed, pub, cache, disk, op>>
      /\ queue # <<>> /\ queue' = Tail(queue) /\ WorldInv /\ GoodDocument(disk)
  BY DEF RecorderDrops, worldVars, SharingInv
<1>2. /\ queue' \in Seq(ClearJobs \cup ImportJobs)
      /\ \A i \in 1 .. Len(queue') : i + 1 \in 1 .. Len(queue) /\ queue'[i] = queue[i + 1]
      /\ queue' # <<>> => queue'[Len(queue')] = queue[Len(queue)]
  BY <1>1, TailFacts DEF WorldInv
<1>3. WorldInv'
  <2>1. \A i \in 1 .. Len(queue') : Planned(queue'[i])
    BY <1>1, <1>2 DEF WorldInv
  <2>2. \A i \in 1 .. Len(queue') : Planned(queue[i])'
    BY <1>1, <2>1 DEF Planned
  <2> QED BY <1>1, <1>2, <2>2 DEF WorldInv, RowsKnown
<1>4. ASSUME NEW d, GoodDocument(d)
      PROVE  GoodDocument(d)'
  <2>1. ASSUME NEW e \in Epochs, NEW s \in Series
        PROVE  Covered(d, e, s)'
    <3>1. Covered(d, e, s)
      BY <1>4 DEF GoodDocument
    <3>2. \A i \in 1 .. Len(queue') : \E j \in 1 .. Len(queue) : queue'[i] = queue[j]
      BY <1>2
    <3> QED BY <1>1, <3>1, <3>2 DEF Covered, Holds, Repeats
  <2> QED BY <1>1, <1>4, <2>1, EpochsTaken, CoverStays
<1>5. op # NoOp /\ op.pc \in Saving \cup {"merged"} => GoodDocument(op.cand)'
  BY <1>1, <1>4 DEF SharingInv, OpInv, GoodOp, Candidate
<1>6. GoodDocument(disk)'
  BY <1>1, <1>4
<1> QED BY <1>1, <1>2, <1>3, <1>5, <1>6, OpKeeps DEF SharingInv
(* The Recorder runs a job: the rows of a covered series become what they     *)
(* were, those of any other series rows of facts.                            *)
LEMMA RecorderAppliesStep ==
  ASSUME SharingInv, RecorderApplies
  PROVE  SharingInv'
<1> DEFINE job == Head(queue)
           new(e, s) == IF e = job.epoch /\ s \in job.series THEN Applied(job, rows[e][s]) ELSE rows[e][s]
<1>1. /\ UNCHANGED <<now, dataset, epochs, removed, pub, cache, disk, op>>
      /\ queue # <<>> /\ queue' = Tail(queue) /\ WorldInv /\ GoodDocument(disk)
      /\ rows' = [rows EXCEPT ![job.epoch] = [s \in Series |-> IF s \in job.series THEN Applied(job, @[s]) ELSE @[s]]]
  BY DEF RecorderApplies, SharingInv
<1>2. /\ queue' \in Seq(ClearJobs \cup ImportJobs)
      /\ \A i \in 1 .. Len(queue') : i + 1 \in 1 .. Len(queue) /\ queue'[i] = queue[i + 1]
      /\ queue' # <<>> => queue'[Len(queue')] = queue[Len(queue)]
      /\ job = queue[1] /\ 1 \in 1 .. Len(queue)
  BY <1>1, TailFacts DEF WorldInv
<1>3. job \in ClearJobs \cup ImportJobs /\ Planned(job)
  <2> HIDE DEF job
  <2> QED BY <1>1, <1>2, ElementOfSeq DEF WorldInv
<1>4. job.epoch \in Epochs /\ job.series \subseteq Series /\ job.do \in {"clear", "import"}
  <2> HIDE DEF job
  <2> QED BY <1>3 DEF ClearJobs, ImportJobs
<1> HIDE DEF job
<1>5. /\ \A e \in Epochs, s \in Series : rows'[e][s] = new(e, s)
      /\ rows' = [e \in Epochs |-> [s \in Series |-> rows'[e][s]]]
  <2> DEFINE r == [s \in Series |-> IF s \in job.series THEN Applied(job, rows[job.epoch][s]) ELSE rows[job.epoch][s]]
  <2>1. rows = [e \in Epochs |-> [s \in Series |-> rows[e][s]]]
    BY <1>1 DEF WorldInv
  <2>2. rows' = [e \in Epochs |-> IF e = job.epoch THEN r ELSE rows[e]]
    BY <1>1, <1>4, <2>1
  <2>3. \A e \in Epochs : rows'[e] = [s \in Series |-> new(e, s)]
    BY <2>1, <2>2
  <2> HIDE DEF r, new
  <2>4. \A e \in Epochs, s \in Series : rows'[e][s] = new(e, s)
    BY <2>3
  <2> QED BY <2>2, <2>3, <2>4
<1>6. WorldInv'
  <2>1. \A i \in 1 .. Len(queue') : Planned(queue'[i])
    BY <1>1, <1>2 DEF WorldInv
  <2>2. \A i \in 1 .. Len(queue') : Planned(queue[i])'
    BY <1>1, <2>1 DEF Planned
  <2>3. ASSUME NEW e \in Epochs, NEW s \in Series, NEW h \in Hours, rows'[e][s] # NoRows, rows'[e][s][h] # Absent
        PROVE  disk.points[e][s][h] # Absent
    <3>1. rows[e][s] # NoRows => (rows[e][s][h] # Absent => disk.points[e][s][h] # Absent)
      BY <1>1 DEF WorldInv, RowsKnown
    <3>2. CASE e = job.epoch /\ s \in job.series /\ h \in DOMAIN job.rows /\ job.do = "import"
      BY <1>3, <3>2 DEF Planned
    <3>3. CASE e = job.epoch /\ s \in job.series /\ ~(h \in DOMAIN job.rows /\ job.do = "import")
      BY <1>4, <1>5, <2>3, <3>1, <3>3 DEF Applied
    <3>4. CASE ~(e = job.epoch /\ s \in job.series)
      BY <1>5, <2>3, <3>1, <3>4
    <3> QED BY <3>2, <3>3, <3>4
  <2>4. RowsKnown'
    BY <1>1, <2>3 DEF RowsKnown
  <2> QED BY <1>1, <1>2, <1>5, <2>2, <2>4 DEF WorldInv
<1>7. ASSUME NEW d, GoodDocument(d), Grown(d)
      PROVE  GoodDocument(d)'
  <2>1. ASSUME NEW e \in Epochs, NEW s \in Series
        PROVE  Covered(d, e, s)'
    <3> SUFFICES ASSUME s \notin IntentOf(d, e), <<e, s>> \notin removed
                 PROVE  /\ Holds(d, e, s)'
                        /\ \A i \in 1 .. Len(queue') :
                             queue'[i].epoch = e /\ s \in queue'[i].series => Repeats(queue'[i], d, e, s)
      BY <1>1 DEF Covered, Repeats
    <3>1. /\ Holds(d, e, s)
          /\ \A i \in 1 .. Len(queue) :
               queue[i].epoch = e /\ s \in queue[i].series => Repeats(queue[i], d, e, s)
      BY <1>7 DEF GoodDocument, Covered
    <3>2. CASE ~(e = job.epoch /\ s \in job.series)
      <4>1. rows'[e][s] = rows[e][s]
        BY <1>5, <3>2
      <4>2. Holds(d, e, s)'
        BY <3>1, <4>1 DEF Holds
      <4> QED BY <1>2, <3>1, <4>2
    <3>3. CASE e = job.epoch /\ s \in job.series
      <4> DEFINE sums == Sums(d.points[e][s])
                 old == rows[e][s]
      <4>1. job.do = "import" /\ job.rows = sums
        BY <1>2, <3>1, <3>3 DEF Repeats
      <4>2. PICK k \in Hours : d.points[e][s][k] # Absent
        BY <1>3, <1>7, <3>3 DEF Planned, Grown
      <4>3. /\ old # NoRows
            /\ \A h \in Hours : old[h] = (IF h \in DOMAIN sums THEN sums[h] ELSE Absent)
        BY <3>1, <4>2 DEF Holds
      <4> HIDE DEF sums
      <4>4. rows'[e][s] = [h \in Hours |-> IF h \in DOMAIN sums THEN sums[h] ELSE old[h]]
        BY <1>5, <3>3, <4>1, <4>3 DEF Applied
      <4>5. rows'[e][s] # NoRows
        <5>1. DOMAIN rows'[e][s] = Hours /\ Hours # {}
          BY <4>2, <4>4
        <5> QED BY <5>1 DEF NoRows
      <4>6. \A h \in Hours : rows'[e][s][h] = (IF h \in DOMAIN sums THEN sums[h] ELSE Absent)
        BY <4>3, <4>4
      <4>7. Holds(d, e, s)'
        BY <4>2, <4>5, <4>6 DEF Holds, sums
      <4> QED BY <1>2, <3>1, <4>7
    <3> QED BY <3>2, <3>3
  <2> QED BY <1>1, <1>7, <2>1, EpochsTaken, CoverStays
<1>8. op # NoOp /\ op.pc \in Saving \cup {"merged"} => GoodDocument(op.cand)'
  BY <1>1, <1>7 DEF SharingInv, OpInv, GoodOp, Candidate
<1>9. GoodDocument(disk)'
  <2>1. Grown(disk)
    BY DEF Grown
  <2> QED BY <1>1, <1>7, <2>1
<1> QED BY <1>1, <1>2, <1>6, <1>8, <1>9, OpKeeps DEF SharingInv

(* Somebody removes a series: it is no longer compared.                      *)
LEMMA SeriesRemovedStep ==
  ASSUME SharingInv, NEW x \in Epochs, NEW y \in Series, SeriesRemoved(x, y)
  PROVE  SharingInv'
<1>1. /\ UNCHANGED <<now, dataset, epochs, pub, cache, disk, op, queue>> /\ WorldInv /\ GoodDocument(disk)
      /\ rows' = [rows EXCEPT ![x][y] = NoRows] /\ removed' = removed \cup {<<x, y>>}
  BY DEF SeriesRemoved, SharingInv
<1>2. /\ \A e \in Epochs, s \in Series : rows'[e][s] = IF e = x /\ s = y THEN NoRows ELSE rows[e][s]
      /\ rows' = [e \in Epochs |-> [s \in Series |-> rows'[e][s]]]
  <2>1. rows = [e \in Epochs |-> [s \in Series |-> rows[e][s]]]
    BY <1>1 DEF WorldInv
  <2> DEFINE r == [s \in Series |-> IF s = y THEN NoRows ELSE rows[x][s]]
  <2>2. rows' = [e \in Epochs |-> IF e = x THEN r ELSE rows[e]]
    BY <1>1, <2>1
  <2>3. \A e \in Epochs : rows'[e] = [s \in Series |-> IF e = x /\ s = y THEN NoRows ELSE rows[e][s]]
    BY <2>1, <2>2
  <2> HIDE DEF r
  <2> QED BY <2>2, <2>3
<1>3. WorldInv'
  <2>1. \A i \in 1 .. Len(queue) : Planned(queue[i])'
    BY <1>1 DEF WorldInv, Planned
  <2>2. RowsKnown'
    BY <1>1, <1>2 DEF WorldInv, RowsKnown
  <2> QED BY <1>1, <1>2, <2>1, <2>2 DEF WorldInv
<1>4. ASSUME NEW d, GoodDocument(d)
      PROVE  GoodDocument(d)'
  <2>1. ASSUME NEW e \in Epochs, NEW s \in Series
        PROVE  Covered(d, e, s)'
    <3>1. <<e, s>> \notin removed' => rows'[e][s] = rows[e][s] /\ <<e, s>> \notin removed
      BY <1>1, <1>2
    <3> QED BY <1>1, <1>4, <3>1 DEF GoodDocument, Covered, Holds, Repeats
  <2> QED BY <1>1, <1>4, <2>1, EpochsTaken, CoverStays
<1>5. op # NoOp /\ op.pc \in Saving \cup {"merged"} => GoodDocument(op.cand)'
  BY <1>1, <1>4 DEF SharingInv, OpInv, GoodOp, Candidate
<1>6. GoodDocument(disk)'
  BY <1>1, <1>4
<1> QED BY <1>1, <1>3, <1>5, <1>6, OpKeeps DEF SharingInv

(* Time passes, the sources change, the service is replaced.                 *)
LEMMA EnvironmentStep ==
  ASSUME SharingInv, HourPasses \/ SourceChanges \/ Reload
  PROVE  SharingInv'
<1>1. /\ UNCHANGED <<rows, epochs, removed, disk, op, queue>> /\ WorldInv /\ GoodDocument(disk)
      /\ now' \in Hours /\ dataset' \in Datasets /\ pub' \in Nat /\ pub <= pub' /\ pub \in Nat
      /\ cache' = None \/ (cache' = cache /\ pub' = pub)
  <2>1. now \in Hours /\ dataset \in Datasets /\ pub \in Nat
    BY DEF SharingInv, WorldInv
  <2>2. CASE HourPasses
    BY <2>1, <2>2, SharingAssumption DEF SharingInv, HourPasses, Hours
  <2>3. CASE SourceChanges
    BY <2>1, <2>3 DEF SharingInv, SourceChanges
  <2>4. CASE Reload
    BY <2>1, <2>4 DEF SharingInv, Reload, worldVars
  <2> QED BY <2>2, <2>3, <2>4
<1>2. WorldInv'
  BY <1>1, WorldStays DEF WorldInv
<1>3. \A d : GoodDocument(d) => GoodDocument(d)'
  BY <1>1, EpochsTaken, GoodStays
<1>4. ASSUME op # NoOp
      PROVE  GoodOp(op)'
  <2>1. GoodOp(op) /\ op.pub \in Nat
    BY <1>4 DEF SharingInv, OpInv, GoodOp, Operations
  <2>2. LastRepeats => LastRepeats'
    BY <1>1 DEF LastRepeats, Repeats
  <2>3. op.pc \in Saving \cup {"merged"} => Candidate(op, op.cand)'
    <3>1. \A d : RecordedHours(d)' = RecordedHours(d)
      BY DEF RecordedHours
    <3> QED BY <1>1, <1>3, <2>1, <3>1 DEF GoodOp, Candidate, Grown, AllRecorded, Advance
  <2>4. (op.pub <= pub /\ (op.pub # pub => cache = None))'
    BY <1>1, <2>1 DEF GoodOp
  <2> QED BY <1>1, <2>1, <2>2, <2>3, <2>4 DEF GoodOp, Enabled, AtHour, AllRecorded, RecordedHours
<1>5. CacheIsDurable'
  BY <1>1 DEF CacheIsDurable, SharingInv
<1>6. OpInv'
  BY <1>1, <1>4 DEF OpInv
<1> QED BY <1>1, <1>2, <1>3, <1>5, <1>6 DEF SharingInv

(* A restart loses the queue and the operation; a write under way may have    *)
(* reached the disk.                                                         *)
LEMMA RestartStep ==
  ASSUME SharingInv, Restart
  PROVE  SharingInv'
<1>1. /\ UNCHANGED <<now, dataset, rows, epochs, removed>> /\ WorldInv /\ GoodDocument(disk)
      /\ pub \in Nat /\ pub' = pub + 1 /\ cache' = None /\ op' = NoOp /\ queue' = <<>>
      /\ disk' = disk \/ (op.pc \in Saving /\ disk' = op.cand)
  BY DEF Restart, worldVars, SharingInv, WorldInv
<1>2. GoodDocument(disk') /\ Grown(disk')
  <2>1. CASE disk' = disk
    BY <1>1, <2>1 DEF Grown
  <2>2. CASE op.pc \in Saving /\ disk' = op.cand
    <3>1. op # NoOp
      BY <2>2, SavingFacts DEF NoOp
    <3> QED BY <2>2, <3>1 DEF SharingInv, OpInv, GoodOp, Candidate
  <2> QED BY <1>1, <2>1, <2>2
<1>3. GoodDocument(disk)'
  <2>1. \A d : GoodDocument(d) => GoodDocument(d)'
    <3> SUFFICES ASSUME NEW d, GoodDocument(d)
                 PROVE  GoodDocument(d)'
      OBVIOUS
    <3>1. \A e \in Epochs, s \in Series : Covered(d, e, s)'
      BY <1>1 DEF GoodDocument, Covered, Holds
    <3> QED BY <1>1, <3>1, EpochsTaken, CoverStays
  <2> QED BY <1>2, <2>1
<1>4. RowsKnown'
  <2>1. RowsKnown /\ \A e \in Epochs, s \in Series, h \in Hours :
                       disk.points[e][s][h] # Absent => disk'.points[e][s][h] # Absent
    BY <1>1, <1>2 DEF WorldInv, Grown
  <2> QED BY <1>1, <2>1 DEF RowsKnown
<1>5. WorldInv'
  <2>1. queue' \in Seq(ClearJobs \cup ImportJobs) /\ Len(queue') = 0
    BY <1>1
  <2> QED BY <1>1, <1>4, <2>1 DEF WorldInv
<1> QED BY <1>1, <1>3, <1>5 DEF SharingInv, CacheIsDurable, OpInv

-----------------------------------------------------------------------------
(* The theorems *)

LEMMA InitHolds ==
  ASSUME Init
  PROVE  SharingInv
<1>1. /\ now = 1 /\ dataset \in Datasets /\ pub = 0 /\ cache = None /\ disk = EmptyState /\ op = NoOp
      /\ queue = <<>> /\ rows = [e \in Epochs |-> [s \in Series |-> NoRows]] /\ epochs = 0
  BY DEF Init
<1>2. /\ disk.revision = 0 /\ disk.share = None /\ disk.pending = None /\ disk.cursor = None
      /\ disk.archived = <<>> /\ disk.points \in Points
      /\ \A e \in Epochs, s \in Series, h \in Hours : disk.points[e][s][h] = Absent
  BY <1>1 DEF EmptyState, Points, Cells
<1>3. disk \in Documents
  <2>1. 0 \in 0 .. MaxRevision /\ <<>> \in Seq(Archives)
    BY SharingAssumption
  <2>2. disk = [revision |-> disk.revision, share |-> disk.share, pending |-> disk.pending, cursor |-> disk.cursor,
                archived |-> disk.archived, points |-> disk.points]
    BY <1>1 DEF EmptyState
  <2> QED BY <1>2, <2>1, <2>2 DEF Documents
<1>4. queue \in Seq(ClearJobs \cup ImportJobs) /\ Len(queue) = 0 /\ Len(disk.archived) = 0
  BY <1>1, <1>2
<1>5. GoodDocument(disk)
  <2>1. \A e \in Epochs, s \in Series : Covered(disk, e, s)
    BY <1>1, <1>2, <1>4 DEF Covered, Holds
  <2>2. ValidState(disk)
    BY <1>2, <1>4 DEF ValidState
  <2> QED BY <1>2, <1>3, <1>4, <2>1, <2>2 DEF GoodDocument
<1>6. WorldInv
  <2>1. now \in Hours /\ epochs \in 0 .. MaxEpoch
    BY <1>1, SharingAssumption DEF Hours
  <2>2. RowsKnown
    BY <1>1 DEF RowsKnown
  <2>3. rows = [e \in Epochs |-> [s \in Series |-> rows[e][s]]]
    BY <1>1
  <2> QED BY <1>1, <1>4, <2>1, <2>2, <2>3 DEF WorldInv
<1> QED BY <1>1, <1>5, <1>6 DEF SharingInv, CacheIsDurable, OpInv

(* StatusReads, RuntimeWaits, SourcePending, OpAborts: the operation ends.    *)
LEMMA EndStep ==
  ASSUME SharingInv, StatusReads \/ RuntimeWaits \/ SourcePending \/ OpAborts
  PROVE  SharingInv'
<1>1. UNCHANGED opFrame /\ (Loads \/ UNCHANGED cache) /\ op' = NoOp
  BY DEF StatusReads, Loads, RuntimeWaits, SourcePending, OpAborts, End, opFrame
<1> QED BY <1>1, StepStays

LEMMA NextHolds ==
  ASSUME SharingInv, [Next]_vars
  PROVE  SharingInv'
<1>1. CASE ConsentSteps
  BY <1>1, EndStep, DisableStep, EnableStep DEF ConsentSteps
<1>2. CASE RefreshSteps
  <2>1. CASE ProbeMatches
    BY <2>1, CompletesStep DEF ProbeMatches
  <2>2. CASE Confirmed
    BY <2>2, CompletesStep DEF Confirmed
  <2> QED BY <1>2, <2>1, <2>2, RefreshBeginsStep, RuntimeBeginsStep, RuntimePausesStep, EndStep, RuntimeReadsStep,
             FactsMergeStep, ProbeDiffersStep, SavesIntentStep, EnqueuesStep, VerifiesStep DEF RefreshSteps
<1>3. CASE RecorderSteps
  BY <1>3, RecorderAppliesStep, RecorderDropsStep, SeriesRemovedStep DEF RecorderSteps
<1>4. CASE \E ok, durable \in BOOLEAN : SaveEnds(ok, durable)
  BY <1>4, SaveEndsStep
<1>5. CASE HourPasses \/ SourceChanges \/ Reload
  BY <1>5, EnvironmentStep
<1>6. CASE Restart
  BY <1>6, RestartStep
<1>7. CASE UNCHANGED vars
  <2>1. CASE op = NoOp
    <3>1. UNCHANGED opFrame /\ UNCHANGED cache /\ op' = NoOp
      BY <1>7, <2>1 DEF vars, opFrame, worldVars
    <3> QED BY <3>1, StepStays
  <2>2. CASE op # NoOp
    <3>1. UNCHANGED opFrame /\ UNCHANGED cache /\ GoodOp(op')
      BY <1>7, <2>2 DEF vars, opFrame, worldVars, SharingInv, OpInv
    <3> QED BY <3>1, StepStays
  <2> QED BY <2>1, <2>2
<1> QED BY <1>1, <1>2, <1>3, <1>4, <1>5, <1>6, <1>7 DEF Next

(* The durable document is good and the cache, the Recorder's rows, the jobs  *)
(* and the operation in progress agree with it.                              *)
THEOREM SharingInductive == Spec => []SharingInv
<1>1. Init => SharingInv
  BY InitHolds
<1>2. SharingInv /\ [Next]_vars => SharingInv'
  BY NextHolds
<1> QED BY <1>1, <1>2, PTL DEF Spec

(* Every document that a write, confirmed or not, may leave behind loads.     *)
THEOREM DurableStateLoadsHolds == Spec => []DurableStateLoads
<1>1. SharingInv => DurableStateLoads
  <2> SUFFICES ASSUME SharingInv
               PROVE  ValidState(disk) /\ (op.pc \in Saving => ValidState(op.cand))
    BY DEF DurableStateLoads
  <2>1. op.pc \in Saving => op # NoOp
    BY SavingFacts DEF NoOp
  <2> QED BY <2>1 DEF SharingInv, OpInv, GoodOp, Candidate, GoodDocument
<1> QED BY <1>1, SharingInductive, PTL

(* No publisher acts on a consent or an intent that is not the durable one.   *)
THEOREM CacheIsDurableHolds == Spec => []CacheIsDurable
<1>1. SharingInv => CacheIsDurable
  BY DEF SharingInv
<1> QED BY <1>1, SharingInductive, PTL

(* The rows of every series without a durable intent are its facts, and no    *)
(* job under way changes them.                                               *)
THEOREM IntentCoversRecorderHolds == Spec => []IntentCoversRecorder
<1>1. SharingInv => IntentCoversRecorder
  BY DEF SharingInv, GoodDocument, IntentCoversRecorder
<1> QED BY <1>1, SharingInductive, PTL

(* Jobs are enqueued only for the durable, enabled consent of the dataset the *)
(* sources have at that moment.                                              *)
THEOREM OnlyConsentedJobsHolds == Spec => OnlyConsentedJobs
<1> DEFINE Consented == \A i \in 1 .. Len(queue') :
             i > Len(queue) =>
               /\ Enabled(disk) /\ disk.share.dataset = dataset
               /\ queue'[i].epoch = disk.share.epoch
<1>1. ASSUME SharingInv, [Next]_vars
      PROVE  [Consented]_vars
  <2>1. queue \in Seq(ClearJobs \cup ImportJobs) /\ Len(queue) \in Nat
    BY <1>1 DEF SharingInv, WorldInv
  <2>2. CASE queue' = queue
    BY <2>1, <2>2
  <2>3. CASE queue # <<>> /\ queue' = Tail(queue)
    <3>1. \A i \in 1 .. Len(queue') : i + 1 \in 1 .. Len(queue)
      BY <2>1, <2>3, TailFacts
    <3> QED BY <2>1, <3>1
  <2>4. CASE queue' = <<>>
    BY <2>4
  <2>5. CASE Enqueues
    <3> DEFINE J == Jobs(disk)
               AnyJob == ClearJobs \cup ImportJobs
    <3>1. op # NoOp /\ op.pc = "enqueue"
      BY <2>5 DEF Enqueues, NoOp
    <3>2. /\ Enabled(disk) /\ disk.share # None /\ disk.pending # None /\ disk \in Documents /\ GoodDocument(disk)
      BY <1>1, <3>1, OpFacts, SavingFacts DEF GoodOp
    <3>3. disk.pending.clear \subseteq disk.pending.series /\ disk.pending.series # {}
      BY <3>2 DEF GoodDocument, ValidState
    <3>4. J \in Seq(AnyJob) /\ Len(J) \in Nat /\ \A k \in 1 .. Len(J) : J[k].epoch = disk.share.epoch
      BY <3>2, <3>3, PlanFacts
    <3>5. queue' = queue \o J /\ disk.share.dataset = dataset
      BY <2>5 DEF Enqueues, Guard
    <3>6. queue \in Seq(AnyJob)
      BY <2>1
    <3> HIDE DEF J, AnyJob
    <3>7. /\ Len(queue \o J) = Len(queue) + Len(J)
          /\ \A i \in 1 .. Len(queue) + Len(J) :
               (queue \o J)[i] = IF i <= Len(queue) THEN queue[i] ELSE J[i - Len(queue)]
      BY <3>4, <3>6, ConcatProperties, Zenon
    <3>8. ASSUME NEW i \in 1 .. Len(queue'), i > Len(queue)
          PROVE  queue'[i].epoch = disk.share.epoch
      <4>1. i \in 1 .. Len(queue) + Len(J) /\ ~(i <= Len(queue)) /\ i - Len(queue) \in 1 .. Len(J)
        BY <2>1, <3>4, <3>5, <3>7, <3>8
      <4> QED BY <3>4, <3>5, <3>7, <4>1
    <3> QED BY <3>2, <3>5, <3>8
  <2> HIDE DEF Consented
  <2>6. \/ queue' = queue \/ (queue # <<>> /\ queue' = Tail(queue)) \/ queue' = <<>> \/ Enqueues
    BY <1>1 DEF Next, vars, ConsentSteps, RefreshSteps, RecorderSteps, StatusReads, Disable, Enable, RefreshBegins,
       RuntimeBegins, RuntimePauses, RuntimeWaits, RuntimeReads, SourcePending, FactsMerge, ProbeMatches,
       ProbeDiffers, SavesIntent, Verifies, Confirmed, OpAborts, RecorderApplies, RecorderDrops, SeriesRemoved,
       SaveEnds, HourPasses, SourceChanges, Reload, Restart, opFrame
  <2> QED BY <2>2, <2>3, <2>4, <2>5, <2>6
<1> QED BY <1>1, SharingInductive, PTL DEF Spec, OnlyConsentedJobs

-----------------------------------------------------------------------------
(* Automatic updates implement HourlyUpdates *)

(* Every candidate that reaches the disk is a step of the cursor, or none.    *)
LEMMA WriteRefines ==
  ASSUME SharingInv, op.pc \in Saving, disk' = op.cand
  PROVE  [Hourly!Next]_Hourly!vars
<1>1. op # NoOp
  BY SavingFacts DEF NoOp
<1>2. Candidate(op, disk') /\ disk' \in Documents /\ disk \in Documents
  BY <1>1, OpFacts DEF GoodOp, Candidate, GoodDocument
<1>3. op.pc \in Refreshing => disk'.share = disk.share /\ disk'.revision = disk.revision
  BY <1>2 DEF Candidate
<1>4. disk'.share = disk.share => RecordedHours(disk) \subseteq RecordedHours(disk)'
  <2> SUFFICES ASSUME disk'.share = disk.share, disk.share # None, NEW h \in Hours,
                      \A s \in Always : disk.points[disk.share.epoch][s][h] # Absent
               PROVE  \A s \in Always : disk'.points[disk.share.epoch][s][h] # Absent
    BY DEF RecordedHours
  <2>1. disk.share.epoch \in Epochs
    BY <1>2, DocumentFacts
  <2> QED BY <1>2, <2>1, SharingAssumption DEF Candidate, Grown
<1>5. disk'.share = disk.share /\ disk'.points = disk.points => RecordedHours(disk)' = RecordedHours(disk)
  BY DEF RecordedHours
<1>6. CASE op.pc \in {"savingShare", "savingDisable"}
  <2>1. disk'.revision > disk.revision /\ disk'.cursor = None
    BY <1>2, <1>6 DEF Candidate
  <2>2. Hourly!Renews
    BY <2>1 DEF Hourly!Renews
  <2> QED BY <2>2 DEF Hourly!Next
<1>7. CASE op.pc = "savingCursor"
  <2>1. disk.cursor = None /\ disk'.cursor # None /\ disk'.points = disk.points
    BY <1>2, <1>7 DEF Candidate
  <2>2. disk'.cursor.next \in Nat
    BY <1>2, <2>1, DocumentFacts
  <2>3. Hourly!Begins
    BY <1>3, <1>5, <1>7, <2>1, <2>2, SavingFacts DEF Hourly!Begins
  <2> QED BY <1>3, <1>7, <2>3, SavingFacts DEF Hourly!Next
<1>8. CASE op.pc \in {"savingPause", "savingIntent", "savingConfirmed"}
  <2>1. disk'.cursor = disk.cursor \/ (disk.cursor # None /\ disk'.cursor # None /\ disk'.cursor.next = disk.cursor.next)
    BY <1>2, <1>8 DEF Candidate
  <2>2. Hourly!Records
    BY <1>3, <1>4, <1>8, <2>1, SavingFacts DEF Hourly!Records
  <2> QED BY <1>3, <1>8, <2>2, SavingFacts DEF Hourly!Next
<1>9. CASE op.pc = "savingCompleted"
  <2>1. /\ disk.cursor # None /\ disk'.cursor # None /\ disk' = Advance(disk)
        /\ disk.cursor.next \in RecordedHours(disk)
    BY <1>2, <1>9 DEF Candidate
  <2>2. disk.cursor \in Cursors
    BY <1>2, <2>1 DEF Documents
  <2> DEFINE k == [disk.cursor EXCEPT !.last = disk.cursor.next, !.next = disk.cursor.next + 1]
  <2>3. k.next = disk.cursor.next + 1 /\ disk' = [disk EXCEPT !.cursor = k]
    BY <1>2, <2>1, <2>2 DEF Advance, Documents, Cursors
  <2> HIDE DEF k
  <2>4. disk'.cursor = k /\ disk'.points = disk.points
    BY <1>2, <2>3 DEF Documents
  <2>5. Hourly!Completes
    BY <1>3, <1>5, <1>9, <2>1, <2>3, <2>4, SavingFacts DEF Hourly!Completes
  <2> QED BY <1>3, <1>9, <2>5, SavingFacts DEF Hourly!Next
<1> QED BY <1>6, <1>7, <1>8, <1>9, SavingFacts

(* Under one consent no hour is skipped, and an hour is completed only with   *)
(* its facts in the ledger.                                                  *)
THEOREM ImplementsHourlyUpdatesHolds == Spec => ImplementsHourlyUpdates
<1>1. Init => Hourly!Init
  BY DEF Init, EmptyState, RecordedHours, Hourly!Init
<1>2. ASSUME SharingInv, [Next]_vars
      PROVE  [Hourly!Next]_Hourly!vars
  <2>1. CASE disk' = disk
    BY <2>1 DEF Hourly!vars, RecordedHours
  <2>2. CASE op.pc \in Saving /\ disk' = op.cand
    BY <1>2, <2>2, WriteRefines
  <2>3. disk' = disk \/ (op.pc \in Saving /\ disk' = op.cand)
    BY <1>2 DEF Next, vars, ConsentSteps, RefreshSteps, RecorderSteps, StatusReads, Disable, Enable, RefreshBegins,
       RuntimeBegins, RuntimePauses, RuntimeWaits, RuntimeReads, SourcePending, FactsMerge, ProbeMatches,
       ProbeDiffers, SavesIntent, Enqueues, Verifies, Confirmed, OpAborts, RecorderApplies, RecorderDrops,
       SeriesRemoved, SaveEnds, HourPasses, SourceChanges, Reload, Restart, opFrame
  <2> QED BY <2>1, <2>2, <2>3
<1> QED BY <1>1, <1>2, SharingInductive, PTL DEF Spec, ImplementsHourlyUpdates, Hourly!Spec

-----------------------------------------------------------------------------
(* Types *)

LEMMA LeastHour ==
  ASSUME NEW S \in SUBSET Nat, S # {}
  PROVE  \E m \in S : \A n \in S : m <= n
<1> DEFINE R == OpToRel(<, Nat)
<1>1. IsWellFoundedOn(R, Nat)
  BY NatLessThanWellFounded
<1>2. \A n, m \in Nat : n < m => <<n, m>> \in R
  BY DEF OpToRel
<1> HIDE DEF R
<1>3. PICK m \in S : \A n \in S : <<n, m>> \notin R
  BY <1>1, WFMin
<1>4. \A n \in S : ~(n < m)
  BY <1>2, <1>3
<1> QED BY <1>4

(* What an hour adds to the sum, and the sums up to an hour N.               *)
Adds(p, h) == IF p[h] \in Costs THEN p[h] ELSE 0
SumsTo(N, p, f) == f = [h \in 0..N |-> IF h = 0 THEN 0 ELSE f[h - 1] + Adds(p, h)]

LEMMA SumsExist ==
  ASSUME NEW p, NEW N \in Nat
  PROVE  \E f : SumsTo(N, p, f)
<1> DEFINE missing == { n \in Nat : ~ \E f : SumsTo(n, p, f) }
<1>1. SUFFICES ASSUME missing # {} PROVE FALSE
  OBVIOUS
<1>2. PICK n \in missing : \A k \in missing : n <= k
  <2>1. missing \in SUBSET Nat
    OBVIOUS
  <2> HIDE DEF missing
  <2> QED BY <1>1, <2>1, LeastHour
<1>3. CASE n = 0
  <2> DEFINE g == [k \in 0..0 |-> 0]
  <2>1. g = [k \in 0..0 |-> IF k = 0 THEN 0 ELSE g[k - 1] + Adds(p, k)]
    OBVIOUS
  <2>2. SumsTo(0, p, g)
    BY <2>1 DEF SumsTo
  <2> QED BY <1>2, <1>3, <2>2
<1>4. CASE n # 0
  <2>1. n \in Nat /\ n - 1 \in Nat /\ n - 1 \notin missing
    BY <1>2, <1>4
  <2>2. PICK f : SumsTo(n - 1, p, f)
    BY <2>1
  <2> DEFINE g == [k \in 0..n |-> IF k = n THEN f[n - 1] + Adds(p, n) ELSE f[k]]
  <2>3. \A k \in 0..(n - 1) : f[k] = IF k = 0 THEN 0 ELSE f[k - 1] + Adds(p, k)
    BY <2>2 DEF SumsTo
  <2>4. \A k \in 0..(n - 1) : g[k] = f[k]
    BY <2>1
  <2>5. \A k \in 0..n : g[k] = IF k = 0 THEN 0 ELSE g[k - 1] + Adds(p, k)
    <3> TAKE k \in 0..n
    <3>1. CASE k = n
      <4>1. g[k] = f[n - 1] + Adds(p, n)
        BY <3>1
      <4>2. g[n - 1] = f[n - 1]
        BY <2>1, <2>4
      <4> QED BY <3>1, <4>1, <4>2, <1>4
    <3>2. CASE k # n
      <4>1. k \in 0..(n - 1)
        BY <2>1, <3>2
      <4>2. k # 0 => k - 1 \in 0..(n - 1)
        BY <2>1, <4>1
      <4> QED BY <4>1, <4>2, <2>3, <2>4
    <3> QED BY <3>1, <3>2
  <2>6. g = [k \in 0..n |-> g[k]]
    OBVIOUS
  <2> HIDE DEF g
  <2>7. SumsTo(n, p, g)
    BY <2>5, <2>6 DEF SumsTo
  <2> QED BY <1>2, <2>7
<1> QED BY <1>3, <1>4

(* make_plan: every row of a plan is a number.                               *)
LEMMA SumsAreNumbers ==
  ASSUME NEW p
  PROVE  \A h \in DOMAIN Sums(p) : h \in Hours /\ Sums(p)[h] \in Nat
<1> DEFINE total == CHOOSE f : SumsTo(MaxHour, p, f)
<1>1. MaxHour \in Nat
  BY SharingAssumption
<1>2. SumsTo(MaxHour, p, total)
  BY <1>1, SumsExist
<1>3. Sums(p) = [h \in {k \in Hours : p[k] \in Costs} |-> total[h]]
  BY DEF Sums, SumsTo, Adds
<1> HIDE DEF total
<1>4. \A h \in 0..MaxHour : total[h] = IF h = 0 THEN 0 ELSE total[h - 1] + Adds(p, h)
  BY <1>2 DEF SumsTo
<1>5. \A h : Adds(p, h) \in Nat
  BY SharingAssumption DEF Adds
<1> DEFINE bad == { h \in 0..MaxHour : total[h] \notin Nat }
<1>6. bad = {}
  <2>1. SUFFICES ASSUME bad # {} PROVE FALSE
    OBVIOUS
  <2>2. bad \in SUBSET Nat
    BY <1>1
  <2>3. \A h \in bad : h \in 0..MaxHour /\ total[h] \notin Nat
    OBVIOUS
  <2>4. \A h \in 0..MaxHour : h \notin bad => total[h] \in Nat
    OBVIOUS
  <2> HIDE DEF bad
  <2>5. PICK h \in bad : \A k \in bad : h <= k
    BY <2>1, <2>2, LeastHour
  <2>6. h # 0 /\ h \in 0..MaxHour
    BY <1>1, <1>4, <2>3, <2>5
  <2>7. h - 1 \in 0..MaxHour /\ h - 1 \notin bad
    BY <1>1, <2>2, <2>5, <2>6
  <2>8. total[h - 1] \in Nat
    BY <2>4, <2>7
  <2>9. total[h] = total[h - 1] + Adds(p, h)
    BY <1>4, <2>6
  <2> QED BY <1>5, <2>3, <2>5, <2>8, <2>9
<1>7. \A h \in Hours : total[h] \in Nat
  BY <1>1, <1>6 DEF Hours
<1> QED BY <1>3, <1>7

(* What the types add to the invariant: bounds of the counters, the hours an  *)
(* operation looks at, the candidate where one is written, and numbers in    *)
(* every row.                                                                *)
Rows == [Epochs -> [Series -> {NoRows} \cup [Hours -> {Absent} \cup Nat]]]

OpTyped ==
  op # NoOp => /\ op.now \in 1 .. now /\ op.window \subseteq 1 .. now
               /\ op.pc \notin Saving \cup {"merged"} => op.cand = None

Typed ==
  /\ pub \in 0 .. MaxPub /\ removed \subseteq Epochs \X Series /\ rows \in Rows
  /\ \A i \in 1 .. Len(queue) : JobType(queue[i])
  /\ OpTyped

LEMMA GotoTyped ==
  ASSUME SharingInv, Typed, op # NoOp, now' = now, NEW pc, NEW cand,
         pc \in Saving \cup {"merged"} \/ cand = None, Goto(pc, cand)
  PROVE  OpTyped'
<1>1. op \in Operations /\ op.now \in 1 .. now /\ op.window \subseteq 1 .. now
  BY OpFacts DEF Typed, OpTyped
<1>2. op'.now = op.now /\ op'.window = op.window /\ op'.pc = pc /\ op'.cand = cand
  BY <1>1 DEF Goto, Operations
<1> QED BY <1>1, <1>2 DEF OpTyped

LEMMA BeginTyped ==
  ASSUME SharingInv, now' = now, NEW pc, NEW runtime, NEW window, window \subseteq 1 .. now, NEW cand,
         pc \in Saving \cup {"merged"} \/ cand = None, Begin(pc, runtime, window, cand)
  PROVE  OpTyped'
<1>1. op'.now = now /\ op'.window = window /\ op'.pc = pc /\ op'.cand = cand
  BY DEF Begin
<1>2. now \in 1 .. now
  BY SharingAssumption DEF SharingInv, WorldInv, Hours
<1> QED BY <1>1, <1>2 DEF OpTyped

LEMMA FrameTyped ==
  ASSUME Typed, UNCHANGED <<pub, removed, rows, queue>>, OpTyped'
  PROVE  Typed'
  BY DEF Typed, Rows, JobType

LEMMA ConsentTyped ==
  ASSUME SharingInv, Typed, ConsentSteps
  PROVE  Typed'
<1>1. "savingShare" \in Saving /\ "savingDisable" \in Saving
  BY SavingFacts
<1>2. UNCHANGED <<now, pub, removed, rows, queue>>
  BY DEF ConsentSteps, StatusReads, Disable, Enable, opFrame, worldVars
<1>3. CASE StatusReads
  BY <1>2, <1>3, FrameTyped DEF StatusReads, Typed, OpTyped
<1>4. CASE Disable
  <2>1. PICK cand : Begin("savingDisable", FALSE, {}, cand)
    BY <1>4 DEF Disable
  <2>2. OpTyped'
    BY <1>1, <1>2, <2>1, BeginTyped
  <2> QED BY <1>2, <2>2, FrameTyped
<1>5. CASE \E a \in Authors : Enable(a)
  <2>1. PICK cand : Begin("savingShare", FALSE, {}, cand)
    BY <1>5 DEF Enable
  <2>2. OpTyped'
    BY <1>1, <1>2, <2>1, BeginTyped
  <2> QED BY <1>2, <2>2, FrameTyped
<1> QED BY <1>3, <1>4, <1>5 DEF ConsentSteps

(* async_refresh up to the candidate, and the steps after it.                *)
LEMMA ReadsTyped ==
  ASSUME SharingInv, Typed,
         RefreshBegins \/ RuntimeBegins \/ RuntimePauses \/ RuntimeWaits \/ RuntimeReads \/ SourcePending \/ FactsMerge
  PROVE  Typed'
<1>1. /\ "savingCursor" \in Saving /\ "savingPause" \in Saving
      /\ {"cursor", "facts"} \cap (Saving \cup {"merged"}) = {}
  BY SavingFacts
<1>2. UNCHANGED <<now, pub, removed, rows, queue>>
  BY DEF RefreshBegins, RuntimeBegins, RuntimePauses, RuntimeWaits, RuntimeReads, SourcePending, FactsMerge, opFrame, worldVars
<1>3. SUFFICES OpTyped'
  BY <1>2, FrameTyped
<1>4. now \in Nat /\ now >= 1
  BY SharingAssumption DEF SharingInv, WorldInv, Hours
<1>5. CASE RefreshBegins
  <2>1. PICK window \in {{now}, 1 .. now} : Begin("facts", FALSE, window, None)
    BY <1>5 DEF RefreshBegins
  <2>2. window \subseteq 1 .. now
    BY <1>4
  <2> QED BY <1>2, <2>1, <2>2, BeginTyped
<1>6. CASE RuntimeBegins
  <2>1. (\E cand : Begin("savingCursor", TRUE, {}, cand)) \/ Begin("cursor", TRUE, {}, None)
    BY <1>6 DEF RuntimeBegins
  <2>2. CASE \E cand : Begin("savingCursor", TRUE, {}, cand)
    BY <1>1, <1>2, <2>2, BeginTyped
  <2>3. CASE Begin("cursor", TRUE, {}, None)
    BY <1>2, <2>3, BeginTyped
  <2> QED BY <2>1, <2>2, <2>3
<1>7. CASE RuntimePauses
  <2>1. op # NoOp /\ Goto("savingPause", [disk EXCEPT !.cursor.paused = TRUE])
    BY <1>7 DEF RuntimePauses, NoOp
  <2> QED BY <1>1, <1>2, <2>1, GotoTyped
<1>8. CASE RuntimeWaits \/ SourcePending
  <2>1. op' = NoOp
    BY <1>8 DEF RuntimeWaits, SourcePending, End
  <2> QED BY <2>1 DEF OpTyped
<1>9. CASE RuntimeReads
  <2>1. op # NoOp /\ op.pc = "cursor" /\ op' = [op EXCEPT !.pc = "facts", !.window = {disk.cursor.next}] /\ Due
    BY <1>9 DEF RuntimeReads, NoOp
  <2>2. op \in Operations /\ op.now \in 1 .. now /\ disk.cursor # None /\ disk \in Documents /\ op.cand = None
    BY <1>1, <2>1, OpFacts DEF GoodOp, Typed, OpTyped
  <2>3. disk.cursor.next \in 1 .. MaxHour + 1 /\ disk.cursor.next <= op.now
    BY <2>1, <2>2, DocumentFacts DEF Due
  <2>4. disk.cursor.next \in 1 .. now
    BY <1>4, <2>2, <2>3, SharingAssumption
  <2>5. op'.now = op.now /\ op'.window = {disk.cursor.next} /\ op'.cand = None
    BY <2>1, <2>2 DEF Operations
  <2> QED BY <1>2, <2>2, <2>4, <2>5 DEF OpTyped
<1>10. CASE FactsMerge
  <2>1. op # NoOp /\ (Goto("probe", None) \/ \E cand : Goto("merged", cand))
    BY <1>10 DEF FactsMerge, NoOp
  <2>2. CASE Goto("probe", None)
    BY <1>2, <2>1, <2>2, GotoTyped
  <2>3. CASE \E cand : Goto("merged", cand)
    BY <1>2, <2>1, <2>3, GotoTyped
  <2> QED BY <2>1, <2>2, <2>3
<1> QED BY <1>5, <1>6, <1>7, <1>8, <1>9, <1>10

LEMMA WritesTyped ==
  ASSUME SharingInv, Typed,
         ProbeMatches \/ ProbeDiffers \/ SavesIntent \/ Verifies \/ Confirmed \/ OpAborts
           \/ \E ok, durable \in BOOLEAN : SaveEnds(ok, durable)
  PROVE  Typed'
<1>1. /\ "savingIntent" \in Saving /\ "savingConfirmed" \in Saving /\ "savingCompleted" \in Saving
  BY SavingFacts
<1>2. UNCHANGED <<now, pub, removed, rows, queue>>
  BY DEF ProbeMatches, ProbeDiffers, SavesIntent, Verifies, Confirmed, OpAborts, SaveEnds, opFrame, worldVars
<1>3. SUFFICES OpTyped'
  BY <1>2, FrameTyped
<1>4. op' = NoOp => OpTyped'
  BY DEF OpTyped
<1>5. CASE ProbeMatches \/ Confirmed
  <2>1. op # NoOp /\ Completes
    BY <1>5 DEF ProbeMatches, Confirmed, NoOp
  <2>2. Goto("savingCompleted", Advance(disk)) \/ op' = NoOp
    BY <2>1 DEF Completes, End
  <2> QED BY <1>1, <1>2, <1>4, <2>1, <2>2, GotoTyped
<1>6. CASE ProbeDiffers
  <2>1. op # NoOp /\ \E cand : Goto("merged", cand)
    BY <1>6 DEF ProbeDiffers, NoOp
  <2> QED BY <1>2, <2>1, GotoTyped
<1>7. CASE SavesIntent
  <2>1. op # NoOp /\ Goto("savingIntent", op.cand)
    BY <1>7 DEF SavesIntent, NoOp
  <2> QED BY <1>1, <1>2, <2>1, GotoTyped
<1>8. CASE Verifies
  <2>1. op # NoOp /\ \E cand : Goto("savingConfirmed", cand)
    BY <1>8 DEF Verifies, NoOp
  <2> QED BY <1>1, <1>2, <2>1, GotoTyped
<1>9. CASE OpAborts
  BY <1>4, <1>9 DEF OpAborts, End
<1>10. CASE \E ok, durable \in BOOLEAN : SaveEnds(ok, durable)
  <2>1. op.pc \in Saving /\ (Goto(After[op.pc], None) \/ op' = NoOp)
    BY <1>10 DEF SaveEnds, End
  <2>2. op # NoOp
    BY <2>1, SavingFacts DEF NoOp
  <2> QED BY <1>2, <1>4, <2>1, <2>2, GotoTyped
<1> QED BY <1>5, <1>6, <1>7, <1>8, <1>9, <1>10

(* Every job of a plan is well formed.                                       *)
LEMMA PlanTyped ==
  ASSUME NEW d \in Documents, d.share # None, d.pending # None,
         d.pending.clear \subseteq d.pending.series, d.pending.series # {}
  PROVE  \A i \in 1 .. Len(Jobs(d)) : JobType(Jobs(d)[i])
<1> DEFINE J == Jobs(d)
<1>1. \A i \in 1 .. Len(J) :
        /\ J[i].epoch = d.share.epoch /\ J[i].series \subseteq d.pending.series
        /\ J[i].do = "import" =>
             \E s \in d.pending.series : J[i].series = {s} /\ J[i].rows = Sums(d.points[d.share.epoch][s])
  BY PlanFacts
<1>2. d.share.epoch \in Epochs /\ d.pending.series \subseteq Series
  BY DocumentFacts
<1> HIDE DEF J
<1>3. ASSUME NEW i \in 1 .. Len(J)
      PROVE  JobType(J[i])
  <2>1. J[i].epoch \in Epochs /\ J[i].series \subseteq Series
    BY <1>1, <1>2
  <2>2. ASSUME J[i].do = "import"
        PROVE  Cardinality(J[i].series) = 1 /\ DOMAIN J[i].rows \subseteq Hours
    <3>1. PICK s \in d.pending.series : J[i].series = {s} /\ J[i].rows = Sums(d.points[d.share.epoch][s])
      BY <1>1, <2>2
    <3>2. Cardinality({s}) = 1
      BY FS_Singleton
    <3>3. DOMAIN Sums(d.points[d.share.epoch][s]) \subseteq Hours
      BY SumsDomain
    <3> QED BY <3>1, <3>2, <3>3
  <2> QED BY <2>1, <2>2 DEF JobType
<1> QED BY <1>3 DEF J

LEMMA EnqueuesTyped ==
  ASSUME SharingInv, Typed, Enqueues
  PROVE  Typed'
<1> DEFINE J == Jobs(disk)
           AnyJob == ClearJobs \cup ImportJobs
<1>1. op # NoOp /\ op.pc = "enqueue"
  BY DEF Enqueues, NoOp
<1>2. /\ disk \in Documents /\ GoodDocument(disk) /\ WorldInv
      /\ disk.share # None /\ disk.pending # None
  BY <1>1, OpFacts, SavingFacts DEF GoodOp
<1>3. UNCHANGED <<now, pub, rows, removed>> /\ queue' = queue \o J /\ Goto("verify", None)
  BY DEF Enqueues, worldVars
<1>4. disk.pending.clear \subseteq disk.pending.series /\ disk.pending.series # {}
  BY <1>2 DEF GoodDocument, ValidState
<1>5. J \in Seq(AnyJob) /\ \A i \in 1 .. Len(J) : JobType(J[i])
  BY <1>2, <1>4, PlanFacts, PlanTyped
<1>6. queue \in Seq(AnyJob) /\ \A i \in 1 .. Len(queue) : JobType(queue[i])
  BY <1>2 DEF WorldInv, Typed
<1> HIDE DEF J, AnyJob
<1>7. /\ Len(queue \o J) = Len(queue) + Len(J) /\ Len(queue) \in Nat /\ Len(J) \in Nat
      /\ \A i \in 1 .. Len(queue) + Len(J) :
           (queue \o J)[i] = IF i <= Len(queue) THEN queue[i] ELSE J[i - Len(queue)]
  <2>1. /\ Len(queue \o J) = Len(queue) + Len(J)
        /\ \A i \in 1 .. Len(queue) + Len(J) :
             (queue \o J)[i] = IF i <= Len(queue) THEN queue[i] ELSE J[i - Len(queue)]
    BY ONLY <1>5, <1>6, ConcatProperties, Zenon
  <2>2. Len(queue) \in Nat /\ Len(J) \in Nat
    BY <1>5, <1>6, LenProperties
  <2> QED BY <2>1, <2>2
<1>8. ASSUME NEW i \in 1 .. Len(queue')
      PROVE  JobType(queue'[i])
  <2>0. i \in 1 .. Len(queue) + Len(J)
    BY <1>3, <1>7
  <2>1. CASE i <= Len(queue)
    <3>1. i \in 1 .. Len(queue) /\ queue'[i] = queue[i]
      BY <1>3, <1>7, <2>0, <2>1
    <3> QED BY <1>6, <3>1
  <2>2. CASE ~(i <= Len(queue))
    <3>1. i - Len(queue) \in 1 .. Len(J) /\ queue'[i] = J[i - Len(queue)]
      BY <1>3, <1>7, <2>0, <2>2
    <3> QED BY <1>5, <3>1
  <2> QED BY <2>1, <2>2
<1>9. OpTyped'
  BY <1>1, <1>3, GotoTyped
<1>10. \A i \in 1 .. Len(queue') : JobType(queue[i])'
  BY <1>8 DEF JobType
<1> QED BY <1>3, <1>9, <1>10 DEF Typed, Rows

(* The queue drains, and a row is a sum or was there before.                 *)
LEMMA DrainsTyped ==
  ASSUME SharingInv, Typed, queue # <<>>, queue' = Tail(queue)
  PROVE  \A i \in 1 .. Len(queue') : JobType(queue[i])'
<1>1. queue \in Seq(ClearJobs \cup ImportJobs)
  BY DEF SharingInv, WorldInv
<1>2. \A i \in 1 .. Len(queue') : i + 1 \in 1 .. Len(queue) /\ queue'[i] = queue[i + 1]
  BY <1>1, TailFacts
<1>3. \A i \in 1 .. Len(queue') : JobType(queue'[i])
  BY <1>2 DEF Typed
<1> QED BY <1>3 DEF JobType

LEMMA AppliedTyped ==
  ASSUME NEW job \in ClearJobs \cup ImportJobs,
         NEW old \in {NoRows} \cup [Hours -> {Absent} \cup Nat]
  PROVE  Applied(job, old) \in {NoRows} \cup [Hours -> {Absent} \cup Nat]
<1>1. CASE job.do = "clear"
  BY <1>1 DEF Applied
<1>2. CASE job.do # "clear"
  <2>1. job.rows \in HourRows
    BY <1>2 DEF ClearJobs, ImportJobs
  <2>2. PICK p : job.rows = Sums(p)
    BY <2>1 DEF HourRows
  <2>3. \A h \in DOMAIN job.rows : job.rows[h] \in Nat
    BY <2>2, SumsAreNumbers
  <2>4. \A h \in Hours : (IF h \in DOMAIN job.rows THEN job.rows[h]
                          ELSE IF old = NoRows THEN Absent ELSE old[h]) \in {Absent} \cup Nat
    BY <2>3
  <2> QED BY <1>2, <2>4 DEF Applied
<1> QED BY <1>1, <1>2

LEMMA RecorderTyped ==
  ASSUME SharingInv, Typed, RecorderSteps
  PROVE  Typed'
<1>1. UNCHANGED <<now, pub, op>>
  BY DEF RecorderSteps, RecorderApplies, RecorderDrops, SeriesRemoved, worldVars
<1>2. OpTyped'
  BY <1>1 DEF Typed, OpTyped
<1>3. CASE RecorderApplies
  <2> DEFINE job == Head(queue)
             Cell == {NoRows} \cup [Hours -> {Absent} \cup Nat]
  <2>1. queue # <<>> /\ queue' = Tail(queue) /\ UNCHANGED removed
        /\ rows' = [rows EXCEPT ![job.epoch] = [s \in Series |-> IF s \in job.series THEN Applied(job, @[s]) ELSE @[s]]]
    BY <1>3 DEF RecorderApplies
  <2>2. job \in ClearJobs \cup ImportJobs
    <3>1. queue \in Seq(ClearJobs \cup ImportJobs)
      BY DEF SharingInv, WorldInv
    <3>2. job = queue[1] /\ 1 \in 1 .. Len(queue)
      BY <2>1, <3>1, TailFacts
    <3> HIDE DEF job
    <3> QED BY <3>1, <3>2, ElementOfSeq
  <2> HIDE DEF job
  <2>3. rows \in [Epochs -> [Series -> Cell]]
    BY DEF Typed, Rows
  <2>4. \A old \in Cell : Applied(job, old) \in Cell
    BY <2>2, AppliedTyped
  <2> HIDE DEF Cell
  <2>5. rows' \in [Epochs -> [Series -> Cell]]
    <3> DEFINE new(r) == [s \in Series |-> IF s \in job.series THEN Applied(job, r[s]) ELSE r[s]]
    <3>1. job.epoch \in Epochs
      BY <2>2 DEF ClearJobs, ImportJobs
    <3>2. new(rows[job.epoch]) \in [Series -> Cell]
      BY <2>3, <2>4, <3>1
    <3>3. rows' = [rows EXCEPT ![job.epoch] = new(rows[job.epoch])]
      BY <2>1
    <3> HIDE DEF new
    <3> QED BY <2>3, <3>2, <3>3
  <2>6. rows' \in Rows'
    BY <2>5 DEF Rows, Cell
  <2> QED BY <1>1, <1>2, <2>1, <2>6, DrainsTyped DEF Typed
<1>4. CASE RecorderDrops
  <2>1. queue # <<>> /\ queue' = Tail(queue) /\ UNCHANGED <<rows, removed>>
    BY <1>4 DEF RecorderDrops, worldVars
  <2> QED BY <1>1, <1>2, <2>1, DrainsTyped DEF Typed, Rows
<1>5. CASE \E e \in Epochs, s \in Series : SeriesRemoved(e, s)
  <2>1. PICK e \in Epochs, s \in Series :
          rows' = [rows EXCEPT ![e][s] = NoRows] /\ removed' = removed \cup {<<e, s>>} /\ queue' = queue
    BY <1>5 DEF SeriesRemoved
  <2>2. rows' \in Rows
    BY <2>1 DEF Typed, Rows
  <2> QED BY <1>1, <1>2, <2>1, <2>2 DEF Typed, Rows, JobType
<1> QED BY <1>3, <1>4, <1>5 DEF RecorderSteps

LEMMA EnvironmentTyped ==
  ASSUME SharingInv, Typed, HourPasses \/ SourceChanges \/ Reload \/ Restart \/ UNCHANGED vars
  PROVE  Typed'
<1>1. UNCHANGED <<removed, rows>>
  BY DEF HourPasses, SourceChanges, Reload, Restart, vars, worldVars
<1>2. now \in Nat /\ pub \in 0 .. MaxPub /\ MaxPub \in Nat
  BY SharingAssumption DEF SharingInv, WorldInv, Hours, Typed
<1>3. CASE HourPasses \/ SourceChanges \/ Reload \/ UNCHANGED vars
  <2>1. now' \in {now, now + 1} /\ pub' \in {pub, pub + 1} /\ op' = op /\ queue' = queue
        /\ (pub' = pub + 1 => pub < MaxPub \/ pub' = pub)
    BY <1>3 DEF HourPasses, SourceChanges, Reload, vars, worldVars
  <2>2. 1 .. now \subseteq 1 .. now'
    BY <1>2, <2>1
  <2>3. OpTyped'
    BY <2>1, <2>2 DEF Typed, OpTyped
  <2>4. pub' \in 0 .. MaxPub
    BY <1>2, <2>1
  <2> QED BY <1>1, <2>1, <2>3, <2>4 DEF Typed, Rows, JobType
<1>4. CASE Restart
  <2>1. pub < MaxPub /\ pub' = pub + 1 /\ op' = NoOp /\ queue' = <<>>
    BY <1>4 DEF Restart
  <2>2. pub' \in 0 .. MaxPub /\ Len(queue') = 0
    BY <1>2, <2>1
  <2>3. OpTyped'
    BY <2>1 DEF OpTyped
  <2>4. \A i \in 1 .. Len(queue') : JobType(queue[i])'
    BY <2>2
  <2> QED BY <1>1, <2>2, <2>3, <2>4 DEF Typed, Rows
<1> QED BY <1>3, <1>4

LEMMA TypedHolds ==
  /\ Init => Typed
  /\ SharingInv /\ Typed /\ [Next]_vars => Typed'
<1>1. ASSUME Init
      PROVE  Typed
  <2>1. pub = 0 /\ removed = {} /\ op = NoOp /\ queue = <<>>
        /\ rows = [e \in Epochs |-> [s \in Series |-> NoRows]]
    BY <1>1 DEF Init
  <2>2. rows \in Rows /\ Len(queue) = 0 /\ 0 \in 0 .. MaxPub
    BY <2>1, SharingAssumption DEF Rows
  <2> QED BY <2>1, <2>2 DEF Typed, OpTyped
<1>2. ASSUME SharingInv, Typed, [Next]_vars
      PROVE  Typed'
  <2>1. CASE RefreshSteps
    BY <1>2, <2>1, ReadsTyped, WritesTyped, EnqueuesTyped DEF RefreshSteps
  <2>2. CASE ~RefreshSteps
    BY <1>2, <2>2, ConsentTyped, WritesTyped, RecorderTyped, EnvironmentTyped DEF Next
  <2> QED BY <2>1, <2>2
<1> QED BY <1>1, <1>2

LEMMA TypesFollow ==
  ASSUME SharingInv, Typed
  PROVE  TypeOK
<1>1. /\ now \in Hours /\ dataset \in Datasets /\ pub \in 0 .. MaxPub /\ epochs \in 0 .. MaxEpoch
      /\ disk \in Documents /\ (cache # None => cache \in Documents)
  BY DEF SharingInv, WorldInv, GoodDocument, CacheIsDurable, Typed
<1>2. OpType
  <2>1. SUFFICES ASSUME op # NoOp PROVE OpType
    BY DEF OpType
  <2>2. GoodOp(op) /\ op \in Operations
    BY <2>1, OpFacts
  <2>3. op.pub \in 0 .. pub /\ op.pc \in Saving \cup Steps
    BY <1>1, <2>2 DEF GoodOp, Operations
  <2>4. op.pc \in Saving \cup {"merged"} => op.cand \in Documents
    BY <2>2 DEF GoodOp, Candidate, GoodDocument
  <2>5. op.now \in 1 .. now /\ op.window \subseteq 1 .. now
        /\ (op.pc \notin Saving \cup {"merged"} => op.cand = None)
    BY <2>1 DEF Typed, OpTyped
  <2> QED BY <2>3, <2>4, <2>5 DEF OpType, Steps
<1> QED BY <1>1, <1>2 DEF TypeOK, Typed, Rows

(* Types of StatisticsSharing: every document in memory, durable or about to *)
(* be written is well formed, every job of the queue names one epoch and     *)
(* imports one series, every row is a number, and no operation looks at an   *)
(* hour that is not over yet.                                                *)
THEOREM SharingTyped == Spec => []TypeOK
<1>1. Init => Typed
  BY TypedHolds
<1>2. SharingInv /\ Typed /\ [Next]_vars => Typed'
  BY TypedHolds
<1>3. SharingInv /\ Typed => TypeOK
  BY TypesFollow
<1>4. Spec => []SharingInv
  BY SharingInductive
<1> QED BY <1>1, <1>2, <1>3, <1>4, PTL DEF Spec
=============================================================================
