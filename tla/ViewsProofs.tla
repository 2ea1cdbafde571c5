------------------------------ MODULE ViewsProofs ------------------------------
(***************************************************************************)
(* Theorems about what the views and the drill-down's drawer show, for     *)
(* every set of subjects, any journal and page size, and any number of     *)
(* loads, and their proofs.                                                *)
(***************************************************************************)
EXTENDS ViewLoads, Drilldown, SequenceTheorems, FiniteSetTheorems, TLAPS

USE LoadsAssumption

\* What the views of the code have in common: a view that drops late answers asks for
\* data by itself, a view that does not ask has one part, and clears it or keeps it.
Shape(v) == v \in Discipline /\ (v.guarded => v.asks) /\ (~v.asks => v.parts = 1 /\ v.clears \subseteq {1})

LEMMA ShapeOfRecord ==
    ASSUME NEW g \in BOOLEAN, NEW a \in BOOLEAN, NEW n \in 1 .. 2, NEW c \in SUBSET (1 .. 2),
           NEW d \in [1 .. 2 -> SUBSET (1 .. 2)],
           g => a, ~a => n = 1 /\ c \subseteq {1}
    PROVE  Shape([guarded |-> g, asks |-> a, parts |-> n, clears |-> c, drops |-> d])
  BY DEF Shape, Discipline

LEMMA ViewShapes == \A v \in Views : Shape(v)
<1>1. Keeps \in [1 .. 2 -> SUBSET (1 .. 2)] /\ Empties \in [1 .. 2 -> SUBSET (1 .. 2)]
  BY DEF Keeps, Empties
<1>2. [p \in 1 .. 2 |-> IF p = 1 THEN {1, 2} ELSE {}] \in [1 .. 2 -> SUBSET (1 .. 2)]
  OBVIOUS
<1>3. {} \in SUBSET (1 .. 2) /\ {1} \in SUBSET (1 .. 2) /\ {2} \in SUBSET (1 .. 2)
  OBVIOUS
<1>4. 1 \in 1 .. 2 /\ 2 \in 1 .. 2
  OBVIOUS
<1>5. Shape(DashboardPage)
  BY <1>1, <1>3, <1>4, ShapeOfRecord DEF DashboardPage
<1>6. Shape(JournalPage)
  BY <1>1, <1>3, <1>4, ShapeOfRecord DEF JournalPage
<1>7. Shape(AnalyticsPage)
  BY <1>1, <1>3, <1>4, ShapeOfRecord DEF AnalyticsPage
<1>8. Shape(PeriodReview)
  BY <1>1, <1>3, <1>4, ShapeOfRecord DEF PeriodReview
<1>9. Shape(TradeStories)
  BY <1>1, <1>3, <1>4, ShapeOfRecord DEF TradeStories
<1>10. Shape(TradeStoryCard)
  BY <1>1, <1>3, <1>4, ShapeOfRecord DEF TradeStoryCard
<1>11. Shape(CommandCenterReplay)
  BY <1>1, <1>3, <1>4, ShapeOfRecord DEF CommandCenterReplay
<1>12. Shape(DayInvestigation)
  BY <1>1, <1>3, <1>4, ShapeOfRecord DEF DayInvestigation
<1>13. Shape(TradeDetailPage)
  BY <1>1, <1>3, <1>4, ShapeOfRecord DEF TradeDetailPage
<1>14. Shape(TradeImage)
  BY <1>1, <1>3, <1>4, ShapeOfRecord DEF TradeImage
<1>15. Shape(QuantLabPage)
  BY <1>1, <1>3, <1>4, ShapeOfRecord DEF QuantLabPage
<1>16. Shape(RiskPage)
  BY <1>1, <1>3, <1>4, ShapeOfRecord DEF RiskPage
<1>17. Shape(LimitsPage)
  BY <1>1, <1>3, <1>4, ShapeOfRecord DEF LimitsPage
<1>18. Shape(IntelligenceWidget)
  BY <1>1, <1>3, <1>4, ShapeOfRecord DEF IntelligenceWidget
<1>19. Shape(CommandPalette)
  BY <1>1, <1>3, <1>4, ShapeOfRecord DEF CommandPalette
<1>20. Shape(EdgeCell)
  BY <1>1, <1>3, <1>4, ShapeOfRecord DEF EdgeCell
<1>21. Shape(TradePreview)
  BY <1>1, <1>3, <1>4, ShapeOfRecord DEF TradePreview
<1>22. Shape(SetupChecklist)
  BY <1>1, <1>3, <1>4, ShapeOfRecord DEF SetupChecklist
<1>23. Shape(CalculatorContext)
  BY <1>1, <1>3, <1>4, ShapeOfRecord DEF CalculatorContext
<1>24. Shape(FindingExplanation)
  BY <1>1, <1>3, <1>4, ShapeOfRecord DEF FindingExplanation
<1>25. Shape(IntelligenceRunner)
  BY <1>1, <1>3, <1>4, ShapeOfRecord DEF IntelligenceRunner
<1>26. Shape(ComparisonLab)
  BY <1>1, <1>3, <1>4, ShapeOfRecord DEF ComparisonLab
<1>27. Shape(SimulationLab)
  BY <1>1, <1>3, <1>4, ShapeOfRecord DEF SimulationLab
<1>28. Shape(CompareResearch)
  BY <1>1, <1>3, <1>4, ShapeOfRecord DEF CompareResearch
<1>29. Shape(CalculatorResult)
  BY <1>1, <1>3, <1>4, ShapeOfRecord DEF CalculatorResult
<1>30. Shape(IntelligencePage)
  BY <1>2, <1>3, <1>4, ShapeOfRecord DEF IntelligencePage
<1> QED
  BY <1>5, <1>6, <1>7, <1>8, <1>9, <1>10, <1>11, <1>12, <1>13, <1>14, <1>15, <1>16, <1>17,
     <1>18, <1>19, <1>20, <1>21, <1>22, <1>23, <1>24, <1>25, <1>26, <1>27, <1>28, <1>29,
     <1>30 DEF Views

-----------------------------------------------------------------------------
(* Type correctness                                                        *)

LEMMA LoadType ==
    ASSUME ViewTypeOK, NEW s \in Subjects, Load(s)
    PROVE  /\ loads' \in 0 .. MaxLoads /\ waiting' \subseteq Request
           /\ shown' \in [1 .. 2 -> Subjects \cup {NoSubject}] /\ failed' \in BOOLEAN
<1>1. loads + 1 \in 1 .. MaxLoads /\ loads' \in 0 .. MaxLoads
  BY DEF ViewTypeOK, Load
<1>2. [about |-> s, load |-> loads + 1, part |-> 1] \in Request
  BY <1>1 DEF Request
<1> QED
  BY <1>1, <1>2 DEF ViewTypeOK, Load, Emptied

\* Every variable of a view keeps its type.
THEOREM ViewTypeCorrect == ViewSpec => []ViewTypeOK
<1>1. ViewInit => ViewTypeOK
  <2> SUFFICES ASSUME ViewInit PROVE ViewTypeOK
    OBVIOUS
  <2>1. view \in Discipline
    BY ViewShapes DEF ViewInit, Shape
  <2>2. shown \in [1 .. 2 -> Subjects \cup {NoSubject}]
    BY DEF ViewInit
  <2>3. 0 \in 0 .. MaxLoads
    OBVIOUS
  <2> QED
    BY <2>1, <2>2, <2>3 DEF ViewInit, ViewTypeOK
<1>2. ViewTypeOK /\ [ViewNext]_viewVars => ViewTypeOK'
  <2> SUFFICES ASSUME ViewTypeOK, [ViewNext]_viewVars PROVE ViewTypeOK'
    OBVIOUS
  <2>1. ASSUME NEW s \in Subjects, Select(s) PROVE ViewTypeOK'
    <3>1. CASE view.asks
      BY <2>1, <3>1, LoadType DEF Select, ViewTypeOK
    <3>2. CASE ~view.asks
      BY <2>1, <3>2 DEF Select, ViewTypeOK, Emptied
    <3> QED
      BY <3>1, <3>2
  <2>2. CASE LoadAgain
    <3>1. selected \in Subjects
      BY DEF ViewTypeOK
    <3> QED
      BY <2>2, <3>1, LoadType DEF LoadAgain, ViewTypeOK
  <2>3. ASSUME NEW r \in waiting, Arrive(r) PROVE ViewTypeOK'
    <3>1. r \in Request /\ [r EXCEPT !.part = 2] \in Request
      BY DEF ViewTypeOK, Request
    <3>2. waiting' \subseteq Request
      BY <2>3, <3>1 DEF Arrive, ViewTypeOK
    <3>3. shown' \in [1 .. 2 -> Subjects \cup {NoSubject}]
      BY <2>3, <3>1 DEF Arrive, ViewTypeOK, Request
    <3>4. overtaken' \in BOOLEAN
      BY <2>3 DEF Arrive, ViewTypeOK
    <3> QED
      BY <2>3, <3>2, <3>3, <3>4 DEF Arrive, ViewTypeOK
  <2>4. ASSUME NEW r \in waiting, FailLoad(r) PROVE ViewTypeOK'
    BY <2>4 DEF FailLoad, ViewTypeOK, Emptied
  <2>5. CASE UNCHANGED viewVars
    BY <2>5 DEF viewVars, ViewTypeOK
  <2> QED
    BY <2>1, <2>2, <2>3, <2>4, <2>5 DEF ViewNext
<1> QED
  BY <1>1, <1>2, PTL DEF ViewSpec

-----------------------------------------------------------------------------
(* What a view shows                                                       *)

\* An answer of the last load that will still fill part p is on its way.
Awaited(p) == \E r \in waiting : r.load = loads /\ r.part <= p
Right(p) == shown[p] \in {selected, NoSubject}

\* Requests are never newer than the last load.  In a view that asks by itself the last
\* load is about the selection, and each part is right unless an answer that will set it
\* right is awaited, or the load failed, or, where nothing is dropped, a late
\* answer spoilt it.  In a view with a button the selection empties what it clears.
LoadsInvariant ==
    /\ view \in Views
    /\ \A r \in waiting : r.load <= loads /\ r.part <= view.parts
    /\ view.parts = 1 => shown[2] = NoSubject
    /\ view.asks => \A r \in waiting : r.load = loads => r.about = selected
    /\ (view.asks \/ view.clears # {}) /\ ~failed /\ (view.guarded \/ ~overtaken) =>
         \A p \in 1 .. view.parts : Right(p) \/ Awaited(p)

\* A new load: its answer is awaited for every part.
LEMMA LoadKeepsInvariant ==
    ASSUME ViewTypeOK, LoadsInvariant, Load(selected'), view' = view, overtaken' = overtaken,
           selected' = selected \/ view.asks
    PROVE  LoadsInvariant'
<1>0. view \in Discipline /\ view.parts \in 1 .. 2 /\ loads \in Nat
  BY DEF ViewTypeOK, Discipline
<1> DEFINE new == [about |-> selected', load |-> loads + 1, part |-> 1]
<1>1. waiting' = waiting \cup {new} /\ loads' = loads + 1
  BY DEF Load
<1>2. \A r \in waiting : r.load <= loads /\ r.load \in Nat /\ r.part \in 1 .. 2
  BY DEF LoadsInvariant, ViewTypeOK, Request
<1>3. \A r \in waiting' : r.load <= loads' /\ r.part <= view.parts
  BY <1>0, <1>1, <1>2 DEF LoadsInvariant
<1>4. view.parts = 1 => shown'[2] = NoSubject
  BY DEF LoadsInvariant, Load, Emptied, ViewTypeOK
<1>5. view.asks => \A r \in waiting' : r.load = loads' => r.about = selected'
  BY <1>0, <1>1, <1>2
<1>6. \A p \in 1 .. view.parts : \E r \in waiting' : r.load = loads' /\ r.part <= p
  <2> SUFFICES ASSUME NEW p \in 1 .. view.parts
               PROVE  \E r \in waiting' : r.load = loads' /\ r.part <= p
    OBVIOUS
  <2>1. new \in waiting' /\ new.load = loads' /\ new.part <= p
    BY <1>0, <1>1
  <2> QED
    BY <2>1
<1> QED
  BY <1>3, <1>4, <1>5, <1>6 DEF LoadsInvariant, Awaited

LEMMA SelectKeepsInvariant ==
    ASSUME ViewTypeOK, LoadsInvariant, NEW s \in Subjects, Select(s)
    PROVE  LoadsInvariant'
<1>1. CASE view.asks
  BY <1>1, LoadKeepsInvariant DEF Select
<1>2. CASE ~view.asks
  <2>1. view.parts = 1 /\ view.clears \subseteq {1} /\ ~view.guarded
    BY <1>2, ViewShapes DEF LoadsInvariant, Shape
  <2>2. view' = view /\ waiting' = waiting /\ loads' = loads
    BY <1>2 DEF Select
  <2>3. shown'[2] = NoSubject
    BY <1>2, <2>1 DEF Select, Emptied, LoadsInvariant
  <2>4. view.clears # {} => shown'[1] = NoSubject
    BY <1>2, <2>1 DEF Select, Emptied
  <2> QED
    BY <1>2, <2>1, <2>2, <2>3, <2>4 DEF LoadsInvariant, Right
<1> QED
  BY <1>1, <1>2

\* An answer of the last load sets its part right, and the next one is awaited; another
\* is dropped, or it is late and the view spoilt.
LEMMA ArriveKeepsInvariant ==
    ASSUME ViewTypeOK, LoadsInvariant, NEW r \in waiting, Arrive(r)
    PROVE  LoadsInvariant'
<1> DEFINE next == [r EXCEPT !.part = 2]
<1>0. /\ view' = view /\ selected' = selected /\ loads' = loads /\ failed' = failed
      /\ view.parts \in 1 .. 2 /\ r \in Request /\ r.part \in 1 .. 2 /\ r.load \in Nat
      /\ loads \in Nat
  BY DEF Arrive, ViewTypeOK, Request, Discipline
<1>1. /\ waiting' \subseteq waiting \cup {next}
      /\ waiting \ {r} \subseteq waiting'
      /\ next \in waiting' /\ next \notin waiting => Counts(r) /\ r.part < view.parts
      /\ Counts(r) /\ r.part < view.parts => next \in waiting'
  BY DEF Arrive
<1>2. next.about = r.about /\ next.load = r.load /\ next.part = 2
  BY <1>0 DEF Request
<1>3. \A q \in waiting' : q.load <= loads' /\ q.part <= view.parts
  <2>1. ASSUME NEW q \in waiting' PROVE q.load <= loads /\ q.part <= view.parts
    <3>1. CASE q \in waiting
      BY <3>1 DEF LoadsInvariant
    <3>2. CASE q = next /\ q \notin waiting
      <4>1. Counts(r) /\ r.part < view.parts /\ r.load <= loads
        BY <1>1, <3>2 DEF LoadsInvariant
      <4> QED
        BY <1>0, <1>2, <3>2, <4>1
    <3> QED
      BY <1>1, <3>1, <3>2
  <2> QED
    BY <1>0, <2>1
<1>4. view.parts = 1 => shown'[2] = NoSubject
  <2> SUFFICES ASSUME view.parts = 1 PROVE shown'[2] = NoSubject
    OBVIOUS
  <2>1. r.part = 1 /\ shown[2] = NoSubject
    BY <1>0 DEF LoadsInvariant
  <2> QED
    BY <2>1 DEF Arrive, ViewTypeOK
<1>5. view.asks => \A q \in waiting' : q.load = loads' => q.about = selected'
  BY <1>0, <1>1, <1>2 DEF LoadsInvariant
<1>6. ASSUME view.asks \/ view.clears # {}, ~failed, view.guarded \/ ~overtaken',
             NEW p \in 1 .. view.parts
      PROVE  shown'[p] \in {selected, NoSubject} \/ \E q \in waiting' : q.load = loads /\ q.part <= p
  <2>0. p \in 1 .. 2 /\ (Right(p) \/ Awaited(p))
    <3>1. ~overtaken' => ~overtaken
      BY DEF Arrive
    <3> QED
      BY <1>0, <1>6, <3>1 DEF LoadsInvariant
  <2>1. CASE r.load # loads
    <3>1. view.guarded /\ ~Counts(r)
      <4>1. r.load < loads
        BY <1>0, <2>1 DEF LoadsInvariant
      <4> QED
        BY <1>6, <2>1, <4>1 DEF Arrive, Late, Counts
    <3>2. shown' = shown
      BY <3>1 DEF Arrive
    <3>3. \A q \in waiting : q.load = loads => q \in waiting'
      BY <1>1, <2>1
    <3> QED
      BY <2>0, <3>2, <3>3 DEF Right, Awaited
  <2>2. CASE r.load = loads
    <3>1. Counts(r)
      BY <2>2 DEF Counts
    <3>2. r.about = selected
      <4>1. CASE view.asks
        BY <2>2, <4>1 DEF LoadsInvariant
      <4>2. CASE ~view.asks
        <5>1. ~overtaken'
          BY <1>6, <4>2, ViewShapes DEF LoadsInvariant, Shape
        <5> QED
          BY <5>1 DEF Arrive, Late
      <4> QED
        BY <4>1, <4>2
    <3>3. CASE p = r.part
      BY <2>0, <3>1, <3>2, <3>3 DEF Arrive, ViewTypeOK
    <3>4. CASE p > r.part
      <4>1. next \in waiting' /\ next.part <= p
        BY <1>0, <1>1, <1>2, <2>0, <3>1, <3>4
      <4> QED
        BY <1>2, <2>2, <4>1
    <3>5. CASE p < r.part
      <4>1. shown'[p] = shown[p]
        BY <2>0, <3>1, <3>5 DEF Arrive, ViewTypeOK
      <4>2. \A q \in waiting : q.part <= p => q \in waiting'
        BY <1>0, <1>1, <2>0, <3>5
      <4> QED
        BY <2>0, <4>1, <4>2 DEF Right, Awaited
    <3> QED
      BY <1>0, <2>0, <3>3, <3>4, <3>5
  <2> QED
    BY <2>1, <2>2
<1>7. ((view.asks \/ view.clears # {}) /\ ~failed /\ (view.guarded \/ ~overtaken) =>
         \A p \in 1 .. view.parts : Right(p) \/ Awaited(p))'
  BY <1>0, <1>6 DEF Right, Awaited
<1>8. view' \in Views
  BY <1>0 DEF LoadsInvariant
<1> QED
  BY <1>0, <1>3, <1>4, <1>5, <1>7, <1>8 DEF LoadsInvariant

LEMMA FailKeepsInvariant ==
    ASSUME ViewTypeOK, LoadsInvariant, NEW r \in waiting, FailLoad(r)
    PROVE  LoadsInvariant'
<1>0. /\ view' = view /\ selected' = selected /\ loads' = loads /\ overtaken' = overtaken
      /\ waiting' = waiting \ {r}
  BY DEF FailLoad
<1>1. view.parts = 1 => shown'[2] = NoSubject
  BY DEF FailLoad, Emptied, LoadsInvariant, ViewTypeOK
<1>2. CASE Counts(r)
  <2>1. failed'
    BY <1>2 DEF FailLoad
  <2> QED
    BY <1>0, <1>1, <2>1 DEF LoadsInvariant
<1>3. CASE ~Counts(r)
  <2>1. shown' = shown /\ failed' = failed /\ r.load # loads
    BY <1>3 DEF FailLoad, Counts, ViewTypeOK
  <2> QED
    BY <1>0, <2>1 DEF LoadsInvariant, Right, Awaited
<1> QED
  BY <1>2, <1>3

LEMMA LoadsInvariantHolds == ViewSpec => []LoadsInvariant
<1>1. ViewInit => LoadsInvariant
  BY ViewShapes DEF ViewInit, LoadsInvariant, Right, Discipline, Shape
<1>2. ViewTypeOK /\ LoadsInvariant /\ [ViewNext]_viewVars => LoadsInvariant'
  <2> SUFFICES ASSUME ViewTypeOK, LoadsInvariant, [ViewNext]_viewVars PROVE LoadsInvariant'
    OBVIOUS
  <2>1. CASE LoadAgain
    BY <2>1, LoadKeepsInvariant DEF LoadAgain
  <2>2. CASE UNCHANGED viewVars
    BY <2>2 DEF viewVars, LoadsInvariant, Right, Awaited
  <2> QED
    BY <2>1, <2>2, SelectKeepsInvariant, ArriveKeepsInvariant, FailKeepsInvariant DEF ViewNext
<1> QED
  BY <1>1, <1>2, ViewTypeCorrect, PTL DEF ViewSpec

\* Whatever the order of the answers, a settled view is about the selection: always where
\* answers of earlier loads are dropped, elsewhere as long as none came late.
THEOREM SettledViewsAreAboutSelection == ViewSpec => []SettledViewIsAboutSelection
<1>1. ViewTypeOK /\ LoadsInvariant => SettledViewIsAboutSelection
  <2> SUFFICES ASSUME ViewTypeOK, LoadsInvariant, Settled, ~failed, view.asks \/ view.clears # {},
                      view.guarded \/ ~overtaken, NEW p \in 1 .. 2
               PROVE  shown[p] \in {selected, NoSubject}
    BY DEF SettledViewIsAboutSelection
  <2>1. view.parts \in 1 .. 2
    BY DEF ViewTypeOK, Discipline
  <2>2. CASE p <= view.parts
    BY <2>1, <2>2 DEF LoadsInvariant, Settled, Right, Awaited
  <2>3. CASE p > view.parts
    BY <2>1, <2>3 DEF LoadsInvariant
  <2> QED
    BY <2>1, <2>2, <2>3
<1> QED
  BY <1>1, ViewTypeCorrect, LoadsInvariantHolds, PTL
-----------------------------------------------------------------------------
(* The filter of the drill-down                                            *)

\* Of every filter, and not only of those that can be reached.
LEMMA ChipsTellFilter ==
    ASSUME NEW f, NEW t
    PROVE  Selects(f, t) <=> \E day \in TradeDays(t) : \A key \in Chips(f) : Says(f, key, t, day)
<1>1. ASSUME NEW day
      PROVE  (\A key \in Chips(f) : Says(f, key, t, day))
                <=> InWindow(f, day) /\ (f.symbol # "any" => Symbol(t) = f.symbol)
  <2>1. Says(f, "preset", t, day) <=> (f.preset = "30d" => Recent(day))
    BY DEF Says
  <2>2. Says(f, "from", t, day) <=> day >= f.from
    BY DEF Says
  <2>3. Says(f, "to", t, day) <=> day <= f.to
    BY DEF Says
  <2>4. Says(f, "symbol", t, day) <=> Symbol(t) = f.symbol
    BY DEF Says
  <2>5. /\ "preset" \in Chips(f) <=> f.preset # "all"
        /\ "symbol" \in Chips(f) <=> f.symbol # "any"
        /\ "from" \in Chips(f) <=> f.preset = "custom" /\ f.from # NoDay
        /\ "to" \in Chips(f) <=> f.preset = "custom" /\ f.to # NoDay
        /\ Chips(f) \subseteq {"preset", "from", "to", "symbol"}
    BY DEF Chips, Keys
  <2> QED
    BY <2>1, <2>2, <2>3, <2>4, <2>5 DEF InWindow
<1> QED
  BY <1>1 DEF Selects

\* Whatever filters were tried, a trade is selected exactly when its entry or its exit agrees
\* with all the chips on the screen.
THEOREM ChipsAlwaysTell == DrillSpec => []ChipsTellTheFilter
<1>1. ChipsTellTheFilter
  BY ChipsTellFilter DEF ChipsTellTheFilter
<1> QED
  BY <1>1, PTL

-----------------------------------------------------------------------------
(* Sorting                                                                 *)

LEMMA IntervalSize ==
    ASSUME NEW n \in Nat
    PROVE  /\ IsFiniteSet(1 .. n) /\ Cardinality(1 .. n) = n
           /\ IsFiniteSet(0 .. n - 1) /\ Cardinality(0 .. n - 1) = n
<1>1. IsFiniteSet(1 .. n) /\ Cardinality(1 .. n) = IF 1 > n THEN 0 ELSE n - 1 + 1
  BY FS_Interval
<1>2. IsFiniteSet(0 .. n - 1) /\ Cardinality(0 .. n - 1) = IF 0 > n - 1 THEN 0 ELSE n - 1 - 0 + 1
  <2>1. n - 1 \in Int /\ 0 \in Int
    OBVIOUS
  <2> QED
    BY ONLY <2>1, FS_Interval
<1>3. (IF 1 > n THEN 0 ELSE n - 1 + 1) = n /\ (IF 0 > n - 1 THEN 0 ELSE n - 1 - 0 + 1) = n
  OBVIOUS
<1> QED
  BY <1>1, <1>2, <1>3

\* `precedes` puts any two members of S in an order, and in one only.
Orders(precedes, S) ==
    /\ \A x \in S : <<x, x>> \notin precedes
    /\ \A x, y \in S : x = y \/ <<x, y>> \in precedes \/ <<y, x>> \in precedes
    /\ \A x, y, z \in S : <<x, y>> \in precedes /\ <<y, z>> \in precedes => <<x, z>> \in precedes

\* The list has every member once, each after those that precede it.
LEMMA RankedLists ==
    ASSUME NEW S, IsFiniteSet(S), NEW precedes, Orders(precedes, S)
    PROVE  LET list == Ranked(S, precedes)
               n    == Cardinality(S)
           IN  /\ n \in Nat /\ list \in [1 .. n -> S]
               /\ \A i, j \in 1 .. n : i < j => <<list[i], list[j]>> \in precedes
               /\ \A i, j \in 1 .. n : list[i] = list[j] => i = j
               /\ \A x \in S : \E i \in 1 .. n : list[i] = x
               /\ \A i \in 1 .. n : Cardinality({y \in S : <<y, list[i]>> \in precedes}) = i - 1
<1> DEFINE below(x) == {y \in S : <<y, x>> \in precedes}
           n == Cardinality(S)
           N == 0 .. n - 1
           rank == [x \in S |-> Cardinality(below(x))]
           list == Ranked(S, precedes)
<1>1. n \in Nat
  BY FS_CardinalityType
<1>2. \A x \in S : IsFiniteSet(below(x)) /\ Cardinality(below(x)) \in N
  <2> SUFFICES ASSUME NEW x \in S PROVE IsFiniteSet(below(x)) /\ Cardinality(below(x)) \in N
    OBVIOUS
  <2>1. below(x) \in SUBSET S /\ below(x) # S
    BY DEF Orders
  <2> HIDE DEF below
  <2>2. /\ IsFiniteSet(below(x)) /\ Cardinality(below(x)) <= Cardinality(S)
        /\ Cardinality(below(x)) # Cardinality(S)
    BY <2>1, FS_Subset
  <2>3. Cardinality(below(x)) \in Nat
    BY <2>2, FS_CardinalityType
  <2> QED
    BY <1>1, <2>2, <2>3
<1>3. \A x, y \in S : <<x, y>> \in precedes => Cardinality(below(x)) < Cardinality(below(y))
  <2> SUFFICES ASSUME NEW x \in S, NEW y \in S, <<x, y>> \in precedes
               PROVE  Cardinality(below(x)) < Cardinality(below(y))
    OBVIOUS
  <2>1. below(x) \in SUBSET below(y)
    BY DEF Orders
  <2>2. x \in below(y) /\ x \notin below(x)
    BY DEF Orders
  <2> HIDE DEF below
  <2>3. /\ Cardinality(below(x)) <= Cardinality(below(y))
        /\ Cardinality(below(x)) # Cardinality(below(y))
    BY <1>2, <2>1, <2>2, FS_Subset
  <2> QED
    BY <1>2, <2>3
<1> HIDE DEF below
<1>4. rank \in Injection(S, N)
  <2>1. rank \in [S -> N]
    BY <1>2
  <2>2. \A x, y \in S : rank[x] = rank[y] => x = y
    <3> SUFFICES ASSUME NEW x \in S, NEW y \in S, rank[x] = rank[y] PROVE x = y
      OBVIOUS
    <3>1. x = y \/ <<x, y>> \in precedes \/ <<y, x>> \in precedes
      BY DEF Orders
    <3> QED
      BY <1>2, <1>3, <3>1
  <2> HIDE DEF rank
  <2> QED
    BY <2>1, <2>2 DEF Injection, IsInjective
<1>5. \A i \in N : \E x \in S : Cardinality(below(x)) = i
  <2>1. IsFiniteSet(N) /\ Cardinality(N) = n
    BY <1>1, IntervalSize
  <2> HIDE DEF N
  <2>2. rank \in Surjection(S, N)
    BY <1>4, <2>1, FS_Injection
  <2> QED
    BY <2>2 DEF Surjection
<1> DEFINE nth(i) == CHOOSE x \in S : Cardinality(below(x)) = i - 1
<1>6. \A i \in 1 .. n : nth(i) \in S /\ Cardinality(below(nth(i))) = i - 1
  <2> SUFFICES ASSUME NEW i \in 1 .. n
               PROVE  nth(i) \in S /\ Cardinality(below(nth(i))) = i - 1
    OBVIOUS
  <2>1. \E x \in S : Cardinality(below(x)) = i - 1
    BY <1>1, <1>5
  <2> QED
    BY <2>1
<1>7. list = [i \in 1 .. n |-> nth(i)]
  BY DEF Ranked, below
<1> HIDE DEF N, n, nth, list, rank
<1>8. list \in [1 .. n -> S] /\ \A i \in 1 .. n : Cardinality(below(list[i])) = i - 1
  BY <1>6, <1>7
<1>9. ASSUME NEW i \in 1 .. n, NEW j \in 1 .. n, i < j PROVE <<list[i], list[j]>> \in precedes
  <2>1. list[i] \in S /\ list[j] \in S
    BY <1>8
  <2>2. ~(i - 1 = j - 1) /\ ~(j - 1 < i - 1)
    BY <1>1, <1>9
  <2>3. list[i] # list[j] /\ <<list[j], list[i]>> \notin precedes
    BY <1>3, <1>8, <2>1, <2>2
  <2> QED
    BY <2>1, <2>3 DEF Orders
<1>10. ASSUME NEW i \in 1 .. n, NEW j \in 1 .. n, list[i] = list[j] PROVE i = j
  <2>1. i - 1 = j - 1
    BY <1>8, <1>10
  <2> QED
    BY <1>1, <2>1
<1>11. ASSUME NEW x \in S PROVE \E i \in 1 .. n : list[i] = x
  <2> DEFINE i == Cardinality(below(x)) + 1
  <2>1. i \in 1 .. n /\ Cardinality(below(x)) = i - 1
    BY <1>1, <1>2, <1>11 DEF N
  <2> HIDE DEF i
  <2>2. list[i] \in S /\ Cardinality(below(list[i])) = Cardinality(below(x))
    BY <1>8, <2>1
  <2>3. Cardinality(below(x)) \in N
    BY <1>2, <1>11
  <2>4. ~(Cardinality(below(list[i])) < Cardinality(below(x)))
        /\ ~(Cardinality(below(x)) < Cardinality(below(list[i])))
    BY <1>1, <2>2, <2>3 DEF N
  <2>5. list[i] = x
    BY <1>3, <1>11, <2>2, <2>4 DEF Orders
  <2> QED
    BY <2>1, <2>5
<1> QED
  BY <1>1, <1>8, <1>9, <1>10, <1>11 DEF below, n, list

-----------------------------------------------------------------------------
(* Lists of trades                                                         *)

\* No trade is on the list twice.
Distinct(s) == \A i, j \in 1 .. Len(s) : s[i] = s[j] => i = j

LEMMA DistinctCount ==
    ASSUME NEW s \in Seq(Trades), Distinct(s)
    PROVE  Cardinality(ToSet(s)) = Len(s)
<1> DEFINE N == 1 .. Len(s)
<1>1. Len(s) \in Nat /\ s \in [N -> Trades] /\ DOMAIN s = N
  BY LenProperties
<1>2. s \in [N -> ToSet(s)]
  BY <1>1 DEF ToSet
<1>3. s \in Injection(N, ToSet(s))
  BY <1>1, <1>2 DEF Injection, IsInjective, Distinct
<1>4. s \in Surjection(N, ToSet(s))
  BY <1>1, <1>2 DEF Surjection, ToSet
<1>5. ExistsBijection(N, ToSet(s))
  BY <1>3, <1>4 DEF ExistsBijection, Bijection
<1>6. IsFiniteSet(N) /\ Cardinality(N) = Len(s)
  BY <1>1, IntervalSize
<1> HIDE DEF N
<1> QED
  BY <1>5, <1>6, FS_Bijection

\* What the server selects: at most all trades, each once.
LEMMA MatchesList ==
    ASSUME closed \subseteq Trades, NEW f
    PROVE  /\ Matches(f) \in Seq(Trades) /\ Distinct(Matches(f))
           /\ Len(Matches(f)) \in 0 .. LastTrade
<1> DEFINE S == {t \in closed : Selects(f, t)}
           latest == {p \in S \X S : p[1] > p[2]}
           n == Cardinality(S)
<1>1. IsFiniteSet(Trades) /\ Cardinality(Trades) = LastTrade
  BY DrillAssumption, IntervalSize DEF Trades
<1>2. S \in SUBSET Trades
  OBVIOUS
<1>3. IsFiniteSet(S) /\ n <= LastTrade
  <2> HIDE DEF S
  <2> QED
    BY <1>1, <1>2, FS_Subset
<1>4. Orders(latest, S)
  <2>1. \A t \in S : t \in Int
    BY DEF Trades
  <2>2. \A t, u \in S : <<t, u>> \in latest <=> t > u
    OBVIOUS
  <2> HIDE DEF S, latest
  <2> QED
    BY <2>1, <2>2 DEF Orders
<1>5. Matches(f) = Ranked(S, latest)
  BY DEF Matches
<1> HIDE DEF S, latest, n
<1>6. /\ n \in Nat /\ Matches(f) \in [1 .. n -> S]
      /\ \A i, j \in 1 .. n : Matches(f)[i] = Matches(f)[j] => i = j
  BY <1>3, <1>4, <1>5, RankedLists DEF n
<1>7. Matches(f) \in Seq(Trades) /\ Len(Matches(f)) = n
  BY <1>2, <1>6
<1> QED
  BY <1>3, <1>6, <1>7, DrillAssumption DEF Distinct

\* The last row of the page at `offset`.
PageEnd(f, offset) ==
    IF offset + PageSize < Len(Matches(f)) THEN offset + PageSize ELSE Len(Matches(f))

\* The rows of a page are those of the matches between its bounds, each once.
LEMMA AnswerIs ==
    ASSUME closed \subseteq Trades, NEW f, NEW offset \in Nat
    PROVE  /\ Answer(f, offset).total = Len(Matches(f))
           /\ Answer(f, offset).total \in 0 .. LastTrade
           /\ Answer(f, offset).rows = SubSeq(Matches(f), offset + 1, PageEnd(f, offset))
           /\ Answer(f, offset).rows \in Seq(Trades)
           /\ Distinct(Answer(f, offset).rows)
<1> DEFINE all == Matches(f)
           last == PageEnd(f, offset)
           rows == SubSeq(all, offset + 1, last)
<1>1. all \in Seq(Trades) /\ Distinct(all) /\ Len(all) \in 0 .. LastTrade
  BY MatchesList
<1>2. Answer(f, offset) = [rows |-> rows, total |-> Len(all)]
  BY DEF Answer, PageEnd
<1>3. last \in Int /\ last <= Len(all)
  BY <1>1, DrillAssumption DEF PageEnd
<1> HIDE DEF all, last
<1>4. \A i \in offset + 1 .. last : i \in 1 .. Len(all) /\ all[i] \in Trades
  BY <1>1, <1>3
<1>5. /\ rows \in Seq(Trades)
      /\ Len(rows) = IF offset + 1 <= last THEN last - (offset + 1) + 1 ELSE 0
      /\ \A i \in 1 .. last - (offset + 1) + 1 : rows[i] = all[offset + 1 + i - 1]
  <2>1. offset + 1 \in Int
    OBVIOUS
  <2> QED
    BY <1>3, <1>4, <2>1, SubSeqProperties
<1> HIDE DEF rows
<1>6. Distinct(rows)
  <2> SUFFICES ASSUME NEW i \in 1 .. Len(rows), NEW j \in 1 .. Len(rows), rows[i] = rows[j]
               PROVE  i = j
    BY DEF Distinct
  <2>1. /\ i \in 1 .. last - (offset + 1) + 1 /\ j \in 1 .. last - (offset + 1) + 1
        /\ offset + 1 + i - 1 \in 1 .. Len(all) /\ offset + 1 + j - 1 \in 1 .. Len(all)
    <3>1. Len(all) \in Nat /\ last \in Int /\ last <= Len(all) /\ offset \in Nat
      BY <1>1, <1>3
    <3>2. offset + 1 <= last /\ Len(rows) = last - (offset + 1) + 1
      BY <1>5, <3>1
    <3> QED
      BY <3>1, <3>2
  <2>2. all[offset + 1 + i - 1] = all[offset + 1 + j - 1]
    BY <1>5, <2>1
  <2>3. offset + 1 + i - 1 = offset + 1 + j - 1
    BY <1>1, <2>1, <2>2 DEF Distinct
  <2> QED
    BY <2>1, <2>3
<1> QED
  BY <1>1, <1>2, <1>5, <1>6 DEF all, last, rows
-----------------------------------------------------------------------------
(* A further page                                                          *)

\* What is appended has no trade that is listed, and none twice.
LEMMA UnlistedRows ==
    ASSUME listed \in Seq(Trades), Distinct(listed), NEW rows \in Seq(Trades), Distinct(rows)
    PROVE  listed \o Unlisted(rows) \in Seq(Trades) /\ Distinct(listed \o Unlisted(rows))
<1> DEFINE S == {i \in DOMAIN rows : rows[i] \notin ToSet(listed)}
           earlier == {p \in S \X S : p[1] < p[2]}
           a == Ranked(S, earlier)
           n == Cardinality(S)
           new == Unlisted(rows)
<1>1. /\ Len(rows) \in Nat /\ DOMAIN rows = 1 .. Len(rows)
      /\ Len(listed) \in Nat /\ DOMAIN listed = 1 .. Len(listed)
      /\ \A i \in 1 .. Len(rows) : rows[i] \in Trades
      /\ \A i \in 1 .. Len(listed) : listed[i] \in Trades
  BY LenProperties
<1>2. S \in SUBSET (1 .. Len(rows)) /\ \A i \in S : rows[i] \notin ToSet(listed)
  BY <1>1
<1>3. Orders(earlier, S)
  <2>1. \A i \in S : i \in Int
    BY <1>1
  <2>2. \A i, j \in S : <<i, j>> \in earlier <=> i < j
    OBVIOUS
  <2> HIDE DEF S, earlier
  <2> QED
    BY <2>1, <2>2 DEF Orders
<1> HIDE DEF S
<1>4. IsFiniteSet(S)
  <2>1. IsFiniteSet(1 .. Len(rows))
    BY <1>1, IntervalSize
  <2> QED
    BY <1>2, <2>1, FS_Subset
<1>5. /\ n \in Nat /\ a \in [1 .. n -> S]
      /\ \A i, j \in 1 .. n : a[i] = a[j] => i = j
  <2> HIDE DEF earlier
  <2> QED
    BY <1>3, <1>4, RankedLists
<1>6. new = [i \in DOMAIN a |-> rows[a[i]]]
  BY DEF Unlisted, S
<1> HIDE DEF a, n
<1>7. new = [i \in 1 .. n |-> rows[a[i]]]
  BY <1>5, <1>6
<1>8. \A i \in 1 .. n : a[i] \in S /\ a[i] \in 1 .. Len(rows) /\ rows[a[i]] \in Trades
  BY <1>1, <1>2, <1>5
<1>9. new \in Seq(Trades) /\ Len(new) = n
  BY <1>5, <1>7, <1>8
<1>10. \A i \in 1 .. n : new[i] \notin ToSet(listed)
  BY <1>2, <1>7, <1>8
<1>11. \A i, j \in 1 .. n : new[i] = new[j] => i = j
  <2> SUFFICES ASSUME NEW i \in 1 .. n, NEW j \in 1 .. n, new[i] = new[j] PROVE i = j
    OBVIOUS
  <2>1. rows[a[i]] = rows[a[j]]
    BY <1>7
  <2>2. a[i] = a[j]
    BY <1>8, <2>1 DEF Distinct
  <2> QED
    BY <1>5, <2>2
<1> HIDE DEF new
<1>12. /\ listed \o new \in Seq(Trades) /\ Len(listed \o new) = Len(listed) + n
       /\ \A i \in 1 .. Len(listed) : (listed \o new)[i] = listed[i]
       /\ \A i \in 1 .. n : (listed \o new)[Len(listed) + i] = new[i]
  <2>1. /\ listed \o new \in Seq(Trades) /\ Len(listed \o new) = Len(listed) + Len(new)
        /\ \A i \in 1 .. Len(listed) + Len(new) :
              (listed \o new)[i] = IF i <= Len(listed) THEN listed[i] ELSE new[i - Len(listed)]
    BY <1>9, ConcatProperties
  <2>2. \A i \in 1 .. Len(listed) : i \in 1 .. Len(listed) + n /\ i <= Len(listed)
    BY <1>1, <1>5
  <2>3. \A i \in 1 .. n : /\ Len(listed) + i \in 1 .. Len(listed) + n
                          /\ ~(Len(listed) + i <= Len(listed)) /\ Len(listed) + i - Len(listed) = i
    BY <1>1, <1>5
  <2> QED
    BY <1>9, <2>1, <2>2, <2>3
<1>13. \A i \in 1 .. Len(listed) : listed[i] \in ToSet(listed)
  BY <1>1 DEF ToSet
<1>14. Distinct(listed \o new)
  <2> DEFINE both == listed \o new
             k == Len(listed)
  <2>1. \A i \in 1 .. k, j \in 1 .. n : both[i] # both[k + j]
    BY <1>10, <1>12, <1>13
  <2>2. \A i, j \in 1 .. k : both[i] = both[j] => i = j
    BY <1>12 DEF Distinct
  <2>3. \A i, j \in 1 .. n : both[k + i] = both[k + j] => i = j
    <3>1. \A i \in 1 .. n : both[k + i] = new[i]
      BY <1>12
    <3> HIDE DEF both, k
    <3> QED
      BY <1>11, <3>1
  <2>4. Len(both) = k + n /\ k \in Nat /\ n \in Nat
    BY <1>1, <1>5, <1>12
  <2> HIDE DEF both, k
  <2> SUFFICES ASSUME NEW i \in 1 .. k + n, NEW j \in 1 .. k + n, both[i] = both[j] PROVE i = j
    BY <2>4 DEF Distinct, both
  <2>5. \A m \in 1 .. k + n : m \in 1 .. k \/ (m - k \in 1 .. n /\ m = k + (m - k))
    BY <2>4
  <2> QED
    BY <2>1, <2>2, <2>3, <2>4, <2>5
<1> QED
  BY <1>12, <1>14 DEF new

\* Rows none of which is listed are appended as they are.
LEMMA NewRows ==
    ASSUME NEW rows \in Seq(Trades), \A i \in 1 .. Len(rows) : rows[i] \notin ToSet(listed)
    PROVE  Unlisted(rows) = rows
<1> DEFINE n == Len(rows)
           S == {i \in DOMAIN rows : rows[i] \notin ToSet(listed)}
           earlier == {p \in S \X S : p[1] < p[2]}
           a == Ranked(S, earlier)
<1>1. n \in Nat /\ DOMAIN rows = 1 .. n /\ rows = [i \in 1 .. n |-> rows[i]]
  <2>1. n \in Nat /\ DOMAIN rows = 1 .. n /\ rows \in [1 .. n -> Trades]
    BY LenProperties
  <2> QED
    BY <2>1
<1>2. S = 1 .. n
  BY <1>1
<1>3. Unlisted(rows) = [i \in DOMAIN a |-> rows[a[i]]]
  BY DEF Unlisted
<1> HIDE DEF n, S
<1>4. IsFiniteSet(S) /\ Cardinality(S) = n
  <2>1. IsFiniteSet(1 .. n) /\ Cardinality(1 .. n) = n
    BY <1>1, IntervalSize
  <2> QED
    BY <1>2, <2>1
<1>5. \A i, j \in S : <<i, j>> \in earlier <=> i < j
  OBVIOUS
<1> HIDE DEF earlier
<1>6. Orders(earlier, S)
  BY <1>2, <1>5 DEF Orders
<1>7. /\ a \in [1 .. n -> S]
      /\ \A i \in 1 .. n : Cardinality({j \in S : <<j, a[i]>> \in earlier}) = i - 1
  BY <1>4, <1>6, RankedLists
<1> HIDE DEF a
<1>8. \A i \in 1 .. n : a[i] = i
  <2> SUFFICES ASSUME NEW i \in 1 .. n PROVE a[i] = i
    OBVIOUS
  <2> DEFINE k == a[i]
  <2>1. k \in 1 .. n /\ Cardinality({j \in S : <<j, k>> \in earlier}) = i - 1
    BY <1>2, <1>7
  <2> HIDE DEF k
  <2>2. {j \in S : <<j, k>> \in earlier} = 1 .. k - 1
    BY <1>1, <1>2, <1>5, <2>1
  <2>3. Cardinality(1 .. k - 1) = k - 1
    <3>1. k - 1 \in Nat
      BY <2>1
    <3> QED
      BY <3>1, IntervalSize
  <2>4. k - 1 = i - 1
    BY <2>1, <2>2, <2>3
  <2>5. k = i
    BY <2>1, <2>4
  <2> QED
    BY <2>5 DEF k
<1>9. Unlisted(rows) = [i \in 1 .. n |-> rows[i]]
  BY <1>3, <1>7, <1>8
<1> QED
  BY <1>1, <1>9

-----------------------------------------------------------------------------
(* The list is a beginning of the matches, of whole pages                   *)

\* The list and the number shown are those of `all`, as far as pages were read.
Shows(list, number, all) ==
    /\ IsPrefix(list, all) /\ number = Len(all)
    /\ Len(list) = number \/ (Len(list) > 0 /\ Len(list) % PageSize = 0)

LEMMA PrefixIs ==
    ASSUME NEW s \in Seq(Trades), NEW t \in Seq(Trades)
    PROVE  IsPrefix(s, t) <=> Len(s) <= Len(t) /\ \A i \in 1 .. Len(s) : s[i] = t[i]
<1>1. Len(s) \in Nat /\ Len(t) \in Nat
  BY LenProperties
<1>2. SubSeq(s, 1, Len(s)) = s
  BY SubSeqFull
<1>3. ASSUME Len(s) <= Len(t)
      PROVE  /\ SubSeq(t, 1, Len(s)) \in Seq(Trades)
             /\ Len(SubSeq(t, 1, Len(s))) = Len(s)
             /\ \A i \in 1 .. Len(s) : SubSeq(t, 1, Len(s))[i] = t[i]
  BY <1>1, <1>3
<1>4. ASSUME Len(s) <= Len(t), \A i \in 1 .. Len(s) : s[i] = t[i]
      PROVE  s = SubSeq(t, 1, Len(s))
  BY <1>3, <1>4, SeqEqual
<1> QED
  BY <1>2, <1>3, <1>4 DEF IsPrefix

LEMMA OneMoreTurn ==
    ASSUME NEW a \in Int, NEW b \in Int, b > 0
    PROVE  (a + b) % b = a % b
<1> DEFINE q  == a \div b
           r  == a % b
           q2 == (a + b) \div b
           r2 == (a + b) % b
           e  == q2 - (q + 1)
<1>1. a = b * q + r /\ q \in Int /\ r \in 0 .. b - 1
  OBVIOUS
<1>2. a + b = b * q2 + r2 /\ q2 \in Int /\ r2 \in 0 .. b - 1
  OBVIOUS
<1> HIDE DEF q, r, q2, r2
<1>3. b * (q2 - (q + 1)) = r - r2
  <2>1. a + b = b * (q + 1) + r
    BY <1>1
  <2> QED
    BY <1>1, <1>2, <2>1
<1>4. e \in Int /\ b * e = r - r2
  BY <1>1, <1>2, <1>3
<1> HIDE DEF e
<1>5. e < 1
  <2> SUFFICES ASSUME e >= 1 PROVE FALSE
    BY <1>4
  <2>1. b * e >= b
    BY <1>4
  <2> QED
    BY <1>1, <1>2, <1>4, <2>1
<1>6. e > -1
  <2> SUFFICES ASSUME e <= -1 PROVE FALSE
    BY <1>4
  <2>1. b * e <= -b
    BY <1>4
  <2> QED
    BY <1>1, <1>2, <1>4, <2>1
<1>7. e = 0
  BY <1>4, <1>5, <1>6
<1>8. r = r2
  BY <1>1, <1>2, <1>4, <1>7
<1> QED
  BY <1>8 DEF r, r2

LEMMA PageMod ==
    ASSUME NEW n \in Nat, n % PageSize = 0
    PROVE  (n + PageSize) % PageSize = 0
<1>1. PageSize \in Int /\ PageSize > 0 /\ n \in Int
  BY DrillAssumption
<1> QED
  BY <1>1, OneMoreTurn

\* A first page shows the matches.
LEMMA FirstPage ==
    ASSUME closed \subseteq Trades, NEW f
    PROVE  Shows(Answer(f, 0).rows, Answer(f, 0).total, Matches(f))
<1> DEFINE all  == Matches(f)
           rows == Answer(f, 0).rows
           last == PageEnd(f, 0)
<1>1. all \in Seq(Trades) /\ Len(all) \in Nat
  BY MatchesList
<1>2. /\ Answer(f, 0).total = Len(all) /\ rows = SubSeq(all, 0 + 1, last) /\ rows \in Seq(Trades)
  BY AnswerIs
<1>3. /\ PageSize \in Nat /\ PageSize > 0
      /\ last = IF 0 + PageSize < Len(all) THEN 0 + PageSize ELSE Len(all)
  BY DrillAssumption DEF PageEnd
<1> HIDE DEF all, last, rows
<1>4. last \in 0 .. Len(all)
  BY <1>1, <1>3
<1>5. Len(rows) = last /\ \A i \in 1 .. last : rows[i] = all[i]
  BY <1>1, <1>2, <1>4
<1>6. IsPrefix(rows, all)
  <2>1. Len(rows) <= Len(all) /\ \A i \in 1 .. Len(rows) : rows[i] = all[i]
    BY <1>1, <1>4, <1>5
  <2> QED
    BY <1>1, <1>2, <2>1, PrefixIs
<1>7. 0 % PageSize = 0
  BY <1>3
<1>8. (0 + PageSize) % PageSize = 0
  BY <1>7, PageMod
<1>9. Len(rows) = Len(all) \/ (Len(rows) > 0 /\ Len(rows) % PageSize = 0)
  <2>1. CASE 0 + PageSize < Len(all)
    <3>1. Len(rows) = 0 + PageSize
      BY <1>3, <1>5, <2>1
    <3>2. Len(rows) > 0
      BY <1>3, <3>1
    <3> QED
      BY <1>8, <3>1, <3>2
  <2>2. CASE ~(0 + PageSize < Len(all))
    BY <1>3, <1>5, <2>2
  <2> QED
    BY <2>1, <2>2
<1> QED
  BY <1>2, <1>6, <1>9 DEF Shows, all, rows

\* A further page shows more of them.
LEMMA NextPage ==
    ASSUME closed \subseteq Trades, NEW f, listed \in Seq(Trades),
           Shows(listed, total, Matches(f)), Len(listed) < total
    PROVE  LET page == Answer(f, Len(listed))
           IN  Shows(listed \o Unlisted(page.rows), page.total, Matches(f))
<1> DEFINE all  == Matches(f)
           n    == Len(listed)
           rows == Answer(f, n).rows
           last == PageEnd(f, n)
           both == listed \o rows
<1>1. all \in Seq(Trades) /\ Len(all) \in Nat /\ Distinct(all) /\ n \in Nat
  BY MatchesList
<1>2. /\ Answer(f, n).total = Len(all) /\ rows = SubSeq(all, n + 1, last) /\ rows \in Seq(Trades)
  BY <1>1, AnswerIs
<1>3. /\ PageSize \in Nat /\ PageSize > 0
      /\ last = IF n + PageSize < Len(all) THEN n + PageSize ELSE Len(all)
  BY DrillAssumption DEF PageEnd
<1>4. n < Len(all) /\ \A i \in 1 .. n : listed[i] = all[i]
  BY <1>1, PrefixIs DEF Shows
<1>5. n % PageSize = 0
  BY <1>1, <1>4 DEF Shows
<1> HIDE DEF all, last, rows, n
<1>6. last \in n + 1 .. Len(all)
  BY <1>1, <1>3, <1>4
<1>7. /\ Len(rows) = last - n
      /\ \A i \in 1 .. last - n : rows[i] = all[n + i] /\ n + i \in 1 .. Len(all)
  <2>1. \A i \in n + 1 .. last : i \in 1 .. Len(all) /\ all[i] \in Trades
    BY <1>1, <1>6
  <2>2. /\ Len(rows) = IF n + 1 <= last THEN last - (n + 1) + 1 ELSE 0
        /\ \A i \in 1 .. last - (n + 1) + 1 : rows[i] = all[n + 1 + i - 1]
    <3>1. n + 1 \in Int /\ last \in Int
      BY <1>1, <1>6
    <3> QED
      BY <1>2, <2>1, <3>1, SubSeqProperties
  <2>3. n + 1 <= last /\ last - (n + 1) + 1 = last - n
    BY <1>1, <1>6
  <2>4. \A i \in 1 .. last - n : n + 1 + i - 1 = n + i /\ n + i \in 1 .. Len(all)
    BY <1>1, <1>6
  <2> QED
    BY <2>2, <2>3, <2>4
<1>8. Unlisted(rows) = rows
  <2> SUFFICES ASSUME NEW i \in 1 .. Len(rows), rows[i] \in ToSet(listed) PROVE FALSE
    BY <1>2, NewRows
  <2>1. PICK j \in 1 .. n : rows[i] = listed[j]
    BY DEF ToSet, n
  <2>2. rows[i] = all[n + i] /\ n + i \in 1 .. Len(all)
    BY <1>7
  <2>3. j \in 1 .. Len(all) /\ all[j] = all[n + i]
    <3>1. j \in 1 .. Len(all)
      BY <1>1, <1>4
    <3> QED
      BY <1>4, <2>1, <2>2, <3>1
  <2>4. j = n + i
    BY <1>1, <2>2, <2>3 DEF Distinct
  <2> QED
    BY <1>1, <1>6, <1>7, <2>1, <2>4
<1>9. /\ both \in Seq(Trades) /\ Len(both) = last
      /\ \A i \in 1 .. last : both[i] = all[i]
  <2>1. /\ both \in Seq(Trades) /\ Len(both) = n + Len(rows)
        /\ \A i \in 1 .. n + Len(rows) : both[i] = IF i <= n THEN listed[i] ELSE rows[i - n]
    BY <1>2, ConcatProperties DEF n
  <2>2. n + Len(rows) = last
    BY <1>1, <1>6, <1>7
  <2> HIDE DEF both
  <2>3. ASSUME NEW i \in 1 .. last PROVE both[i] = all[i]
    <3>1. CASE i <= n
      BY <1>1, <1>4, <2>1, <2>2, <3>1
    <3>2. CASE ~(i <= n)
      <4>1. i - n \in 1 .. last - n /\ n + (i - n) = i
        BY <1>1, <1>6, <3>2
      <4> QED
        BY <1>7, <2>1, <2>2, <3>2, <4>1
    <3> QED
      BY <3>1, <3>2
  <2> QED
    BY <2>1, <2>2, <2>3
<1> HIDE DEF both
<1>10. IsPrefix(both, all)
  BY <1>1, <1>6, <1>9, PrefixIs
<1>11. Len(both) = Len(all) \/ (Len(both) > 0 /\ Len(both) % PageSize = 0)
  <2>1. CASE n + PageSize < Len(all)
    <3>1. Len(both) = n + PageSize /\ Len(both) > 0
      BY <1>1, <1>3, <1>9, <2>1
    <3>2. (n + PageSize) % PageSize = 0
      BY <1>1, <1>5, PageMod
    <3> QED
      BY <3>1, <3>2
  <2>2. CASE ~(n + PageSize < Len(all))
    BY <1>3, <1>9, <2>2
  <2> QED
    BY <2>1, <2>2
<1>12. Shows(listed \o Unlisted(rows), Answer(f, n).total, all)
  BY <1>2, <1>8, <1>10, <1>11 DEF Shows, both
<1> QED
  BY <1>12 DEF all, rows, n

-----------------------------------------------------------------------------
(* The drawer                                                              *)

DrawerRequest ==
    [version : 0 .. MaxVersions, first : BOOLEAN, rows : Seq(Trades), total : 0 .. LastTrade]

\* What the answer of a current request will find: nothing has overtaken it, and while the
\* journal stands still it holds the page after the list.
ReplyFits(r) ==
    /\ drawerOpen
    /\ IF r.first THEN loading ELSE loadingMore /\ ~loading
    /\ changes = readAt =>
          /\ r.rows = Answer(filter, IF r.first THEN 0 ELSE Len(listed)).rows
          /\ r.total = Answer(filter, IF r.first THEN 0 ELSE Len(listed)).total
          /\ ~r.first => Len(listed) < total

\* The drawer has at most one current request, and it is awaited; the list never holds a
\* trade twice; and while the journal stands still it is a beginning of the matches in
\* whole pages, or empty after the first page failed.
DrawerInvariant ==
    /\ DrillTypeOK /\ readAt <= changes
    /\ Distinct(listed)
    /\ loading => listed = <<>> /\ total = 0
    /\ \A r \in requests :
          /\ r \in DrawerRequest /\ r.version <= version /\ Distinct(r.rows)
          /\ Current(r) => ReplyFits(r)
    /\ \A r1, r2 \in requests : Current(r1) /\ Current(r2) => r1 = r2
    /\ (drawerOpen /\ ~loading /\ changes = readAt) =>
          \/ Shows(listed, total, Matches(filter))
          \/ trouble /\ listed = <<>> /\ total = 0

\* What the server answers depends on the journal and the filter only.
LEMMA SameAnswer ==
    ASSUME closed' = closed, filter' = filter, NEW n
    PROVE  Matches(filter)' = Matches(filter) /\ Answer(filter, n)' = Answer(filter, n)
  BY DEF Answer, Matches

LEMMA ReloadStep ==
    ASSUME DrawerInvariant, NEW open \in BOOLEAN, NEW f \in Filters, Reload(open, f)
    PROVE  DrawerInvariant'
<1> DEFINE new == [version |-> version + 1, first |-> TRUE,
                   rows |-> Answer(f, 0).rows, total |-> Answer(f, 0).total]
<1>1. /\ version < MaxVersions /\ version' = version + 1
      /\ drawerOpen' = open /\ filter' = f
      /\ listed' = <<>> /\ total' = 0
      /\ loading' = open /\ loadingMore' = FALSE /\ trouble' = FALSE
      /\ requests' = IF open THEN requests \cup {new} ELSE requests
      /\ readAt' = changes /\ closed' = closed /\ changes' = changes
  BY DEF Reload
<1>2. /\ closed \subseteq Trades /\ version \in Nat /\ changes \in 0 .. MaxChanges
      /\ MaxVersions \in Nat /\ MaxChanges \in Nat /\ LastTrade \in Nat
  BY DrillAssumption DEF DrawerInvariant, DrillTypeOK
<1>3. \A r \in requests : r \in DrawerRequest /\ r.version <= version /\ r.version \in Nat /\ Distinct(r.rows)
  BY <1>2 DEF DrawerInvariant, DrawerRequest
<1>4. /\ Answer(f, 0).rows \in Seq(Trades) /\ Distinct(Answer(f, 0).rows)
      /\ Answer(f, 0).total \in 0 .. LastTrade
  BY <1>2, AnswerIs
<1>5. Answer(filter, 0)' = Answer(f, 0)
  BY <1>1 DEF Answer, Matches
<1>6. /\ new \in DrawerRequest /\ new.version = version + 1 /\ new.first
      /\ new.rows = Answer(f, 0).rows /\ new.total = Answer(f, 0).total
  BY <1>1, <1>2, <1>4 DEF DrawerRequest
<1> HIDE DEF new
<1>7. \A r \in requests' :
          /\ r \in DrawerRequest /\ r.version <= version' /\ Distinct(r.rows) /\ r.rows \in Seq(Trades)
          /\ r.version = version' => open /\ r = new
  <2> SUFFICES ASSUME NEW r \in requests'
               PROVE  /\ r \in DrawerRequest /\ r.version <= version' /\ Distinct(r.rows)
                      /\ r.rows \in Seq(Trades)
                      /\ r.version = version' => open /\ r = new
    OBVIOUS
  <2>1. CASE r \in requests
    BY <1>1, <1>2, <1>3, <2>1 DEF DrawerRequest
  <2>2. CASE r = new /\ open
    BY <1>1, <1>2, <1>4, <1>6, <2>2
  <2> QED
    BY <1>1, <2>1, <2>2
<1>8. Distinct(listed')
  BY <1>1 DEF Distinct
<1>9. DrillTypeOK'
  <2>1. listed' \in Seq(Trades)
    BY <1>1
  <2>2. total' \in 0 .. LastTrade /\ version' \in 0 .. MaxVersions
    BY <1>1, <1>2, DrillAssumption DEF DrawerInvariant, DrillTypeOK
  <2>3. changes' \in 0 .. MaxChanges /\ readAt' \in 0 .. MaxChanges
    BY <1>1, <1>2
  <2> QED
    BY <1>1, <1>2, <1>7, <2>1, <2>2, <2>3 DEF DrillTypeOK
<1>10. \A r \in requests' : r.version = version' => ReplyFits(r)'
  BY <1>1, <1>5, <1>6, <1>7 DEF ReplyFits
<1>11. (drawerOpen /\ ~loading)' = FALSE
  BY <1>1
<1>12. (readAt <= changes)'
  BY <1>1, <1>2
<1> QED
  BY <1>1, <1>7, <1>8, <1>9, <1>10, <1>11, <1>12 DEF DrawerInvariant, Current

LEMMA LoadMoreStep ==
    ASSUME DrawerInvariant, LoadMore PROVE DrawerInvariant'
<1> DEFINE page == Answer(filter, Len(listed))
           new  == [version |-> version, first |-> FALSE, rows |-> page.rows, total |-> page.total]
<1>1. /\ drawerOpen /\ ~loading /\ ~loadingMore /\ Len(listed) < total
      /\ loadingMore' = TRUE /\ trouble' = FALSE
      /\ requests' = requests \cup {new}
      /\ UNCHANGED <<closed, filter, drawerOpen, version, listed, total, loading, changes, readAt>>
  BY DEF LoadMore
<1>2. /\ closed \subseteq Trades /\ version \in 0 .. MaxVersions /\ listed \in Seq(Trades)
      /\ Len(listed) \in Nat
  BY DEF DrawerInvariant, DrillTypeOK
<1>3. page.rows \in Seq(Trades) /\ Distinct(page.rows) /\ page.total \in 0 .. LastTrade
  BY <1>2, AnswerIs
<1>4. Answer(filter, Len(listed))' = page /\ Matches(filter)' = Matches(filter)
  BY <1>1 DEF Answer, Matches
<1> HIDE DEF page
<1>5. /\ new \in DrawerRequest /\ new.version = version /\ ~new.first
      /\ new.rows = page.rows /\ new.total = page.total
  BY <1>2, <1>3 DEF DrawerRequest
<1>6. \A r \in requests : ~Current(r)
  BY <1>1 DEF DrawerInvariant, ReplyFits
<1> HIDE DEF new
<1>7. \A r \in requests' :
          /\ r \in DrawerRequest /\ r.version <= version /\ Distinct(r.rows) /\ r.rows \in Seq(Trades)
          /\ Current(r) => r = new
  <2>1. \A r \in requests : r \in DrawerRequest /\ r.version <= version /\ Distinct(r.rows)
    BY DEF DrawerInvariant
  <2>2. new.version <= version
    BY <1>2, <1>5
  <2> QED
    BY <1>1, <1>3, <1>5, <1>6, <2>1, <2>2 DEF DrawerRequest
<1>8. \A r \in requests' : r = new => ReplyFits(r)'
  BY <1>1, <1>4, <1>5 DEF ReplyFits
<1>9. DrillTypeOK'
  BY <1>1, <1>7 DEF DrillTypeOK, DrawerInvariant
<1>10. (drawerOpen /\ ~loading /\ changes = readAt => Shows(listed, total, Matches(filter)))'
  <2>1. ~(listed = <<>> /\ total = 0)
    BY <1>1
  <2>2. drawerOpen /\ ~loading /\ changes = readAt => Shows(listed, total, Matches(filter))
    BY <2>1 DEF DrawerInvariant
  <2> QED
    BY <1>1, <1>4, <2>2 DEF Shows
<1>11. \A r \in requests' : Current(r)' => r = new
  BY <1>1, <1>7 DEF Current
<1> QED
  BY <1>1, <1>7, <1>8, <1>9, <1>10, <1>11 DEF DrawerInvariant

\* A request that is answered or fails leaves no current one behind, if it was current.
LEMMA RequestsLeft ==
    ASSUME DrawerInvariant, NEW r \in requests, requests' = requests \ {r}, version' = version
    PROVE  /\ requests' \subseteq requests
           /\ \A q \in requests' :
                 /\ q \in DrawerRequest /\ q.version <= version /\ Distinct(q.rows) /\ q.rows \in Seq(Trades)
                 /\ Current(q)' => Current(q) /\ ReplyFits(q) /\ ~Current(r)
           /\ \A q1, q2 \in requests' : Current(q1)' /\ Current(q2)' => q1 = q2
<1>1. \A q \in requests : Current(q)' <=> Current(q)
  BY DEF Current
<1>2. \A q \in requests :
          /\ q \in DrawerRequest /\ q.version <= version /\ Distinct(q.rows)
          /\ Current(q) => ReplyFits(q) /\ (Current(r) => q = r)
  BY DEF DrawerInvariant
<1>3. \A q \in requests : q.rows \in Seq(Trades)
  BY <1>2 DEF DrawerRequest
<1>4. \A q1, q2 \in requests : Current(q1) /\ Current(q2) => q1 = q2
  BY DEF DrawerInvariant
<1> QED
  BY <1>1, <1>2, <1>3, <1>4

LEMMA ShowPageStep ==
    ASSUME DrawerInvariant, NEW r \in requests, ShowPage(r) PROVE DrawerInvariant'
<1>1. /\ requests' = requests \ {r}
      /\ UNCHANGED <<closed, filter, drawerOpen, version, trouble, changes, readAt>>
  BY DEF ShowPage
<1>2. /\ \A q \in requests' :
             /\ q \in DrawerRequest /\ q.version <= version /\ Distinct(q.rows) /\ q.rows \in Seq(Trades)
             /\ Current(q)' => Current(q) /\ ReplyFits(q) /\ ~Current(r)
      /\ \A q1, q2 \in requests' : Current(q1)' /\ Current(q2)' => q1 = q2
  BY <1>1, RequestsLeft
<1>3. Matches(filter)' = Matches(filter) /\ \A n : Answer(filter, n)' = Answer(filter, n)
  BY <1>1, SameAnswer
<1>4. /\ closed \subseteq Trades /\ listed \in Seq(Trades) /\ Distinct(listed)
      /\ r \in DrawerRequest /\ Distinct(r.rows) /\ r.rows \in Seq(Trades) /\ r.total \in 0 .. LastTrade
      /\ loading \in BOOLEAN /\ loadingMore \in BOOLEAN
  BY DEF DrawerInvariant, DrillTypeOK, DrawerRequest
<1>5. CASE ~Current(r)
  <2>1. UNCHANGED <<listed, total, loading, loadingMore>>
    BY <1>5 DEF ShowPage
  <2>2. \A q \in requests' : Current(q)' => ReplyFits(q)'
    BY <1>1, <1>2, <1>3, <2>1 DEF ReplyFits
  <2>3. DrillTypeOK'
    BY <1>1, <1>2, <2>1 DEF DrillTypeOK, DrawerInvariant
  <2>4. Distinct(listed)'
    BY <2>1 DEF Distinct, DrawerInvariant
  <2>5. Shows(listed, total, Matches(filter))' = Shows(listed, total, Matches(filter))
    BY <1>3, <2>1 DEF Shows
  <2> QED
    BY <1>1, <1>2, <2>1, <2>2, <2>3, <2>4, <2>5 DEF DrawerInvariant
<1>6. CASE Current(r)
  <2>1. /\ listed' = IF r.first THEN r.rows ELSE listed \o Unlisted(r.rows)
        /\ total' = r.total
        /\ loading' = (loading /\ ~r.first)
        /\ loadingMore' = (loadingMore /\ r.first)
    BY <1>6 DEF ShowPage
  <2>2. \A q \in requests' : ~Current(q)'
    BY <1>2, <1>6
  <2>3. ReplyFits(r)
    BY <1>6 DEF DrawerInvariant
  <2>4. ~loading'
    BY <2>1, <2>3 DEF ReplyFits
  <2>5. listed' \in Seq(Trades) /\ Distinct(listed')
    BY <1>4, <2>1, UnlistedRows
  <2>6. (changes = readAt => Shows(listed, total, Matches(filter)))'
    <3> SUFFICES ASSUME changes = readAt PROVE Shows(listed', r.total, Matches(filter))
      BY <1>1, <1>3, <2>1 DEF Shows
    <3>1. CASE r.first
      <4>1. r.rows = Answer(filter, 0).rows /\ r.total = Answer(filter, 0).total
        BY <2>3, <3>1 DEF ReplyFits
      <4> QED
        BY <1>4, <2>1, <3>1, <4>1, FirstPage
    <3>2. CASE ~r.first
      <4>1. /\ r.rows = Answer(filter, Len(listed)).rows
            /\ r.total = Answer(filter, Len(listed)).total
            /\ Len(listed) < total /\ drawerOpen /\ ~loading
        BY <2>3, <3>2 DEF ReplyFits
      <4>2. Shows(listed, total, Matches(filter))
        BY <4>1 DEF DrawerInvariant
      <4> QED
        BY <1>4, <2>1, <3>2, <4>1, <4>2, NextPage
    <3> QED
      BY <3>1, <3>2
  <2>7. Distinct(listed)'
    BY <2>5 DEF Distinct
  <2>8. DrillTypeOK'
    BY <1>1, <1>2, <1>4, <2>1, <2>5 DEF DrillTypeOK, DrawerInvariant
  <2> QED
    BY <1>1, <1>2, <2>2, <2>4, <2>6, <2>7, <2>8 DEF DrawerInvariant
<1> QED
  BY <1>5, <1>6

LEMMA FailPageStep ==
    ASSUME DrawerInvariant, NEW r \in requests, FailPage(r) PROVE DrawerInvariant'
<1>1. /\ requests' = requests \ {r}
      /\ UNCHANGED <<closed, filter, drawerOpen, version, listed, total, changes, readAt>>
  BY DEF FailPage
<1>2. /\ \A q \in requests' :
             /\ q \in DrawerRequest /\ q.version <= version /\ Distinct(q.rows) /\ q.rows \in Seq(Trades)
             /\ Current(q)' => Current(q) /\ ReplyFits(q) /\ ~Current(r)
      /\ \A q1, q2 \in requests' : Current(q1)' /\ Current(q2)' => q1 = q2
  BY <1>1, RequestsLeft
<1>3. Matches(filter)' = Matches(filter) /\ \A n : Answer(filter, n)' = Answer(filter, n)
  BY <1>1, SameAnswer
<1>4. Distinct(listed)' /\ Shows(listed, total, Matches(filter))' = Shows(listed, total, Matches(filter))
  BY <1>1, <1>3 DEF Distinct, Shows, DrawerInvariant
<1>5. CASE ~Current(r)
  <2>1. UNCHANGED <<trouble, loading, loadingMore>>
    BY <1>5 DEF FailPage
  <2>2. \A q \in requests' : Current(q)' => ReplyFits(q)'
    BY <1>1, <1>2, <1>3, <2>1 DEF ReplyFits
  <2>3. DrillTypeOK'
    BY <1>1, <1>2, <2>1 DEF DrillTypeOK, DrawerInvariant
  <2> QED
    BY <1>1, <1>2, <1>4, <2>1, <2>2, <2>3 DEF DrawerInvariant
<1>6. CASE Current(r)
  <2>1. /\ trouble' = TRUE
        /\ loading' = (loading /\ ~r.first)
        /\ loadingMore' = (loadingMore /\ r.first)
    BY <1>6 DEF FailPage
  <2>2. \A q \in requests' : ~Current(q)'
    BY <1>2, <1>6
  <2>3. IF r.first THEN loading ELSE ~loading
    BY <1>6 DEF DrawerInvariant, ReplyFits
  <2>4. /\ ~loading'
        /\ r.first => listed = <<>> /\ total = 0
    BY <2>1, <2>3 DEF DrawerInvariant
  <2>5. (drawerOpen /\ ~loading /\ changes = readAt)' =>
            Shows(listed, total, Matches(filter))' \/ (trouble /\ listed = <<>> /\ total = 0)'
    BY <1>1, <1>4, <2>1, <2>3, <2>4 DEF DrawerInvariant
  <2>6. DrillTypeOK'
    BY <1>1, <1>2, <2>1 DEF DrillTypeOK, DrawerInvariant
  <2> QED
    BY <1>1, <1>2, <1>4, <2>2, <2>4, <2>5, <2>6 DEF DrawerInvariant
<1> QED
  BY <1>5, <1>6

LEMMA ChangeJournalStep ==
    ASSUME DrawerInvariant, NEW t \in Trades, ChangeJournal(t) PROVE DrawerInvariant'
<1>1. /\ changes < MaxChanges /\ changes' = changes + 1
      /\ closed' = IF t \in closed THEN closed \ {t} ELSE closed \cup {t}
      /\ UNCHANGED <<filter, drawerOpen, version, listed, total, loading, loadingMore, trouble,
                     requests, readAt>>
  BY DEF ChangeJournal
<1>2. changes \in 0 .. MaxChanges /\ readAt \in 0 .. MaxChanges /\ readAt <= changes /\ MaxChanges \in Nat
  BY DrillAssumption DEF DrawerInvariant, DrillTypeOK
<1>3. changes' # readAt' /\ readAt' <= changes' /\ changes' \in 0 .. MaxChanges
  BY <1>1, <1>2
<1>4. DrillTypeOK'
  BY <1>1, <1>3 DEF DrillTypeOK, DrawerInvariant
<1>5. \A r \in requests : ReplyFits(r) => ReplyFits(r)'
  BY <1>1, <1>3 DEF ReplyFits
<1>6. Distinct(listed)'
  BY <1>1 DEF Distinct, DrawerInvariant
<1> QED
  BY <1>1, <1>3, <1>4, <1>5, <1>6 DEF DrawerInvariant, Current

LEMMA FiltersAreFilters ==
    ASSUME filter \in Filters
    PROVE  /\ EmptyFilter \in Filters
           /\ \A key \in Keys : ClearFilterKey(filter, key) \in Filters
           /\ ClearDrilldownOnly(filter) \in Filters
           /\ \A from, to \in Days : FilterForDateRange(filter, from, to) \in Filters
           /\ \A preset \in {"all", "30d"} : WithGlobalPeriod(filter, preset) \in Filters
<1>1. EmptyFilter \in Filters
  BY DEF EmptyFilter, Filters, Days, NoDay
<1>2. ASSUME NEW key \in Keys PROVE ClearFilterKey(filter, key) \in Filters
  <2>1. CASE key = "preset"
    BY <2>1 DEF ClearFilterKey, Filters, Days, NoDay
  <2>2. CASE key = "symbol"
    BY <2>2 DEF ClearFilterKey, Filters
  <2>3. CASE key \in {"from", "to"}
    <3> DEFINE g == [filter EXCEPT ![key] = NoDay]
    <3>1. g \in Filters
      BY <2>3 DEF Filters, Days, NoDay
    <3>2. ClearFilterKey(filter, key)
            = IF g.from = NoDay /\ g.to = NoDay THEN [g EXCEPT !.preset = "all"] ELSE g
      BY <2>3 DEF ClearFilterKey
    <3> HIDE DEF g
    <3>3. [g EXCEPT !.preset = "all"] \in Filters
      BY <3>1 DEF Filters
    <3> QED
      BY <3>1, <3>2, <3>3
  <2> QED
    BY <2>1, <2>2, <2>3 DEF Keys
<1>3. ClearDrilldownOnly(filter) \in Filters
  BY <1>1 DEF ClearDrilldownOnly, Filters
<1>4. \A from, to \in Days : FilterForDateRange(filter, from, to) \in Filters
  BY DEF FilterForDateRange, Filters
<1>5. \A preset \in {"all", "30d"} : WithGlobalPeriod(filter, preset) \in Filters
  BY DEF WithGlobalPeriod, Filters
<1> QED
  BY <1>1, <1>2, <1>3, <1>4, <1>5

LEMMA DrawerInit == DrillInit => DrawerInvariant
<1> SUFFICES ASSUME DrillInit PROVE DrawerInvariant
  OBVIOUS
<1>1. /\ closed \subseteq Trades /\ filter \in Filters /\ ~drawerOpen /\ version = 0
      /\ listed = <<>> /\ total = 0 /\ ~loading
      /\ loading = FALSE /\ loadingMore = FALSE /\ trouble = FALSE /\ drawerOpen = FALSE
      /\ requests = {} /\ changes = 0 /\ readAt = 0
  BY DEF DrillInit, EmptyFilter, Filters, Days, NoDay
<1>2. DrillTypeOK
  <2>1. listed \in Seq(Trades)
    BY <1>1
  <2>2. 0 \in 0 .. LastTrade /\ 0 \in 0 .. MaxVersions /\ 0 \in 0 .. MaxChanges
    BY DrillAssumption
  <2> QED
    BY <1>1, <2>1, <2>2 DEF DrillTypeOK
<1>3. Distinct(listed)
  BY <1>1 DEF Distinct
<1> QED
  BY <1>1, <1>2, <1>3 DEF DrawerInvariant

LEMMA DrawerStep == DrawerInvariant /\ [DrillNext]_drillVars => DrawerInvariant'
<1> SUFFICES ASSUME DrawerInvariant, [DrillNext]_drillVars PROVE DrawerInvariant'
  OBVIOUS
<1>1. filter \in Filters /\ drawerOpen \in BOOLEAN
  BY DEF DrawerInvariant, DrillTypeOK
<1>2. CASE OpenTrades
  BY <1>1, <1>2, ReloadStep DEF OpenTrades
<1>3. CASE CloseDrill
  BY <1>1, <1>3, ReloadStep DEF CloseDrill
<1>4. CASE LoadMore
  BY <1>4, LoadMoreStep
<1>5. CASE RemoveChip
  <2>1. PICK key \in Chips(filter) : Reload(drawerOpen, ClearFilterKey(filter, key))
    BY <1>5 DEF RemoveChip
  <2>2. ClearFilterKey(filter, key) \in Filters
    BY <1>1, FiltersAreFilters DEF Chips
  <2> QED
    BY <1>1, <2>1, <2>2, ReloadStep
<1>6. CASE ResetDrilldown
  <2>1. Reload(drawerOpen, ClearDrilldownOnly(filter)) /\ ClearDrilldownOnly(filter) \in Filters
    BY <1>1, <1>6, FiltersAreFilters DEF ResetDrilldown
  <2> QED
    BY <1>1, <2>1, ReloadStep
<1>7. CASE ClickDays
  <2>1. PICK from, to \in Days \ {NoDay} : Reload(drawerOpen, FilterForDateRange(filter, from, to))
    BY <1>7 DEF ClickDays
  <2>2. FilterForDateRange(filter, from, to) \in Filters
    BY <1>1, FiltersAreFilters
  <2> QED
    BY <1>1, <2>1, <2>2, ReloadStep
<1>8. CASE PickPeriod
  <2>1. PICK preset \in {"all", "30d"} : Reload(drawerOpen, WithGlobalPeriod(filter, preset))
    BY <1>8 DEF PickPeriod
  <2>2. WithGlobalPeriod(filter, preset) \in Filters
    BY <1>1, FiltersAreFilters
  <2> QED
    BY <1>1, <2>1, <2>2, ReloadStep
<1>9. CASE ApplyFilters
  <2>1. PICK from \in Days, to \in Days, s \in {"any", "EURUSD"} :
            Reload(drawerOpen, [preset |-> "custom", from |-> from, to |-> to, symbol |-> s])
    BY <1>9 DEF ApplyFilters
  <2>2. [preset |-> "custom", from |-> from, to |-> to, symbol |-> s] \in Filters
    BY DEF Filters
  <2> QED
    BY <1>1, <2>1, <2>2, ReloadStep
<1>10. CASE \E r \in requests : ShowPage(r) \/ FailPage(r)
  BY <1>10, ShowPageStep, FailPageStep
<1>11. CASE \E t \in Trades : ChangeJournal(t)
  BY <1>11, ChangeJournalStep
<1>12. CASE UNCHANGED drillVars
  <2>1. UNCHANGED <<closed, filter, drawerOpen, version, listed, total, loading, loadingMore,
                    trouble, requests, changes, readAt>>
    BY <1>12 DEF drillVars
  <2>2. DrillTypeOK' /\ Distinct(listed)'
    BY <2>1 DEF DrillTypeOK, Distinct, DrawerInvariant
  <2>3. /\ Shows(listed, total, Matches(filter))' = Shows(listed, total, Matches(filter))
        /\ \A r \in requests : ReplyFits(r)' = ReplyFits(r)
    <3>1. Matches(filter)' = Matches(filter) /\ \A n : Answer(filter, n)' = Answer(filter, n)
      BY <2>1, SameAnswer
    <3> QED
      BY <2>1, <3>1 DEF Shows, ReplyFits
  <2> QED
    BY <2>1, <2>2, <2>3 DEF DrawerInvariant, Current
<1> QED
  BY <1>2, <1>3, <1>4, <1>5, <1>6, <1>7, <1>8, <1>9, <1>10, <1>11, <1>12 DEF DrillNext

LEMMA DrawerLists == DrawerInvariant => DrawerListsMatches
<1> SUFFICES ASSUME DrawerInvariant PROVE DrawerListsMatches
  OBVIOUS
<1>1. listed \in Seq(Trades) /\ Distinct(listed)
  BY DEF DrawerInvariant, DrillTypeOK
<1>2. Cardinality(ToSet(listed)) = Len(listed)
  BY <1>1, DistinctCount
<1> QED
  BY <1>2 DEF DrawerListsMatches, DrawerInvariant, Shows

LEMMA DrawerInvariantHolds == DrillSpec => []DrawerInvariant
  BY DrawerInit, DrawerStep, PTL DEF DrillSpec

\* The filter stays one the form can hold, and the list a list of trades, whatever the
\* journal, the page size, and the number of loads and of changes.
THEOREM DrillTypeCorrect == DrillSpec => []DrillTypeOK
<1>1. DrawerInvariant => DrillTypeOK
  BY DEF DrawerInvariant
<1> QED
  BY <1>1, DrawerInvariantHolds, PTL

\* The drawer never lists a trade twice, whatever shifts between two pages; and while the
\* journal stands still it lists the latest matches of the filter on the screen, in order,
\* with nothing skipped.
THEOREM DrawerAlwaysListsMatches == DrillSpec => []DrawerListsMatches
  BY DrawerLists, DrawerInvariantHolds, PTL
================================================================================
