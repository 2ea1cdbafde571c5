------------------------------ MODULE ViewLoads ------------------------------
(***************************************************************************)
(* How the pages and panels of the terminal load what they show.  A view   *)
(* follows a selection (the active account, the opened trade, day, cell or *)
(* finding): each change of the selection, of a filter, or a Retry starts  *)
(* a load, and the answers of several loads arrive in any order.  The      *)
(* views share one shape and differ in four decisions, which their         *)
(* definitions below record; a view shows in `shown` whose data it holds.  *)
(* What the data say is left out.  The selection of EdgeCell and           *)
(* DayInvestigation is the cell or the day: another account chosen while   *)
(* one is open is no step of this module.                                  *)
(***************************************************************************)
EXTENDS Naturals

CONSTANTS Subjects,   \* accounts, trades, days... a view can be about
          NoSubject,  \* nothing selected, nothing shown
          MaxLoads    \* bound: loads a view starts

ASSUME LoadsAssumption == MaxLoads \in Nat

VARIABLES view,       \* the view on the screen
          selected,   \* what is selected now
          shown,      \* whose data each part of the view holds
          waiting,    \* the requests in flight
          loads,      \* number of loads started
          failed,     \* a request of the last load failed
          overtaken   \* an answer came after that of a later load

viewVars == <<view, selected, shown, waiting, loads, failed, overtaken>>

\* guarded: an answer of an earlier load is dropped.  asks: a new selection starts a load;
\* otherwise the user does, with a button.  parts: requests a load makes, one
\* after the other.  clears: the parts a load empties first.  drops: the parts it empties
\* when its request number p fails.
Discipline == [guarded : BOOLEAN, asks : BOOLEAN, parts : 1 .. 2,
               clears : SUBSET (1 .. 2), drops : [1 .. 2 -> SUBSET (1 .. 2)]]
Keeps == [p \in 1 .. 2 |-> {}]
Empties == [p \in 1 .. 2 |-> {p}]

-----------------------------------------------------------------------------
(* The pages and panels                                                    *)

DashboardPage == [guarded |-> TRUE, asks |-> TRUE, parts |-> 2,
    clears |-> {}, drops |-> Empties]
JournalPage == [guarded |-> TRUE, asks |-> TRUE, parts |-> 1,
    clears |-> {1}, drops |-> Empties]
AnalyticsPage == [guarded |-> TRUE, asks |-> TRUE, parts |-> 1,
    clears |-> {}, drops |-> Empties]
IntelligencePage == [guarded |-> TRUE, asks |-> TRUE, parts |-> 2, clears |-> {2},
                     drops |-> [p \in 1 .. 2 |-> IF p = 1 THEN {1, 2} ELSE {}]]
QuantLabPage == [guarded |-> FALSE, asks |-> TRUE, parts |-> 1,
    clears |-> {}, drops |-> Keeps]
RiskPage == [guarded |-> FALSE, asks |-> TRUE, parts |-> 1, clears |-> {}, drops |-> Keeps]
LimitsPage == [guarded |-> FALSE, asks |-> TRUE, parts |-> 1,
    clears |-> {}, drops |-> Empties]
IntelligenceWidget == [guarded |-> FALSE, asks |-> TRUE, parts |-> 1,
    clears |-> {}, drops |-> Keeps]
PeriodReview == [guarded |-> TRUE, asks |-> TRUE, parts |-> 1,
    clears |-> {}, drops |-> Empties]
TradeStories == [guarded |-> TRUE, asks |-> TRUE, parts |-> 1,
    clears |-> {}, drops |-> Empties]
CommandPalette == [guarded |-> FALSE, asks |-> TRUE, parts |-> 1,
    clears |-> {}, drops |-> Empties]
TradeStoryCard == [guarded |-> TRUE, asks |-> TRUE, parts |-> 1,
    clears |-> {}, drops |-> Empties]
CommandCenterReplay == [guarded |-> TRUE, asks |-> TRUE, parts |-> 1,
    clears |-> {}, drops |-> Empties]
EdgeCell == [guarded |-> FALSE, asks |-> TRUE, parts |-> 1,
    clears |-> {}, drops |-> Empties]
FindingExplanation == [guarded |-> FALSE, asks |-> FALSE, parts |-> 1,
    clears |-> {1}, drops |-> Keeps]
IntelligenceRunner == [guarded |-> FALSE, asks |-> FALSE, parts |-> 1,
    clears |-> {}, drops |-> Keeps]
ComparisonLab == [guarded |-> FALSE, asks |-> FALSE, parts |-> 1,
    clears |-> {}, drops |-> Empties]
SimulationLab == [guarded |-> FALSE, asks |-> FALSE, parts |-> 1,
    clears |-> {}, drops |-> Keeps]
CompareResearch == [guarded |-> FALSE, asks |-> FALSE, parts |-> 1,
    clears |-> {}, drops |-> Keeps]
DayInvestigation == [guarded |-> TRUE, asks |-> TRUE, parts |-> 1,
    clears |-> {}, drops |-> Keeps]

TradeDetailPage == [guarded |-> TRUE, asks |-> TRUE, parts |-> 1,
    clears |-> {}, drops |-> Keeps]
TradeImage == [guarded |-> TRUE, asks |-> TRUE, parts |-> 1,
    clears |-> {1}, drops |-> Keeps]
TradePreview == [guarded |-> FALSE, asks |-> TRUE, parts |-> 1,
    clears |-> {}, drops |-> Empties]
SetupChecklist == [guarded |-> FALSE, asks |-> TRUE, parts |-> 1,
    clears |-> {}, drops |-> Keeps]
CalculatorContext == [guarded |-> FALSE, asks |-> TRUE, parts |-> 1,
    clears |-> {}, drops |-> Empties]
CalculatorResult == [guarded |-> FALSE, asks |-> FALSE, parts |-> 1,
    clears |-> {}, drops |-> Empties]

Views == {DashboardPage, JournalPage, AnalyticsPage, IntelligencePage, QuantLabPage,
          RiskPage, LimitsPage, IntelligenceWidget, PeriodReview, TradeStories,
          CommandPalette, TradeStoryCard, CommandCenterReplay, EdgeCell, FindingExplanation,
          IntelligenceRunner, ComparisonLab, SimulationLab, CompareResearch, DayInvestigation,
          TradeDetailPage, TradeImage, TradePreview, SetupChecklist, CalculatorContext,
          CalculatorResult}

Request == [about : Subjects, load : 1 .. MaxLoads, part : 1 .. 2]

ViewTypeOK ==
    /\ view \in Discipline
    /\ selected \in Subjects
    /\ shown \in [1 .. 2 -> Subjects \cup {NoSubject}]
    /\ waiting \subseteq Request
    /\ loads \in 0 .. MaxLoads
    /\ failed \in BOOLEAN /\ overtaken \in BOOLEAN

ViewInit ==
    /\ view \in Views
    /\ selected \in Subjects
    /\ shown = [p \in 1 .. 2 |-> NoSubject]
    /\ waiting = {} /\ loads = 0
    /\ failed = FALSE /\ overtaken = FALSE

-----------------------------------------------------------------------------
(* Loads                                                                   *)

Emptied(f, parts) == [p \in 1 .. 2 |-> IF p \in parts THEN NoSubject ELSE f[p]]

\* The view asks for the data of s, the selection of this moment.
Load(s) ==
    /\ loads < MaxLoads
    /\ loads' = loads + 1
    /\ waiting' = waiting \cup {[about |-> s, load |-> loads + 1, part |-> 1]}
    /\ shown' = Emptied(shown, view.clears)
    /\ failed' = FALSE

\* The user selects another subject and the view follows; or mounts the view, presses
\* Retry, changes a filter.
Select(s) ==
    /\ s # selected
    /\ selected' = s
    /\ IF view.asks THEN Load(s)
       ELSE shown' = Emptied(shown, view.clears) /\ UNCHANGED <<waiting, loads, failed>>
    /\ UNCHANGED <<view, overtaken>>
LoadAgain == Load(selected) /\ UNCHANGED <<view, selected, overtaken>>

\* Mutant: no view looks.
CountsAlways(r) == r.load <= loads

\* The answer still counts: the view asks no further, or does not look.
Counts(r) == view.guarded => r.load = loads
Late(r) == r.load < loads \/ r.about # selected

\* The data arrive.  A view of two parts asks for the second, with the subject it asked
\* for the first.
Arrive(r) ==
    /\ r \in waiting
    /\ waiting' = (waiting \ {r}) \cup
         (IF Counts(r) /\ r.part < view.parts THEN {[r EXCEPT !.part = 2]} ELSE {})
    /\ shown' = IF Counts(r) THEN [shown EXCEPT ![r.part] = r.about] ELSE shown
    /\ overtaken' = (overtaken \/ Late(r))
    /\ UNCHANGED <<view, selected, loads, failed>>

\* The request fails; its load ends with it.
FailLoad(r) ==
    /\ r \in waiting
    /\ waiting' = waiting \ {r}
    /\ shown' = IF Counts(r) THEN Emptied(shown, view.drops[r.part]) ELSE shown
    /\ failed' = (failed \/ Counts(r))
    /\ UNCHANGED <<view, selected, loads, overtaken>>

ViewNext ==
    \/ \E s \in Subjects : Select(s)
    \/ LoadAgain
    \/ \E r \in waiting : Arrive(r) \/ FailLoad(r)

ViewSpec == ViewInit /\ [][ViewNext]_viewVars

-----------------------------------------------------------------------------
(* Properties                                                              *)

Settled == waiting = {}

\* Once nothing is in flight and nothing failed, every part of the view is about the
\* selection: always, in a view that drops the answers of earlier loads, whatever their
\* order; and in the others unless a late answer arrived.  What a button asked for
\* stays on the screen when the selection changes, unless the view clears it.
SettledViewIsAboutSelection ==
    Settled /\ ~failed /\ (view.asks \/ view.clears # {}) /\ (view.guarded \/ ~overtaken) =>
        \A p \in 1 .. 2 : shown[p] \in {selected, NoSubject}
==============================================================================
