------------------------------ MODULE Findings ------------------------------
(***************************************************************************)
(* The findings of the Intelligence page (lib/intelligence).  Four sources  *)
(* report observations about the trader's book: the page's own detectors,   *)
(* the investigation queue of the dashboard, the lab's insights and the     *)
(* feed.  The engine keeps one observation per theme, scores the survivors, *)
(* sorts them, picks a primary one and shows a short list of signals.       *)
(*                                                                         *)
(* An observation is a line of the Catalogue and the number n of trades it  *)
(* rests on; the texts and figures are left out.  The dashboard is there    *)
(* first (without it, or without trades, the page is empty); the lab and    *)
(* the feed are loaded on their own and their observations are added as     *)
(* they come.                                                              *)
(***************************************************************************)
EXTENDS Integers, FiniteSets, FiniteSetsExt, SequencesExt, Ranking

CONSTANTS
    Samples,         \* the numbers of trades an observation may rest on
    MaxRaw,          \* bound: how many observations are reported at once
    AttentionLimit,  \* ATTENTION_LIMIT (5 in the code)
    SignalLimit      \* the length of the list of signals (5 in the code)

ASSUME FindingsAssumption ==
    /\ Samples \subseteq Nat
    /\ {MaxRaw, AttentionLimit, SignalLimit} \subseteq (Nat \ {0})

VARIABLES
    tradeCount,  \* closed trades in the dashboard's filter
    raw          \* the observations reported so far

findingVars == <<tradeCount, raw>>

MinGroup  == 5   \* MIN_GROUP_TRADES
MinMature == 20  \* ANALYTICS_MIN_SAMPLE
MinInsight == 10 \* MIN_INSIGHT_N of the feed

(***************************************************************************)
(* What the sources may report, in the order the engine concatenates them.  *)
(* theme is the key dedupeFindings groups by, base the priority the source  *)
(* gives, least the smallest sample it reports; with whole the sample is    *)
(* every trade of the dashboard.  Lines of one id exclude each other.       *)
(***************************************************************************)
Line(source, id, theme, type, severity, base, least, whole) ==
    [source |-> source, id |-> id, theme |-> theme, type |-> type,
     severity |-> severity, base |-> base, least |-> least, whole |-> whole]

DetectorLines == <<
  Line("detector", "session-edge", "session", "OPPORTUNITY", "IMPORTANT", 78, 2 * MinGroup, FALSE),
  Line("detector", "session-edge", "session", "OPPORTUNITY", "INFO", 78, 2 * MinGroup, FALSE),
  Line("detector", "session-edge", "session", "EDGE", "IMPORTANT", 78, 2 * MinGroup, FALSE),
  Line("detector", "risk-after-loss", "risk-after-loss", "BEHAVIOUR", "IMPORTANT", 82, MinGroup, FALSE),
  Line("detector", "risk-after-loss", "risk-after-loss", "BEHAVIOUR", "WATCH", 82, MinGroup, FALSE),
  Line("detector", "period-expectancy", "expectancy", "PERFORMANCE", "INFO", 35, MinGroup, TRUE),
  Line("detector", "period-expectancy", "expectancy", "PERFORMANCE", "WATCH", 35, MinGroup, TRUE) >>

\* buildInvestigationQueue, already sorted by its priority.
InvestigationLines == <<
  Line("investigation", "sample_size", "sample", "PERFORMANCE", "INFO", 90, 1, TRUE),
  Line("investigation", "drawdown", "drawdown", "RISK", "IMPORTANT", 75, 1, TRUE),
  Line("investigation", "session_gap", "session", "EDGE", "IMPORTANT", 70, 2 * MinGroup, FALSE),
  Line("investigation", "overtrading", "overtrading", "BEHAVIOUR", "IMPORTANT", 65, 1, TRUE),
  Line("investigation", "fragile_pf", "fragile_pf", "WARNING", "IMPORTANT", 60, 1, TRUE),
  Line("investigation", "cost_drag", "cost", "WARNING", "IMPORTANT", 55, 1, FALSE),
  Line("investigation", "exit_efficiency", "exit", "EXECUTION", "IMPORTANT", 50, 10, FALSE),
  Line("investigation", "rolling_decline", "rolling", "WARNING", "IMPORTANT", 45, 10, TRUE),
  Line("investigation", "strongest_instrument", "instrument", "OPPORTUNITY", "INFO", 40, MinGroup, FALSE),
  Line("investigation", "weak_setup", "weak_setup", "EDGE", "INFO", 35, MinGroup, FALSE) >>

\* generate_insights of the lab, sorted by priority.
LabLines == <<
  Line("lab", "risk_after_loss_increase", "risk-after-loss", "BEHAVIOUR", "IMPORTANT", 80, 5, FALSE),
  Line("lab", "top_playbook_edge", "top_playbook", "EDGE", "INFO", 75, 5, FALSE),
  Line("lab", "discipline_association", "discipline", "BEHAVIOUR", "WATCH", 70, 10, FALSE),
  Line("lab", "weak_playbook", "weak_playbook", "EDGE", "IMPORTANT", 65, 5, FALSE),
  Line("lab", "weakness_combo", "combo", "PERFORMANCE", "WATCH", 60, 5, FALSE),
  Line("lab", "lucky_wins", "lucky_wins", "BEHAVIOUR", "INFO", 55, 3, FALSE),
  Line("lab", "process_improving", "process", "CONSISTENCY", "INFO", 50, 1, FALSE) >>

\* build_intelligence_feed: today's cards, then the insights by priority.
FeedLines == <<
  Line("feed", "today-pnl", "today-pnl", "PERFORMANCE", "INFO", 85, 1, FALSE),
  Line("feed", "today-pnl", "today-pnl", "PERFORMANCE", "IMPORTANT", 85, 1, FALSE),
  Line("feed", "today-activity", "today-activity", "PERFORMANCE", "INFO", 70, 1, FALSE),
  Line("feed", "today-discipline", "today-discipline", "PERFORMANCE", "INFO", 60, 1, FALSE),
  Line("feed", "risk-status", "risk-halt", "RISK", "CRITICAL", 100, 0, FALSE),
  Line("feed", "risk-status", "risk-caution", "RISK", "IMPORTANT", 95, 0, FALSE),
  Line("feed", "risk-escalation", "risk-after-loss", "RISK", "IMPORTANT", 92, 0, FALSE),
  Line("feed", "frequency-cap", "overtrading", "RISK", "IMPORTANT", 90, 1, FALSE),
  Line("feed", "loss-streak", "loss-streak", "BEHAVIOUR", "IMPORTANT", 88, 3, FALSE),
  Line("feed", "edge-session", "session", "EDGE", "INFO", 80, MinInsight, FALSE),
  Line("feed", "session-compare", "session", "EDGE", "INFO", 75, MinInsight, FALSE),
  Line("feed", "edge-setup", "edge-setup", "EDGE", "INFO", 72, MinInsight, FALSE),
  Line("feed", "psych", "psych", "BEHAVIOUR", "IMPORTANT", 70, MinInsight, FALSE),
  Line("feed", "after-losses", "risk-after-loss", "BEHAVIOUR", "IMPORTANT", 68, MinInsight, FALSE),
  Line("feed", "emotional-trades", "emotional", "BEHAVIOUR", "IMPORTANT", 62, 3, FALSE),
  Line("feed", "discipline-avg", "discipline-avg", "BEHAVIOUR", "INFO", 55, 1, FALSE) >>

Catalogue == DetectorLines \o InvestigationLines \o LabLines \o FeedLines

\* An observation: a place in the Catalogue, the sample it rests on, and
\* the sample m its source judged its confidence by.
Observation == [place: DOMAIN Catalogue, n: Samples, m: Samples]
Of(f) == Catalogue[f.place]

(***************************************************************************)
(* Evidence (evidence.ts, analytics/confidence.ts): how strong n trades     *)
(* are.  The lab sends the level of its own, possibly smaller, sample m.    *)
(***************************************************************************)
Classify(n) ==
    CASE n < MinGroup  -> "insufficient"
      [] n \in MinGroup .. (MinMature - 1) -> "early"
      [] n \in MinMature .. 49 -> "moderate"
      [] OTHER -> "strong"

LabLevel(f) ==
    CASE Of(f).id = "process_improving" -> "moderate"
      [] f.m <= 4  -> "insufficient"
      [] f.m \in 5 .. 19  -> "low"
      [] f.m \in 20 .. 49 -> "moderate"
      [] OTHER -> "high"

\* Mutant: any level above the lowest is taken for moderate evidence.
StrengthFromAnyLevel(f) ==
    IF LabLevel(f) = "insufficient" THEN "insufficient"
    ELSE IF LabLevel(f) = "high" THEN "strong" ELSE "moderate"

StrengthFromLab(f) ==
    CASE LabLevel(f) \in {"insufficient", "low"} -> Classify(f.n)
      [] LabLevel(f) = "high" -> IF f.n >= 50 THEN "strong" ELSE "moderate"
      [] OTHER -> "moderate"

Strength(f) == IF Of(f).source = "lab" THEN StrengthFromLab(f) ELSE Classify(f.n)

Label(f) ==
    CASE Strength(f) = "insufficient" -> "Insufficient evidence"
      [] Strength(f) = "early" -> IF f.n >= 10 THEN "Emerging pattern" ELSE "Early signal"
      [] Strength(f) = "moderate" -> IF f.n >= MinMature THEN "Supported" ELSE "Emerging pattern"
      [] OTHER -> "Strong evidence"

(***************************************************************************)
(* One observation per theme (dedupeFindings): the higher priority of the   *)
(* source, then the larger sample, then the richer source.                  *)
(***************************************************************************)
SourceRank(s) ==
    CASE s = "detector" -> 4 [] s = "investigation" -> 3 [] s = "lab" -> 2 [] OTHER -> 1

Preferred(f, g) ==
    \/ Of(f).base > Of(g).base
    \/ Of(f).base = Of(g).base /\ f.n > g.n
    \/ Of(f).base = Of(g).base /\ f.n = g.n /\ SourceRank(Of(f).source) > SourceRank(Of(g).source)

Rivals(f, found) == {g \in found : Of(g).theme = Of(f).theme}

Deduped(found) ==
    {f \in found : \A g \in Rivals(f, found) \ {f} :
        Preferred(f, g) \/ (~Preferred(g, f) /\ f.place < g.place)}

\* The Map of dedupeFindings keeps a theme where its first observation stood.
Position(f, found) == Min({g.place : g \in Rivals(f, found)})

(***************************************************************************)
(* The score and the order (scoreFinding, prioritizeFindings).             *)
(***************************************************************************)
SeverityBoost(s) ==
    CASE s = "CRITICAL" -> 40 [] s = "IMPORTANT" -> 25 [] s = "WATCH" -> 12 [] OTHER -> 0
SeverityOrder(s) ==
    CASE s = "CRITICAL" -> 4 [] s = "IMPORTANT" -> 3 [] s = "WATCH" -> 2 [] OTHER -> 1
SampleBoost(s) ==
    CASE s = "strong" -> 18 [] s = "moderate" -> 10 [] s = "early" -> -8 [] OTHER -> -35

Warns(f) == Of(f).severity \in {"IMPORTANT", "CRITICAL"} \/ Of(f).type = "WARNING"
Soft(f)  == Of(f).type = "OPPORTUNITY" \/ Of(f).severity = "INFO"

Score(f, found) ==
    Of(f).base + SeverityBoost(Of(f).severity) + SampleBoost(Strength(f))
      - (IF Soft(f) /\ \E g \in found : Warns(g) THEN 6 ELSE 0)

\* f stands before g in the list sorted from kept (the sort is stable).
Before(f, g, kept, found) ==
    LET level(x) == SeverityOrder(Of(x).severity)
    IN  \/ Score(f, kept) > Score(g, kept)
        \/ /\ Score(f, kept) = Score(g, kept)
           /\ \/ level(f) > level(g)
              \/ level(f) = level(g) /\ f.n > g.n
              \/ level(f) = level(g) /\ f.n = g.n /\ Position(f, found) < Position(g, found)

(***************************************************************************)
(* What the page shows (buildIntelligenceFindings, buildSignalList).        *)
(***************************************************************************)
IsMeta(f) == Of(f).theme = "sample"

\* Everything but today's plain cards may be the primary finding.
PrimaryCandidate(f) ==
    /\ ~IsMeta(f)
    /\ Of(f).id \notin {"today-pnl", "today-activity", "today-discipline"}
    /\ \/ Of(f).severity # "INFO"
       \/ Of(f).type \notin {"PERFORMANCE", "CONSISTENCY"}
       \/ Of(f).source # "feed"

Usable(found) ==
    LET kept == Deduped(found)
        substantive == {f \in kept : ~IsMeta(f)}
        used == IF substantive = {} THEN kept ELSE substantive
    IN  Ranked(used, {p \in used \X used : Before(p[1], p[2], kept, found)})

\* The place of the first candidate, or the first place.
PrimaryPlace(usable) ==
    LET candidates == {i \in DOMAIN usable : PrimaryCandidate(usable[i])}
    IN  IF candidates = {} THEN 1 ELSE Min(candidates)

Primary(usable) == usable[PrimaryPlace(usable)]

FirstOf(s, k) == SubSeq(s, 1, Min({k, Len(s)}))

Attention(usable) == FirstOf(RemoveAt(usable, PrimaryPlace(usable)), AttentionLimit)

SignalList(usable) ==
    IF usable = <<>> THEN <<>>
    ELSE FirstOf(<<Primary(usable)>> \o Attention(usable), SignalLimit)

\* signalStatusFromFinding; only these two detectors send a toned figure.
PositiveTone(f) ==
    Of(f).source = "detector" /\
        \/ Of(f).type = "OPPORTUNITY"
        \/ Of(f).theme = "expectancy" /\ Of(f).severity = "INFO"
SignalStatus(f) ==
    CASE Of(f).severity = "CRITICAL" \/ Of(f).type \in {"RISK", "WARNING"} -> "risk"
      [] Of(f).severity \in {"IMPORTANT", "WATCH"} /\ Of(f).type \notin {"RISK", "WARNING"} -> "watch"
      [] Of(f).severity = "INFO" /\ (PositiveTone(f) \/ Of(f).type \in {"OPPORTUNITY", "EDGE"}) ->
           IF Strength(f) \in {"insufficient", "early"} THEN "observe" ELSE "positive"
      [] OTHER -> IF f.n < 5 THEN "observe" ELSE "info"

(***************************************************************************)
(* The sources report.                                                      *)
(***************************************************************************)
\* What the code of a source lets it say about a dashboard of tradeCount trades.
Reportable(f) ==
    /\ f.n >= Of(f).least
    /\ Of(f).whole => f.n = tradeCount
    /\ Of(f).id = "sample_size" => tradeCount < 5
    /\ Of(f).source \in {"detector", "investigation", "lab"} => f.n <= tradeCount
    /\ CASE Of(f).id = "discipline_association" -> f.m >= 5 /\ 2 * f.m <= f.n
         [] Of(f).id = "lucky_wins" -> f.m >= 3 /\ f.m <= f.n
         [] OTHER -> f.m = f.n

\* f is never reported without g: the session detector and the queue look at
\* the same two sessions, the loss detector takes its sample from the lab's
\* insight, the feed compares sessions only after naming the best one, and
\* today's result follows the count of today's trades.
ComesWith(f, g) ==
    /\ f.n = f.m /\ g.n = f.n
    /\ <<Of(f).id, Of(g).id>> \in
         { <<"session-edge", "session_gap">>, <<"session_gap", "session-edge">>,
           <<"risk-after-loss", "risk_after_loss_increase">>,
           <<"risk_after_loss_increase", "risk-after-loss">>,
           <<"session-compare", "edge-session">>,
           <<"today-pnl", "today-activity">>, <<"today-discipline", "today-activity">> }
    \* The queue speaks of sessions only when the worse one loses.
    /\ {Of(f).id, Of(g).id} = {"session-edge", "session_gap"} =>
          {Of(f).severity, Of(g).severity} = {"IMPORTANT"}

\* f and g cannot both be true of one account: two forms of one statement,
\* two counts of the same trades, or opposite signs of the expectancy.
AtOdds(f, g) ==
    \/ Of(f).id = Of(g).id
    \/ {Of(f).id, Of(g).id} = {"risk-status", "risk-escalation"} /\ f.n # g.n
    \/ /\ {Of(f).id, Of(g).id} = {"overtrading", "period-expectancy"}
       /\ "INFO" \in {Of(f).severity, Of(g).severity}

\* The statements that are never made alone.
Needed(f) ==
    \/ Of(f).id \in {"session_gap", "risk-after-loss", "risk_after_loss_increase",
                     "session-compare", "today-pnl", "today-discipline"}
    \/ Of(f).id = "session-edge" /\ Of(f).severity = "IMPORTANT"

Companions ==
    {{fg[1], fg[2]} : fg \in {h \in Observation \X Observation : ComesWith(h[1], h[2])}}

\* The sources report the observations of news, which come together.
Report(news) ==
    /\ Cardinality(raw \cup news) <= MaxRaw
    /\ \A f \in news : Reportable(f) /\ f \notin raw
    /\ \A f \in news : \A g \in (raw \cup news) \ {f} : ~AtOdds(f, g)
    /\ \A f \in news :
         Needed(f) => \E g \in raw \cup news : ComesWith(f, g)
    /\ raw' = raw \cup news
    /\ UNCHANGED tradeCount

\* A dashboard with trades; of fewer than five it says so itself.
FindingsInit ==
    /\ tradeCount \in Samples \ {0}
    /\ raw = {f \in Observation : Of(f).id = "sample_size" /\ Reportable(f)}
FindingsNext ==
    /\ Cardinality(raw) < MaxRaw
    /\ \/ \E f \in Observation : Report({f})
       \/ \E news \in Companions : Report(news)
FindingsSpec == FindingsInit /\ [][FindingsNext]_findingVars

FindingsTypeOK == tradeCount \in Samples /\ raw \subseteq Observation

-----------------------------------------------------------------------------
(***************************************************************************)
(* Properties.                                                              *)
(***************************************************************************)

\* The list of signals is honest: it has one entry per theme; an entry
\* called positive, supported or strongly evidenced rests on at least twenty
\* trades; and no finding kept off the list outscores one of the list's
\* entries after the primary one (buildIntelligenceFindings slices after it
\* sorts, and the confidence wording is the trader's only hint at the
\* sample).
SignalsAreHonest ==
    LET usable == Usable(raw)
        shown  == SignalList(usable)
    IN  /\ \A i, j \in DOMAIN shown : i # j => Of(shown[i]).theme # Of(shown[j]).theme
        /\ \A f \in ToSet(shown) :
              SignalStatus(f) = "positive" \/ Label(f) \in {"Supported", "Strong evidence"}
              => f.n >= MinMature
        /\ \A f \in ToSet(usable) \ ToSet(shown), i \in DOMAIN shown :
              i > 1 => Score(shown[i], Deduped(raw)) >= Score(f, Deduped(raw))
=============================================================================
