------------------------------- MODULE MarketLab -------------------------------
(***************************************************************************)
(* The chart of the market lab: the page is opened and left, and the chart *)
(* mounted anew by a change of its settings, while the chart library is    *)
(* still being imported and started; and the lines of the selected trade   *)
(* are drawn on it and replaced.  Vela itself is external: it starts or    *)
(* fails, and keeps a chart until it is destroyed.  Bars, indicators,      *)
(* theme, polling and the market shown are left out.                       *)
(***************************************************************************)
EXTENDS Naturals

CONSTANTS LabTrades,    \* trades whose levels can be laid over the chart
          NoTrade,
          MaxMounts,    \* bound: mounts of the chart
          MaxReplays    \* bound: replay requests

ASSUME LabAssumption == NoTrade \notin LabTrades /\ MaxMounts \in Nat /\ MaxReplays \in Nat

VARIABLES mounts,       \* mounts of the chart's component so far, over all visits of the page
          onPage,       \* the page is open
          visit,        \* the mount the last visit of the page began with
          boots,        \* the boot of each mount, up to the await it waits at
          cancelled,    \* mounts whose cleanup has run
          alive,        \* mounts whose Vela chart exists and is not destroyed
          chartRef,     \* mounts whose component holds its chart
          ready,        \* the component of the last mount takes its chart for ready
          tradeId,      \* the trade selected
          replays,      \* replays of trades asked for, with the visit that asks
          asked,        \* number of replays asked for
          overlay,      \* the trade whose levels the page has
          lines         \* for each chart, how many sets of lines of each trade it has

labVars == <<mounts, onPage, visit, boots, cancelled, alive, chartRef, ready, tradeId, replays,
             asked, overlay, lines>>

Mounts == 1 .. MaxMounts
NoLines == [t \in LabTrades |-> 0]

LabTypeOK ==
    /\ mounts \in 0 .. MaxMounts /\ visit \in 0 .. MaxMounts /\ onPage \in BOOLEAN
    /\ boots \in [Mounts -> {"not begun", "importing", "starting", "ended"}]
    /\ cancelled \subseteq Mounts /\ alive \subseteq Mounts /\ chartRef \subseteq Mounts
    /\ ready \in BOOLEAN
    /\ tradeId \in LabTrades \cup {NoTrade} /\ overlay \in LabTrades \cup {NoTrade}
    /\ replays \subseteq [trade : LabTrades, visit : Mounts]
    /\ asked \in 0 .. MaxReplays
    /\ lines \in [Mounts -> [LabTrades -> Nat]]

LabInit ==
    /\ mounts = 0 /\ visit = 0 /\ onPage = FALSE
    /\ boots = [v \in Mounts |-> "not begun"]
    /\ cancelled = {} /\ alive = {} /\ chartRef = {} /\ ready = FALSE
    /\ tradeId = NoTrade /\ overlay = NoTrade /\ replays = {} /\ asked = 0
    /\ lines = [v \in Mounts |-> NoLines]

-----------------------------------------------------------------------------
(* The lines                                                               *)

\* clearTradeOverlay and applyTradeOverlay: the component removes the lines it remembers,
\* of the overlay it had, and draws those of the new one.
Redraw(chart, old, new) ==
    [t \in LabTrades |-> (chart[t] - (IF t = old THEN 1 ELSE 0)) + (IF t = new THEN 1 ELSE 0)]

\* The effect on [tradeOverlay, ready].
SetOverlay(t) ==
    /\ overlay' = t
    /\ lines' = IF ready /\ mounts \in chartRef
                THEN [lines EXCEPT ![mounts] = Redraw(@, overlay, t)] ELSE lines

-----------------------------------------------------------------------------
(* Mounts                                                                  *)

\* A component is mounted, and its effect begins to import the library.
Mount ==
    /\ mounts < MaxMounts /\ mounts' = mounts + 1
    /\ boots' = [boots EXCEPT ![mounts'] = "importing"]
    /\ ready' = FALSE

\* The cleanup of the effect of the last mount.
Cleanup ==
    /\ cancelled' = cancelled \cup {mounts}
    /\ chartRef' = chartRef \ {mounts}
    /\ alive' = IF mounts \in chartRef THEN alive \ {mounts} ELSE alive

Enter ==
    /\ ~onPage /\ onPage' = TRUE
    /\ Mount /\ visit' = mounts'
    /\ tradeId' \in LabTrades \cup {NoTrade}       \* the trade of the link, if any
    /\ overlay' = NoTrade
    /\ UNCHANGED <<cancelled, alive, chartRef, replays, asked, lines>>

\* The user turns an indicator on or off or picks another data path: the chart has another
\* key, and is mounted anew with the overlay of the page.
ChangeSettings ==
    /\ onPage
    /\ Cleanup /\ Mount
    /\ UNCHANGED <<onPage, visit, tradeId, replays, asked, overlay, lines>>

Leave ==
    /\ onPage /\ onPage' = FALSE
    /\ Cleanup /\ ready' = FALSE
    /\ UNCHANGED <<mounts, visit, boots, tradeId, replays, asked, overlay, lines>>

\* Mutant: the chart is made whether its component is still mounted or not.
ImportedAnyway(v) ==
    /\ boots[v] = "importing"
    /\ boots' = [boots EXCEPT ![v] = "starting"]
    /\ alive' = alive \cup {v} /\ chartRef' = chartRef \cup {v}
    /\ UNCHANGED <<mounts, onPage, visit, cancelled, ready, tradeId, replays, asked,
                   overlay, lines>>

\* The import has ended: unless the component is gone meanwhile, the chart is made.
Imported(v) ==
    /\ boots[v] = "importing"
    /\ IF v \in cancelled
       THEN boots' = [boots EXCEPT ![v] = "ended"] /\ UNCHANGED <<alive, chartRef>>
       ELSE /\ boots' = [boots EXCEPT ![v] = "starting"]
            /\ alive' = alive \cup {v} /\ chartRef' = chartRef \cup {v}
    /\ UNCHANGED <<mounts, onPage, visit, cancelled, ready, tradeId, replays, asked,
                   overlay, lines>>

\* registerProvider and ready() have ended; a chart whose component is gone is destroyed.
Started(v) ==
    /\ boots[v] = "starting"
    /\ boots' = [boots EXCEPT ![v] = "ended"]
    /\ IF v \in cancelled
       THEN alive' = alive \ {v} /\ UNCHANGED <<ready, lines>>
       ELSE /\ ready' = TRUE
            /\ lines' = IF overlay = NoTrade THEN lines
                        ELSE [lines EXCEPT ![v] = Redraw(@, NoTrade, overlay)]
            /\ UNCHANGED alive
    /\ UNCHANGED <<mounts, onPage, visit, cancelled, chartRef, tradeId, replays, asked, overlay>>

\* The import or the start fails: an error line, and the chart stays until the cleanup.
BootFails(v) ==
    /\ boots[v] \in {"importing", "starting"}
    /\ boots' = [boots EXCEPT ![v] = "ended"]
    /\ UNCHANGED <<mounts, onPage, visit, cancelled, alive, chartRef, ready, tradeId, replays,
                   asked, overlay, lines>>

-----------------------------------------------------------------------------
(* The overlay                                                             *)

\* applyTradeOverlay of the page, from the select or the link that opened the page.
SelectTrade(t) ==
    /\ onPage /\ asked < MaxReplays
    /\ tradeId' = t
    /\ IF t = NoTrade THEN SetOverlay(NoTrade) /\ UNCHANGED <<replays, asked>>
       ELSE /\ replays' = replays \cup {[trade |-> t, visit |-> visit]}
            /\ asked' = asked + 1
            /\ UNCHANGED <<overlay, lines>>
    /\ UNCHANGED <<mounts, onPage, visit, boots, cancelled, alive, chartRef, ready>>

\* The replay arrives, or fails and the levels of the trade on the page's list are taken;
\* of a page that was left nothing is kept.
SeeReplay(r) ==
    /\ r \in replays /\ replays' = replays \ {r}
    /\ IF onPage /\ r.visit = visit THEN SetOverlay(r.trade) ELSE UNCHANGED <<overlay, lines>>
    /\ UNCHANGED <<mounts, onPage, visit, boots, cancelled, alive, chartRef, ready, tradeId, asked>>

\* The same where the chart showed the library's own feed: the page returns to the account
\* feed with the trade's market, and the chart is mounted anew with its levels.
SeeReplayOnOtherFeed(r) ==
    /\ r \in replays /\ replays' = replays \ {r}
    /\ onPage /\ r.visit = visit
    /\ Cleanup /\ Mount
    /\ overlay' = r.trade
    /\ UNCHANGED <<onPage, visit, tradeId, asked, lines>>

\* The replay of a trade that is not on the list fails: the overlay stays what it was.
ReplayFails(r) ==
    /\ r \in replays /\ replays' = replays \ {r}
    /\ UNCHANGED <<mounts, onPage, visit, boots, cancelled, alive, chartRef, ready, tradeId, asked,
                   overlay, lines>>

LabNext ==
    \/ Enter \/ ChangeSettings \/ Leave
    \/ \E v \in Mounts : Imported(v) \/ Started(v) \/ BootFails(v)
    \/ \E t \in LabTrades \cup {NoTrade} : SelectTrade(t)
    \/ \E r \in replays : SeeReplay(r) \/ SeeReplayOnOtherFeed(r) \/ ReplayFails(r)

LabSpec == LabInit /\ [][LabNext]_labVars

-----------------------------------------------------------------------------
(* Properties                                                              *)

\* Only the chart mounted last lives, and only while its page is open, however often the
\* page is left and opened and the chart mounted anew while charts are starting; and a
\* ready chart bears the lines of the trade laid over it, once, and no others.
OneChartWithItsOverlay ==
    /\ alive \subseteq (IF onPage THEN {mounts} ELSE {})
    /\ ready => /\ alive = {mounts}
                /\ lines[mounts] = [t \in LabTrades |-> IF t = overlay THEN 1 ELSE 0]
==============================================================================
