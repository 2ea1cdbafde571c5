------------------------------- MODULE Drilldown -------------------------------
(***************************************************************************)
(* The drill-down of the analytics pages: the filter that charts, chips    *)
(* and the filter bar narrow, and the drawer that lists the trades it      *)
(* selects, page by page, from a journal that may change between two       *)
(* pages.  A trade is its rank in the order of entry, and has two times,   *)
(* the day of its entry and the day of its exit: a window of dates selects *)
(* a trade by either.  Session, setup, direction, timeframe, psychology,   *)
(* result and hour are filtered, shown and cleared like `symbol`; the      *)
(* account is one more filter, set by the shell.                           *)
(***************************************************************************)
EXTENDS Naturals, FiniteSets, SequencesExt, Ranking

CONSTANTS LastTrade,    \* trades are 1 .. LastTrade, the last entered last
          PageSize,     \* trades of a page: the drawer's limit of 100
          MaxVersions,  \* bound: loads the drawer starts
          MaxChanges    \* bound: changes of the journal

ASSUME DrillAssumption ==
    /\ LastTrade \in Nat /\ PageSize \in Nat \ {0}
    /\ MaxVersions \in Nat /\ MaxChanges \in Nat

VARIABLES closed,       \* the closed trades of the account
          filter,       \* the applied filter
          drawerOpen,
          version,      \* requestVersion
          listed,       \* the trades on the drawer's list
          total,        \* the number of matches, as the server last told
          loading,      \* the first page is awaited
          loadingMore,  \* a further page is awaited
          trouble,      \* the drawer shows an error
          requests,     \* requests of the drawer, with what the server answers
          changes,      \* changes of the journal so far
          readAt        \* `changes` when the first page was read

drillVars == <<closed, filter, drawerOpen, version, listed, total, loading, loadingMore, trouble,
               requests, changes, readAt>>

Trades == 1 .. LastTrade
EntryDay(t) == (t + 1) \div 2
\* Every other trade is held over two nights.
ExitDay(t) == IF t % 2 = 0 THEN EntryDay(t) ELSE EntryDay(t) + 2
TradeDays(t) == {EntryDay(t), ExitDay(t)}
Symbol(t) == IF t % 2 = 0 THEN "EURUSD" ELSE "XAUUSD"
Recent(day) == day > 1

\* FilterState.  Day 0 and "any" symbol: not set.
NoDay == 0
Days == {NoDay, 1, 2}
Filters == [preset : {"all", "30d", "custom"}, from : Days, to : Days, symbol : {"any", "EURUSD"}]
EmptyFilter == [preset |-> "all", from |-> NoDay, to |-> NoDay, symbol |-> "any"]
Keys == {"preset", "from", "to", "symbol"}

-----------------------------------------------------------------------------
(* The filter                                                              *)

\* buildAnalyticsQuery and resolve_date_window: dates count under the preset "custom" only,
\* where a missing one leaves its side open.
InWindow(f, day) ==
    /\ f.preset = "30d" => Recent(day)
    /\ (f.preset = "custom" /\ f.from # NoDay) => day >= f.from
    /\ (f.preset = "custom" /\ f.to # NoDay) => day <= f.to

\* _apply_filters with _activity_in_date_window: the entry or the exit lies in the window.
Selects(f, t) ==
    /\ \E day \in TradeDays(t) : InWindow(f, day)
    /\ f.symbol # "any" => Symbol(t) = f.symbol

\* Mutant: a date left in the filter is shown under every preset.
ChipsOfAllDates(f) ==
    {key \in Keys :
        \/ key = "preset" /\ f.preset # "all"
        \/ key = "symbol" /\ f.symbol # "any"
        \/ key \in {"from", "to"} /\ f[key] # NoDay}

\* describeFilterChips
Chips(f) ==
    {key \in Keys :
        \/ key = "preset" /\ f.preset # "all"
        \/ key = "symbol" /\ f.symbol # "any"
        \/ key \in {"from", "to"} /\ f.preset = "custom" /\ f[key] # NoDay}

\* What a chip says of a trade that was entered or left on `day`.
Says(f, key, t, day) ==
    CASE key = "preset" -> f.preset = "30d" => Recent(day)
      [] key = "from" -> day >= f.from
      [] key = "to" -> day <= f.to
      [] key = "symbol" -> Symbol(t) = f.symbol

\* clearFilterKey: the preset takes the dates along; the last date takes the preset along.
ClearFilterKey(f, key) ==
    CASE key = "preset" -> [f EXCEPT !.preset = "all", !.from = NoDay, !.to = NoDay]
      [] key = "symbol" -> [f EXCEPT !.symbol = "any"]
      [] key \in {"from", "to"} ->
            LET g == [f EXCEPT ![key] = NoDay]
            IN IF g.from = NoDay /\ g.to = NoDay THEN [g EXCEPT !.preset = "all"] ELSE g

\* clearDrilldownOnly
ClearDrilldownOnly(f) ==
    [EmptyFilter EXCEPT !.preset = IF f.preset = "custom" THEN "all" ELSE f.preset]

\* mergeFilterPatch with filterForDateRange, or filterForSingleDay when both days agree.
FilterForDateRange(f, from, to) == [f EXCEPT !.preset = "custom", !.from = from, !.to = to]

\* The shell's period replaces the preset and nothing else (filtersWithGlobalPeriod).
WithGlobalPeriod(f, preset) == [f EXCEPT !.preset = preset]

-----------------------------------------------------------------------------
(* The list                                                                *)

\* list_filtered_trades: the closed trades the filter selects, the last entered first.
Matches(f) ==
    LET selected == {t \in closed : Selects(f, t)}
    IN  Ranked(selected, {p \in selected \X selected : p[1] > p[2]})

\* The answer to a request for the page at `offset`.
Answer(f, offset) ==
    LET all == Matches(f)
        last == IF offset + PageSize < Len(all) THEN offset + PageSize ELSE Len(all)
    IN [rows |-> SubSeq(all, offset + 1, last), total |-> Len(all)]

DrillTypeOK ==
    /\ closed \subseteq Trades /\ filter \in Filters
    /\ drawerOpen \in BOOLEAN /\ loading \in BOOLEAN /\ loadingMore \in BOOLEAN
    /\ trouble \in BOOLEAN
    /\ version \in 0 .. MaxVersions /\ changes \in 0 .. MaxChanges /\ readAt \in 0 .. MaxChanges
    /\ listed \in Seq(Trades) /\ total \in 0 .. LastTrade
    /\ \A r \in requests : r.version <= version /\ r.rows \in Seq(Trades)

DrillInit ==
    /\ closed \in {Trades, Trades \ {LastTrade - 1}}
    /\ filter = EmptyFilter
    /\ drawerOpen = FALSE /\ version = 0
    /\ listed = <<>> /\ total = 0
    /\ loading = FALSE /\ loadingMore = FALSE /\ trouble = FALSE
    /\ requests = {} /\ changes = 0 /\ readAt = 0

\* The effect on [open, filters]: the list is emptied, earlier requests no longer count,
\* and an open drawer asks for its first page.  The server reads as the request reaches it.
Reload(open, f) ==
    /\ version < MaxVersions
    /\ version' = version + 1
    /\ drawerOpen' = open /\ filter' = f
    /\ listed' = <<>> /\ total' = 0
    /\ loading' = open /\ loadingMore' = FALSE /\ trouble' = FALSE
    /\ requests' = IF open
                   THEN requests \cup {[version |-> version', first |-> TRUE,
                                        rows |-> Answer(f, 0).rows, total |-> Answer(f, 0).total]}
                   ELSE requests
    /\ readAt' = changes
    /\ UNCHANGED <<closed, changes>>

OpenTrades == ~drawerOpen /\ Reload(TRUE, filter)
CloseDrill == drawerOpen /\ Reload(FALSE, filter)

\* The user clears a chip, resets the drill-down, clicks a day or a span of a chart, picks
\* another period in the shell, or applies the filter bar.
RemoveChip == \E key \in Chips(filter) : Reload(drawerOpen, ClearFilterKey(filter, key))
ResetDrilldown == Chips(filter) # {} /\ Reload(drawerOpen, ClearDrilldownOnly(filter))
ClickDays ==
    \E from, to \in Days \ {NoDay} : from <= to /\ Reload(drawerOpen, FilterForDateRange(filter, from, to))
PickPeriod == \E preset \in {"all", "30d"} : Reload(drawerOpen, WithGlobalPeriod(filter, preset))
ApplyFilters ==
    \E from, to \in Days, s \in {"any", "EURUSD"} :
        Reload(drawerOpen, [preset |-> "custom", from |-> from, to |-> to, symbol |-> s])

\* loadMore asks for the page after the list.
LoadMore ==
    /\ drawerOpen
    /\ ~loading /\ ~loadingMore /\ Len(listed) < total
    /\ loadingMore' = TRUE /\ trouble' = FALSE
    /\ requests' = requests \cup {[version |-> version, first |-> FALSE,
                                   rows |-> Answer(filter, Len(listed)).rows,
                                   total |-> Answer(filter, Len(listed)).total]}
    /\ UNCHANGED <<closed, filter, drawerOpen, version, listed, total, loading, changes, readAt>>

\* Mutant: the version of an answer is not looked at.
CurrentAlways(r) == r.version <= version

Current(r) == r.version = version

\* The rows that are not on the list yet, in their order.
Unlisted(rows) ==
    LET places == {i \in DOMAIN rows : rows[i] \notin ToSet(listed)}
        fresh  == Ranked(places, {p \in places \X places : p[1] < p[2]})
    IN  [i \in DOMAIN fresh |-> rows[fresh[i]]]

\* An answer of the drawer's current request: the first page replaces the list, a further
\* one is appended without the trades already listed.
ShowPage(r) ==
    /\ r \in requests
    /\ requests' = requests \ {r}
    /\ IF ~Current(r) THEN UNCHANGED <<listed, total, loading, loadingMore>>
       ELSE /\ listed' = IF r.first THEN r.rows
                         ELSE listed \o Unlisted(r.rows)
            /\ total' = r.total
            /\ loading' = (loading /\ ~r.first)
            /\ loadingMore' = (loadingMore /\ r.first)
    /\ UNCHANGED <<closed, filter, drawerOpen, version, trouble, changes, readAt>>

FailPage(r) ==
    /\ r \in requests
    /\ requests' = requests \ {r}
    /\ IF ~Current(r) THEN UNCHANGED <<trouble, loading, loadingMore>>
       ELSE /\ trouble' = TRUE
            /\ loading' = (loading /\ ~r.first)
            /\ loadingMore' = (loadingMore /\ r.first)
    /\ UNCHANGED <<closed, filter, drawerOpen, version, listed, total, changes, readAt>>

\* A trade closes, is backdated into the journal, or is deleted from it.
ChangeJournal(t) ==
    /\ changes < MaxChanges /\ changes' = changes + 1
    /\ closed' = IF t \in closed THEN closed \ {t} ELSE closed \cup {t}
    /\ UNCHANGED <<filter, drawerOpen, version, listed, total, loading, loadingMore, trouble,
                   requests, readAt>>

DrillNext ==
    \/ OpenTrades \/ CloseDrill \/ LoadMore
    \/ RemoveChip \/ ResetDrilldown \/ ClickDays \/ PickPeriod \/ ApplyFilters
    \/ \E r \in requests : ShowPage(r) \/ FailPage(r)
    \/ \E t \in Trades : ChangeJournal(t)

DrillSpec == DrillInit /\ [][DrillNext]_drillVars

-----------------------------------------------------------------------------
(* Properties                                                              *)

\* The drawer never lists a trade twice, whatever shifts between two pages; and while the
\* journal stands still it lists the latest matches of the filter on the screen, in
\* order, with nothing skipped, whatever filters were tried and answers crossed before.
DrawerListsMatches ==
    /\ Cardinality(ToSet(listed)) = Len(listed)
    /\ (drawerOpen /\ ~loading /\ ~trouble /\ changes = readAt) =>
          /\ IsPrefix(listed, Matches(filter))
          /\ total = Len(Matches(filter))
          /\ Len(listed) = total \/ (Len(listed) > 0 /\ Len(listed) % PageSize = 0)

\* The chips tell the filter, also when dates of an earlier custom range are left in it: a
\* trade is selected exactly when one and the same of its two times, entry or exit, agrees
\* with every chip on the screen.  A trade that was open all through the days shown, but
\* entered before and left after them, is not selected although each date chip agrees with
\* one of its times.
ChipsTellTheFilter ==
    \A t \in Trades :
        Selects(filter, t) <=> \E day \in TradeDays(t) : \A key \in Chips(filter) : Says(filter, key, t, day)
==============================================================================
