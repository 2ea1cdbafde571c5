# Trader OS in TLA+

Trader OS is a trading journal: a FastAPI backend over PostgreSQL, a Next.js
frontend, and two connectors that copy trades from a MetaTrader 5 terminal into
the journal. This directory models the parts of it whose correctness depends on
the order of steps, on the server and in the browser, checks them with TLC on
small instances and proves the most important results with TLAPS for every
instance.

## Inventory

Paths are relative to `src/backend/app/` unless they start with `src/`.

| Component | State | Operations | Talks to | What is hard |
|---|---|---|---|---|
| MT5 connectors (`src/mt5/TraderOSSync`, `src/mt5/TraderOSCompanion`) | token, what was read | read positions, read deals of 48 h, post, time out | terminal (API calls), backend (HTTP) | two reads are not one snapshot; a lost answer means a resend; old deals leave the window |
| MT5 deal ingestion (`integrations/mt5/sync_service.py`) | `mt5_source_deals`, `mt5_processed_deals`, synced `trades`, account balance | one `apply_sync` per request, one transaction | connectors, connection row, trades | idempotency across retries, reconnects and deletions; partial closes; stale or late snapshots; rollback |
| MT5 connection (`integrations/mt5/service.py`, `auth.py`; `src/frontend/components/Mt5ConnectionPanel.tsx`, `Mt5ConnectDrawer.tsx`) | `mt5_connections`: token hash, status, last_seen, revoked_at; the panel's copy, the drawer's one-time code | create, regenerate, revoke, list, authorize; poll, show the code | ingestion; cascades into both ledgers | a connection is replaced while its requests are under way; polls, drawer and commands cross |
| MT5 reconciliation, life cycle (`reconciliation.py`, `lifecycle.py`) | none | read-only reports | ledgers, trades | - |
| Trade ledger (`services/trade_service.py`, `account_service.py`) | `trades`, account balance and equity | create, preview, update, close, delete | risk gate, FX math, balance | balance after each operation; the risk gate under concurrent creation |
| Risk gate (`engines/account_rules_engine.py`, `risk_engine.py`) | none | `evaluate_submission`, snapshot of limits | trade ledger | two limits with an enforcement mode each |
| FX math (`engines/fx_math.py`, `engines/calculator`) | none | sizing, P&L, R | trade ledger, calculator | rounding down to lot steps |
| Market data (`market_data/`; `src/frontend/hooks/useMarketQuotes.ts`) | `market_candles`, `broker_candles`, in-process quote and ticker caches, locks; the strip of each tab | get OHLCV, quote, ticker, conversion rate; poll | providers | cache age, single flight, concurrent upsert |
| AI orchestrator (`ai/`) | `ai_analyses` keyed by context hash | run analysis, fail over, repair | providers | parallel runs of one context, late answers |
| Market analysis (`services/analysis_service.py`) | `market_analyses`, annotations | create, update, trade plan | trade ledger | a trade plan executed twice |
| Journal reminders (`services/push_service.py`, `jobs/reminders.py`) | `push_subscriptions`, `reminders_enabled`, `last_journal_reminder_on` | subscribe, disable, dispatch | push services, cron | one commit after many pushes; overlapping and dying runs |
| Analytics (`engines/analytics_lab`, `quant_lab`, `reports`, `performance_engine.py`) | none | statistics | - | - |
| Session, discipline, psychology, health engines | none | scores | - | - |
| Browser session (`src/frontend/lib/api.ts`, `components/Shell.tsx`; `core/security.py`, `api/auth.py`) | token pair in localStorage, calls in flight | sign in, sign out, call, refresh before and after a 401 | every page; API | parallel refreshes; a sign-out or sign-in between two awaits |
| Pages and panels that load (`src/frontend/app`, `components`) | what is shown, which requests are in flight | load, change of the selection, retry | API | answers in another order than the requests |
| Risk limits form (`src/frontend/components/accounts/RiskPolicyForm.tsx`) | fields, saved flag; `risk_profiles` | load, edit, save, read back | accounts API | read-back against typing and account changes; two validations of one policy |
| Trade entry form (`src/frontend/components/TradeForm.tsx`) | contents, preview, checklist, images | preview, save, upload | trade ledger, risk gate | a save that worked and an upload that failed; stale previews |
| Analytics drill-down (`src/frontend/components/analytics`, `lib/analytics-drilldown.ts`) | filter, list, page offsets | click, chip, load more | analytics API | late pages; leftover dates; a journal that shifts under the offset |
| Intelligence engine (`src/frontend/lib/intelligence`) | none | collect, deduplicate, score, sort, pick | lab, feed, dashboard | several sources report one theme |
| Market lab chart (`src/frontend/components/charts/vela`) | chart, overlay | boot, clean up, draw lines | Vela | the page is left while the chart is starting |
| Reports page (`src/frontend/app/(terminal)/reports`) | report, narrative | generate, fall back, regenerate | reports API, AI | two buttons, two requests, one page |
| Storage, migrations, drawing of the UI | files; schema; - | - | - | - |

What makes each of the stateful ones correct:

* **Ingestion**: a broker deal is counted at most once, and no deal is left
  behind; the ledgers survive every fault; a trade closes only by a closing deal,
  and does close when its last deal arrives; P&L and balance follow the ledger.
* **Connection**: a revoked or replaced token changes nothing any more; a code on
  the screen is one the server accepts.
* **Trade ledger**: the balance is the sum of the closed trades; who asks the gate
  for less is not refused what more is granted.
* **Session**: a call is carried out once, and crossing refreshes end no session.
* **Views, drill-down, reports**: what is shown belongs to the selection, the
  filter or the report beside it, in whatever order answers come.
* **Forms**: what the form says is saved is saved, and a form that can be sent
  again has stored nothing.
* **Market pulse**: one refresh at a time, the lock is never left behind, and no
  strip goes back in time.
* **Chart**: one chart per open page, bearing the lines of its trade once.
* **Intelligence**: one finding per theme, ordered by score, worded by its sample.
* **Reminders**: at most one a day per user, none written off without a push.

`PROJECT.json` lists the hazards of the code line by line and the properties that
cover them.

## Modules

| Module | What it is |
|---|---|
| `Mt5Sync` | terminal, connector, network, connection row, `apply_sync`, user edits |
| `TradeJournal` | the abstract specification `Mt5Sync` implements |
| `MCMt5Sync` + 6 configurations | instances of it |
| `Mt5SyncProofs` | its theorems |
| `Mt5SyncRace` | `apply_sync` in several sessions at once, query by query, over `Mt5Sync`'s operators |
| `MCMt5SyncRace` + 2 configurations | instances of it |
| `Mt5SyncRaceProofs` | its theorems |
| `PushReminders` | subscriptions and `dispatch_due` |
| `MCPushReminders` + 2 configurations | instances of it |
| `PushRemindersProofs` | its theorems |
| `FrontendSession`, `FrontendSessionProofs` | token pair, calls and refreshes of the browser |
| `ViewLoads` | how 26 pages and panels load what they show |
| `Mt5Panel`, `Mt5PanelProofs` | the connection row and the settings panel that handles it |
| `RiskPolicy`, `RiskGate` | the limits form and the gate that reads its policy |
| `TradeEntry` | the trade form and what the API does with its saves |
| `Ranking` | sorting by an order without ties: `ORDER BY`, `Array.sort` (external) |
| `Drilldown` | filter, chips and the drawer of trades |
| `ViewsProofs` | theorems of `ViewLoads` and `Drilldown`, and of `Ranking` |
| `MarketLab` | the chart of the lab |
| `Findings` | the intelligence engine |
| `MarketPulse`, `MarketPulseProofs` | ticker cache, refresh lock and the tabs that poll |
| `Reports` | the reports page |
| `MCTerminal` + `Terminal.cfg` | all parts of the browser terminal, for TLC |
| `TerminalProofs` | theorems of `RiskPolicy`, `RiskGate`, `TradeEntry`, `MarketLab`, `Findings`, `Reports` and `MCTerminal` |
| `CloseRetry.cfg` | an instance of `TradeEntry` alone |

### Mt5Sync

| State | In the code |
|---|---|
| `opened`, `dealTime`, `clock`, `expired` | the terminal's positions and deal history (external) |
| `connector`, `requests` | `SendSync` / `build_payload`, `send_sync`; requests on the network |
| `link` | the account's row of `mt5_connections`; `id` names the row, a new one after revoke and create |
| `db` | committed `trades`, `mt5_processed_deals`, `mt5_source_deals` and balance |
| `tx` | the session of an `apply_sync` in progress; `work` is its uncommitted view |

`ReadPositions` and `ReadDealsAndSend` are the two terminal calls of a connector.
`BeginSync` is the handler up to its positions loop (authorization, source rows),
`UpsertOpenPositions` is that loop, `SkipProcessedDeal`/`CloseFromDeal` one turn
of the deals loop, `Commit` the balance refresh and the commit, `Abort` a
rollback anywhere between. `CreateConnection`, `RegenerateConnection`,
`RevokeConnection`, `EditTrade`, `CloseTrade` and `DeleteTrade` are the user's
requests, each one transaction.

Money is symbolic. A realized P&L is the *set of ledger entries summed into it*,
so a deal that is missing and a deal that is counted twice are visible without
any arithmetic, and the results hold for all amounts except that deals which
cancel out exactly are told apart here. Time is the order of the closing deals.
Opening (IN) deals are stored and skipped by the code and left out here, as are
candle upload, the broker's clock offset, symbols and risk metrics.
Transactions are applied one at a time; their interleaving is `Mt5SyncRace`.

`TradeJournal` says what all of this amounts to: a journal that records each deal
once per connection, has a trade for every recorded deal, removes no trade by
itself and closes one only while recording a new deal of it. The mapping
(`ImplementsJournal`) takes the committed processed rows for the recorded deals
and the committed trades for what is shown; transactions are invisible until they
commit.

Constants that are facts of a deployment: `NewestFirst` (the EA sends the newest
deal first, the companion the oldest), `Gap` (the terminal may trade between the
two reads: it may, both read it live), `HistoryExpires` (48 hours). `Faults`
adds lost requests and failing transactions.

### Mt5SyncRace

| State | In the code |
|---|---|
| `db` | committed rows, as in `Mt5Sync`; a ledger row also names the session that inserted it, so that a deal inserted twice would be two rows |
| `session` | one ORM session per request: its payload, the balance it loaded, the source rows it will add (`fresh`), what it read before a flush (`read`: the trade row and, read later, the P&L summed over the ledger), what it has written (`work`) |
| `lock` | who has updated the row of `mt5_connections` |

Every query is a step of its own, so that another session may commit between any two
of them; this matters most in `_upsert_open_position`, which reads the trade, awaits a
provider for the conversion rate and only then reads the processed deals.
`LoadAccount`, `ReadSources`, `FindPosition`, `ReadEconomics`, `SkipDeal`,
`TakeDeal`, `FindDeal`, `Refresh` are the reads, `StoreBars`, `FlushPosition`, `FlushDeal`,
`Commit` the writes, `Fail` and `Die` a rollback. `FindPosition` reads the trade and
`ReadEconomics`, after the rate (`pc` is "rate"), its deals; `SkipDeal` and `TakeDeal`
ask whether a deal is processed and `FindDeal` reads the trade it closes.

Every request updates `last_seen_at`, so its first flush locks the connection row
until the commit; from then on it is alone (`View`). What it read before may be
stale: which source rows are missing, whether a deal is processed, what the trade
looked like, what its deals add up to. `Conflict` is the three unique constraints,
`Saved` the ORM's UPDATE of the columns that differ from the row as read, `Commit`
writes the balance only if the sum differs from the balance loaded at the start. The
clean rows of a session are not kept beyond the function that read them, except the
account, so a later read goes to the database; `conversion_rate` and `get_ohlcv_range`
do not commit. That `ReadSources` is one step is no loss: a commit in the middle of it
conflicts exactly if it conflicts at one of its ends.

### PushReminders

`Start` is the query at the head of `dispatch_due`, `Consider` one turn of the
loop over users, `Deliver`/`DropGone`/`Fail` one push, `Commit` the only commit,
`Crash` the end of the process before it. A user whom the loop skips because of
data loaded at the start is left out at `Start`. `pushes` and `disturbed` are
history: how often an endpoint got a reminder, and the days on which runs
overlapped or died. All users live in one time zone.

### FrontendSession

An action is the code between two awaits. `Begin` is `ensureFreshAccessToken` up to
its fetch or the call's own, `Serve`, `Refuse` and `Fails` the API's answers,
`SeeRefusal` the branch on a 401, `Refreshed` and `RefreshFails` the end of
`refreshAccessToken`. `SignIn`, `SignOut` and `Settle` are the pages' steps. A token
is a number: the pair it was issued with; `age` says which of its two halves the
server still takes, and `Expire` ages it. `applied` counts how often the API carried a
call out. A call keeps its token while a request with it is on its way. An image load
is a request like any other.

### ViewLoads

The views share one shape: a selection, a load of one or two requests, answers.
They differ in four decisions, recorded by a definition for each view: are answers
of an earlier load dropped (`guarded`), does a new selection load by itself
(`asks`), what does a load empty (`clears`), what does a failure empty (`drops`).
`Select`, `LoadAgain`, `Arrive` and `FailLoad` run any of them. `overtaken` is
history: an answer came after that of a later load. An account changed under an open
`EdgeCell` or `DayInvestigation` is outside the claim: their selection is the cell or
the day.

### Mt5Panel

A command (create, regenerate, revoke) is a member of `commands` and goes through the
stages asked, serving, done or refused. Disconnect and Regenerate have no busy flag and
their buttons are not disabled, so `Ask` gives one whatever else is under way, except a
second create and whatever the open drawer covers: two commands may be on the network,
served in either order, and their answers may cross. `LoadConnection` is the SELECT of
the handler, `CreateConnection`, `RegenerateConnection`, `RevokeConnection` its commit
against a row that others may have changed since, `LoseRow` the commit that finds its row
replaced. `BeginSync` and `CommitSync` are a sync that loads the row of `Mt5Sync`'s `link`
and writes status and last_seen at its commit. `Poll`, `ShowStatus` are the panel's
reloads and `SeeCreated`, `SeeRegenerated`, `SeeRevoked`, `SeeError` the answers; the
drawer opens and closes at any time. Commands are numbered, and a code bears the number
of the command that made it. `lastDone`, `lastHeard` (the commands last carried out by the
server and last heard of by the page), `disconnected` and `overrun` (the last code was
generated by a command that had loaded the row before it was revoked) are history.

### RiskPolicy and RiskGate

`RiskPolicy` has the limits page, its form and the profile on the server: load, edit,
`Save` (PUT), `PutProfile`, `GetProfile`, `ReadBack`. Its second half has the two
validations as predicates over the same record of amounts: `FormAccepts` and
`ServerAccepts`. `RiskGate` evaluates a submission under such a policy
(`EvaluateSubmission`); the day's exceeded limits are one boolean.

### TradeEntry

One form in its three modes: previews, acknowledgement, checklist, `Submit`, the
server's `CarryOut` behind its gate, answers that arrive or are lost, the upload of
two images. The contents of the form are the policy's `verdict` on them, which
changes with an edit or elsewhere.

### Drilldown

The filter and what narrows it (`ClickDays`, `RemoveChip`, `PickPeriod`, ...), the chips,
the drawer's pages, and the server's selection, which is computed when it answers,
from a journal that `ChangeJournal` shifts. `Matches` is its ORDER BY, `Unlisted` what
`loadMore` appends of a page. A trade has the day of its entry and the day of its exit,
and a window of dates selects it when either lies inside (`_activity_in_date_window`);
every other trade of the model is held over two nights. Days, one symbol and the presets
stand for the eight filters of the same kind.

### MarketLab

`Mount` and `Cleanup` are the effect of the chart's component. `Enter` and `Leave` open
and leave the page; `ChangeSettings` and `SeeReplayOnOtherFeed` give the chart another
key, so that it is mounted anew within the page and takes over the page's overlay.
`Imported`, `Started` and `BootFails` are the awaits of the boot; `SelectTrade` asks for a
replay, `SeeReplay` lays its lines over the chart, and `ReplayFails`, of a trade that is
not on the list, leaves those that are there.

### Findings

A catalogue of the lines the four sources may report, with theme, severity, base
priority and smallest sample; which of them can come together (`ComesWith`,
`AtOdds`); deduplication, score, order, primary finding, list of signals. Strength is
computed from the sample by each source's own thresholds.

### MarketPulse

`Look`, `TryLock`, `ServeStale`, `Acquire`, `LookAgain`, `Refresh`, `Release` and
`RefreshRaises` are `get_ticker`, a step per critical section; `PollTicker`, `Receive`,
`Disconnect` and `Remount` are `useMarketQuotes` in a tab. A payload is the time it was
put together. A handler whose client has gone runs on for nobody.

### Reports

`Generate` with or without a narrative, `FallBack` to the bare report, `Regenerate`, and
the answers to both. A report is its account and period; `moved` is history: the account
changed while something was loading.

### MCTerminal

The parts share no state but the server's, so a behaviour uses one of them (`part`) and
leaves the others as they begin; `candidate` runs through all limits forms over small
amounts.

## Runs

| Run | Question | Result |
|---|---|---|
| `adverse` | lost and late requests, rollbacks, reconnects, edits: do the ledgers stay sound, is it still the journal of `TradeJournal`, and who leaves the balance behind? | holds, 0.9 M states |
| `unattended` | one connection, EA order, live terminal, expiring history: does the P&L follow the ledger, does an early close heal? | holds |
| `companion` | atomic snapshots, oldest first, two positions: is every close recorded, with the right exit? | holds |
| `gap` | the same liveness when the terminal trades between the reads | **violated** |
| `reopen` | is the exit cleared when a closed trade's position is reported open? | **violated** |
| `orphans` | does a trade show only the P&L of its own position? | **violated** |
| `race` | overlapping requests of one connection: is a deal lost or counted twice, is the trade of a recorded deal whole, does the retry succeed? | holds, 0.1 M states |
| `stale_pnl` | does the P&L follow the ledger when requests overlap? | **violated** |
| `reminders` | overlapping and dying runs: was what is recorded sent, and what repeats a reminder? | holds, 1.7 M states |
| `reminders_overlap` | at most one push a day, as `dispatch_due` says | **violated** |
| `terminal` | the browser terminal with late, lost and crossing answers, one part at a time | holds, 0.65 M states |
| `close_retry` | can the save be repeated that the form asks for? | **violated** |

What `terminal` asks of each part:

| Part | Properties |
|---|---|
| session | `CallAppliedOnce`, `SessionEndsForAReason` |
| view | `SettledViewIsAboutSelection` |
| mt5 | `RevokedStaysRevoked`, `ShownCodeWorks` |
| limits | `SavedFormIsStored`, `CandidateFormAgrees`, `CandidateGateIsMonotone` |
| drilldown | `DrawerListsMatches`, `ChipsTellTheFilter` |
| entry | `OpenFormHasJournaledNothing` |
| lab | `OneChartWithItsOverlay` |
| findings | `SignalsAreHonest` |
| pulse | `RefreshLockIsAtWork`, `PricesMoveForward` |
| reports | `InterpretationIsOfReport` |

Several of them hold only with an exception the code does not exclude, which the
definition names: a late answer in the ten views that drop none, a lost answer to a
save (a second press then journals a second trade), an account changed while a report
loads, a hard limit enforced less strictly than the soft one. Nothing is
claimed of a refresh that crosses a sign-out: answered after it, it stores the session
again. `RowsAreSound`, `IngestionIsSound` and `RemindersAreSound` conjoin the type
invariant of their module with the inductive invariant its proofs use, so that TLC checks
what is proved.

The six violations:

* **gap**. Both connectors read positions before deals. A final close between
  the two arrives in a snapshot that still lists the position, counts as a
  partial close, and is skipped as processed ever after: the trade stays open,
  although the docstring of `_reconcile_missing_positions` says it is open only
  "until a closing deal arrives".
* **reopen**. In `_upsert_open_position` the branch that clears the exit of a
  closed trade is dead: `_apply_mt5_fields` has set the status to open just
  before it. A trade the user closed or edited while the broker still holds the
  position is open again with an exit price.
* **orphans**. The same function computes the economics of a new trade before the
  row has an id, so it selects the deals whose trade is null: those of deleted
  trades. An open trade shows the P&L of other positions until its own first
  closing deal replaces it (`LinkOf` is that lookup).
* **stale_pnl**. Of three overlapping requests the first reads the trade, a second commits
  a partial close, the first reads the deals of the trade and finds that one, a third
  commits the final close with the sum of both deals, and the first flushes its sum of
  one. The ledger has both deals, the trade one, and no later snapshot repairs it once the
  position is gone: the deals are skipped as processed. The reconciliation report
  (`docs/MT5_RECONCILIATION.md`) counts that as an error of the records. What does hold is
  `RecordingIsWhole`: at the commit that records a deal the sum is whole, because
  `_close_from_deal` reads the ledger again behind its flush, when it has the lock.
* **reminders_overlap**. The mark that makes the reminder daily is read at the
  start of a run and written at its end.
* **close_retry**. In close mode the save has closed the trade when the upload of the
  exit image fails. The form says "Pick the image again and save.", and `close_trade`
  refuses the second save because the trade is closed.

One more observation is about a pure function and has no run: `dedupeFindings` compares
the priorities the sources gave, before the scores are computed, although its comment
speaks of scores. Of two lines of one theme on ten trades the detector's watch (82,
score 86) is kept over the lab's important one (80, score 97).

### Bounds

`adverse`: atomic reads (`Gap` is `unattended`'s; late snapshots already contradict the
deals here), one position with two closing deals (a partial close and the rest), one
late request, two tokens (so one regenerate or one reconnect), one user edit. One
position is enough for its properties because trades of different positions share only
the ledgers, which they key by deal, and the rows of deleted trades, which a position
also finds when they are its own; for more positions there are the proofs. Two deals are
the smallest number with a partial close, an order and an early close. `orphans` needs
two positions with one deal each. `race` has one position with two deals, two sessions
and one death. The account balance may be wrong there for a while: a late snapshot
reopens the trade, and its sum equals the balance it had loaded before the close was
committed, so it is not written. The next sync repairs it (`BalanceSettles`).
`stale_pnl` is the same instance without deaths: the third request is the second
session's next. `companion` has a second position so that a payload mixes deals of two
trades. `unattended` has the late request and no user. `reminders`: two users who
contend for one browser, two subscription rows, two runs, two days (a recorded day must
be told from a current one). `reminders_overlap` has two browsers and one day. The
symmetric sets (the two deals of a position, users, browsers, runs) are used in runs
without liveness only. Deadlock is checked in all of these runs.

`terminal`: two users, three calls and two token pairs (a call of each user and one that
is refused beside another; a pair and its successor). Two subjects and four loads: a
load, a second one of another subject, a return to the first and a retry. Three
commands, of which the first is that of an earlier visit: two of this visit are the
fewest whose answers can cross, with or without a connection to begin with; one sync and
one poll in flight. Two accounts, two limits and four loads or saves. Four trades on
pages of two, three versions of the list and one change of the journal: a full page, a
further page, a shift between them. Two presses and one edit. Three mounts of the chart,
two trades and two replays: a page left and opened with a change of settings on one
side, and two replays that cross. Samples of 4, 10 and 150 trades: below every
threshold, between the smallest (5) and the one of maturity (20), and above all of them;
three observations at once are the fewest with a duplicate and a rival. Two tabs, two
threads and three times with a TTL of one: the smallest instance with a cache that is
fresh, and then old, for two who queue; three threads and a fourth time were checked too
(3.8 M states). Two accounts, two periods and four presses. Users are symmetric. The
counters of presses, loads and visits end a behaviour, so deadlock is not checked there,
nor in `close_retry`.

### Fairness

`FairSpec` of `Mt5Sync`: the connector's timer fires (weak fairness of its two
reads and of its timeout), the server answers what it has received (weak
fairness of each step of a transaction and of a rejection, strong fairness of
beginning a sync because a transaction in progress disables it). No fairness for
the broker, the user or for faults; the liveness properties end when the
connector is not connected. In
`Mt5SyncRace` connectors keep posting (weak) and a session that is stopped by the
connection row again and again gets it in the end (strong: the lock queue of the
database is fair). It is
what a connector with a working network and a responding server gives; runs with
faults check safety only, except `race`, where requests die a bounded number of
times. The parts of the terminal have no fairness and no liveness: whether an answer
comes is up to the network, and nothing in the browser repeats a request for ever but
the polls, which are bounded here.

## Proofs

Every invariant and every action property that a passing run checks is also a theorem
for all values of the constants; four of the invariants of `Mt5Sync` under a condition
(below). `PROJECT.json` lists the theorems; the proofs are in eight modules.

### Mt5Sync

`Mt5SyncProofs` proves for every set of positions and deals, either deal order
and every bound: type correctness; the inductive invariant `SyncInvariant`; and
from it `ProcessedOnce`, `NoDealCountedTwice`, `LedgerIsBacked`,
`EvidenceIsProcessed` and the action properties `ClosedOnlyByNewDeal`,
`BalanceLagsOnlyAfterEdit` and `EvidenceIsAppendOnly`; `IngestionIsSound` is the two
invariants together.

None of these properties is inductive. That a deal is counted once over *all*
connections needs that every row of both ledgers belongs to the current
connection, which holds because `create_connection` deletes the old row and the
foreign keys cascade; and the committed database stays sound because the
uncommitted one is, because it extends the committed one, and because every
source row it holds is either processed or still in the payload. That is
`Sound`, `Extends` and the last clause of `SyncInvariant`. The proof has a lemma
per writer of the database (transaction steps, commit, cascade, user edits).

That `Mt5Sync` implements `TradeJournal` is proved from the same invariant, one
lemma per kind of step. A commit maps to a `Record` of the deals of its new rows:
they are new to the journal because no deal has two rows, and each has a trade of
its position because the work extends the committed rows soundly.

Four invariants are true of some deployments only, which is why they are checked in the
runs `unattended` and `companion` and not in `adverse`. The theorems name the condition
instead of a configuration:

| Property | Condition | Why it is needed |
|---|---|---|
| `PnlMatchesLedger`, `OpenTradeHasNoExit` | `Untouched`: no user edit so far, and the first connection | a save by hand sets P&L and exit of its own (`reopen`, `orphans`); a second connection finds the rows of the first one gone and their trades kept |
| `ExitIsLastDeal` | `InOrder`: oldest deal first, none has left the window | the EA lists the newest first, so its trades bear the exit of an older deal; a deal that left the window before it was sent is never sent |
| `ClosingDealClosesTrade` | `OneAtATime`: no request given up can still arrive, the two reads are one snapshot | a late or torn snapshot lists as open what the ledger has already closed (`gap`) |

The first two conditions are about the state and may fail later: the theorems say that
the property holds as long as the condition does. The third is about the constants. Each
has an inductive invariant: `ReportInvariant` (a trade nobody else wrote shows the sum
over its rows, its last deal is one of them, and it was closed by a deal),
`OrderInvariant` (whatever is sent, under way or processed skips no older deal; an exit is
not before the deal the trade shows), `LineInvariant` and `ArrivalInvariant` (at most one
request is on its way, and a position it lists as open still has a deal to come after
everything known or under way).

### Mt5SyncRace

`Mt5SyncRaceProofs`, for any number of sessions, positions, deals and deaths:
`RowsAreSound`, that is, types and `RaceInvariant`; from it `NoDealCountedTwice`,
`EvidenceIsProcessed` and `RecordingIsWhole`; and that overlapping requests still
implement `TradeJournal`. `PnlMatchesLedger` is false of overlapping requests
(`stale_pnl`), so it is no theorem here.

`RaceInvariant` says that the committed rows are `Sound`: every trade is `MadeOf` rows of
the ledger, that is, its P&L counts none but processed deals of its own, though perhaps
not all of them; that the work of the one session that holds the connection row is sound
but for the deals it still has in hand, extends what is committed, and is `Whole` for
every trade with a new row; and of a session that holds nothing, what its stale reads are
good for: the source rows it thinks missing are of deals it brings or of deals that are
known by now; and of what it has read before a flush (`ReadIsUsable`), that the trade is
still there, and that the row and the sum read, however old, are made of rows that are
still there, since no row goes. Nothing more is true of them, which is why the sum may be
out of date. The lock gives the rest: only its holder changes `work`, and nobody else
commits.

### PushReminders

`PushRemindersProofs` proves type correctness, `ReminderInvariant`,
`OnePushUnlessDisturbed` and `RecordedReminderWasSent`. The invariant says of
every push on a day that is not disturbed that the day is recorded, over, or held
by the one run that sent it, that this run has passed the endpoint, and that no
older run is under way (an older run could record its own day over the newer
one).

### The terminal

`FrontendSessionProofs`: `CallAppliedOnce` rests on `OnceInvariant` (a call is counted
from the moment it is served, and only a refused one is sent again), and
`SessionEndsForAReason` on a case analysis of the few steps that empty the token store.

`Mt5PanelProofs`, for any number of commands, syncs and polls: types, and
`PanelInvariant`. Its part `NumbersAreFresh` says that a command is carried out and heard
of once; `CodesFit` that the answer to the command carried out last brings the row's code,
and that once it was heard the browser's codes are the row's. From it `ShownCodesWork` and
`RevokedStaysRevoked`. The condition of `ShownCodeWorks`, that the page heard last of the
command the server carried out last, cannot be dropped: when the answers of Regenerate and
Disconnect cross, an old code stays on the screen.

`MarketPulseProofs`: `PulseInvariant`: the lock is held by the thread between its
acquisition and release; an answer is no younger than the cache and no older than the
strip it is for; one request per tab; who refreshes has found the cache too old. The
second look under the lock is what makes the last clause inductive.

`ViewsProofs` has two parts.

* For every view of the code, any set of subjects and any number of loads,
  `LoadsInvariant` says that a part is about the selection or an answer of the last load
  that will make it so is awaited, unless that load failed or a late answer spoilt it; it
  uses that a guarded view asks by itself and that a view with a button has one part,
  both read off the 26 definitions (`ViewShapes`).
* For the drill-down, `DrawerInvariant` gives `DrawerListsMatches` for any number of
  trades, page size and requests: at most one request is current, its answer fits where
  it will be put (`ReplyFits`: while the journal stands still it holds the page after the
  list), and no answer lists a trade twice. That two pages join without a gap is a lemma
  about lists; that what the server sorts is a list of all its rows in order, each once,
  is `RankedLists`: in an order without ties the number of members before a member tells
  it from the others, and an injection of a finite set into a set of its size is onto.
  `ChipsAlwaysTell` is a case analysis of the filter and holds in every state: a trade is
  selected exactly when one and the same of its times agrees with every chip. With a time
  for each chip it would be false, as of a trade that was open all through the days shown.

`TerminalProofs` has the rest.

* `TradeEntry`: `OpenFormHasJournaledNothing` is inductive as it stands.
* `RiskPolicy`: `SavedFormIsStored` needs `PolicyInvariant` (a read-back on its way
  carries what the server holds); `ValidationsAgree` compares the two validations for all
  natural numbers, where the run has three.
* `RiskGate`: `GateIsMonotoneForAll`, over all policies of natural amounts and all
  submissions whose hard limit is enforced at least as strictly as the soft one; what is
  planned ranges over 0 to 3 as in `Submissions`.
* `Reports`: `InterpretationIsOfReport` needs `ReportsInvariant`: each button's request is
  about the period asked for last and, unless something moved, the account on the page;
  `generate` with a narrative keeps the other button disabled; a narrative is about the
  report on the page and the one awaited.
* `MarketLab`: `LabInvariant` is `MountsKept` (only the last mount, and only on an open
  page, is not cancelled), `ChartsKept` (a living chart is held by the component of that
  mount) and `LinesKept` (a chart bears the lines of the overlay it was last given).
* `Findings`: `SignalsAreHonest` for any samples and limits and any number of
  observations. `RawInvariant` (a finite set of observations, none judged by more trades
  than it names) is what the sources keep; the rest is about the pure functions:
  `OnePerTheme` (the preference of `dedupeFindings` and the place decide every pair),
  `BeforeOrders` (the order of `prioritizeFindings` has no ties, because two kept
  observations never stand at one place), `SignalListIs` (the list is the primary
  observation and then a beginning of the others) and `StrongWordsNeedTrades` (the
  evidence levels). That a set of natural numbers has a least member is taken from the
  library's well-foundedness of `<`.
* `MCTerminal`: `PartsKeepTheirSpecifications`: a behaviour of the composition satisfies
  the specification of each part, so what is proved of a part holds in the composition.
  With it the type invariant of the run (`TerminalTypeCorrect`), `CandidateFormsAgree`
  and `CandidateGatesAreMonotone` are theorems of the very formula TLC checks.

### Assumptions

The assumptions are the `ASSUME`s of the modules: `PosOf` is a function, sentinels are no
elements, flags are Boolean, bounds, session numbers, samples and the TTL are natural
numbers, a page and a list have room for at least one row, there is at least one limit.
TLC evaluates them in every run of the module.

### Only model-checked

The liveness properties, `EveryDealIsRecorded`, `BalanceSettles`, `CloseIsRecorded` and
`EarlyCloseHeals`: the prover does not handle `ENABLED`, on which fairness rests. What they
claim is checked on the instances above only. The six violations are counterexamples and
need no proof.

## Not modelled

The plan the project began with is done except for the following, with the reasons.

* Two trades created at the same time pass the risk gate against snapshots without each
  other; a plan sent twice makes two trades; parallel AI runs of one context store two
  rows. Nothing in the code orders these requests and nothing in the repository says what
  should hold, so there is no property to state.
* `get_ohlcv`, the candle upsert and the conversion rates: one statement or formula each,
  whose outcome depends on the provider's candles.
* The broker's clock offset, symbol tables, lot rounding, streaks, drawdown, performance
  and scoring engines: formulas over decimals without state, recomputed for each request.
* Prompts, guardrails and schema repair of the AI orchestrator: text processing.
* Providers, object storage, migrations: input and output.
* Most of the frontend's lines lay out, style and label what they are given. `map`
  covers the handlers, effects and pure functions that decide what is asked, kept and
  shown; the markup around them has no states to tell apart.
