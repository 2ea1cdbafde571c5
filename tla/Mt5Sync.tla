------------------------------ MODULE Mt5Sync ------------------------------
(***************************************************************************)
(* How closing deals of an MT5 account become trades of the journal.       *)
(*                                                                         *)
(* Three parties take part.  The broker's terminal opens positions and     *)
(* executes closing deals.  A connector (the TraderOSSync expert advisor   *)
(* or the Python companion) reads the terminal and posts snapshots to      *)
(* /api/integrations/mt5/sync.  The server applies a snapshot in one       *)
(* database transaction (apply_sync) to three tables: the source ledger,   *)
(* the processed ledger and the trades.  The user connects, regenerates    *)
(* and revokes the connection, and edits, closes and deletes trades.       *)
(*                                                                         *)
(* Abstractions.  Money is symbolic: a realized P&L is the SET of ledger   *)
(* entries that were summed into it, so that a deal missing from a sum and *)
(* a deal counted twice are both visible whatever the amounts are.  Time   *)
(* is the order of the closing deals.  Opening (IN) deals, which the       *)
(* server keeps as evidence and skips, candles and risk metrics are left   *)
(* out.  One request is applied at a time: the interleaving of two         *)
(* transactions on the same rows is not modelled here.                     *)
(***************************************************************************)
EXTENDS Naturals, FiniteSets

CONSTANTS
    Positions,      \* broker position ids
    Deals,          \* tickets of the closing deals
    PosOf,          \* PosOf[d] is the position that deal d closes or reduces
    NoDeal,         \* external_deal_id of a trade that no deal has touched
    NoTrade,        \* there is no trade row for the position
    NoPosition,     \* trade_id of a ledger row whose trade was deleted
    NewestFirst,    \* deal order in a payload: TRUE for the EA, FALSE for the companion
    Gap,            \* TRUE: the terminal may trade between the connector's two reads
    HistoryExpires, \* TRUE: deals leave the 48 hour history window
    Faults,         \* TRUE: requests get lost and transactions fail
    MaxLate,        \* bound: abandoned requests still on their way to the server
    MaxTokens,      \* bound: connector tokens issued
    MaxEdits        \* bound: trades edited, closed or deleted by the user

ASSUME PosOfAssumption == PosOf \in [Deals -> Positions]
ASSUME SentinelAssumption ==
    NoDeal \notin Deals /\ NoPosition \notin Positions
ASSUME FlagAssumption ==
    /\ NewestFirst \in BOOLEAN
    /\ Gap \in BOOLEAN
    /\ HistoryExpires \in BOOLEAN
    /\ Faults \in BOOLEAN
ASSUME BoundAssumption == MaxLate \in Nat /\ MaxTokens \in Nat /\ MaxEdits \in Nat

VARIABLES
    \* the terminal
    opened,     \* positions ever opened
    dealTime,   \* dealTime[d]: when d was executed, 0 if it was not yet
    clock,      \* time of the latest deal
    expired,    \* executed deals older than the history window
    \* the connector and the network
    connector,  \* what the connector is doing, its token and its first read
    requests,   \* posted requests the server has not begun to serve
    \* the server
    link,       \* the row of mt5_connections of the account
    db,         \* committed trades, ledgers and account balance
    tx,         \* the sync transaction in progress
    edits       \* how often the user touched a trade (bounded by MaxEdits)

terminalVars  == <<opened, dealTime, clock, expired>>
connectorVars == <<connector, requests>>
vars == <<opened, dealTime, clock, expired, connector, requests, link, db, tx, edits>>

-----------------------------------------------------------------------------
(* Rows and messages                                                       *)

\* One addend of a realized P&L: the economics of a deal as processed under a
\* connection.  The price formula of the journal is an addend of its own.
JournalEntry == [conn |-> 0, deal |-> NoDeal]
Entry == [conn : Nat, deal : Deals \cup {NoDeal}]

Trade ==
    [status : {"OPEN", "CLOSED"},
     pnl    : SUBSET Entry,            \* realized_pnl; {} when it is null
     deal   : Deals \cup {NoDeal},     \* external_deal_id
     exit   : Nat]                     \* exit_price and exit_timestamp; 0 when null

ProcessedDeal == [conn : Nat, deal : Deals, trade : Positions \cup {NoPosition}]
SourceDeal    == [conn : Nat, deal : Deals]

Database ==
    [trades  : [Positions -> Trade \cup {NoTrade}],
     ledger  : SUBSET ProcessedDeal,   \* mt5_processed_deals
     source  : SUBSET SourceDeal,      \* mt5_source_deals
     balance : [Positions -> SUBSET Entry]]   \* addends of current_balance

Request ==
    [token     : Nat,
     positions : SUBSET Positions,
     deals     : SUBSET Deals,
     awaited   : BOOLEAN]              \* the connector still waits for the response

Connector == [pc : {"idle", "reading", "waiting"}, token : Nat, positions : SUBSET Positions]
Link == [id : Nat, token : Nat, revoked : BOOLEAN]
Transaction ==
    [pc        : {"idle", "positions", "deals"},
     awaited   : BOOLEAN,
     conn      : Nat,
     positions : SUBSET Positions,     \* open_ids
     todo      : SUBSET Deals,         \* closing deals of the payload still to apply
     work      : Database]             \* the session's uncommitted view

TypeOK ==
    /\ opened \in SUBSET Positions
    /\ dealTime \in [Deals -> Nat]
    /\ clock \in Nat
    /\ expired \in SUBSET Deals
    /\ connector \in Connector
    /\ requests \in SUBSET Request
    /\ link \in Link
    /\ db \in Database
    /\ tx \in Transaction
    /\ edits \in Nat

ASSUME NoTradeAssumption == NoTrade \notin Trade

EmptyDatabase ==
    [trades  |-> [p \in Positions |-> NoTrade],
     ledger  |-> {},
     source  |-> {},
     balance |-> [p \in Positions |-> {}]]

NoTransaction ==
    [pc |-> "idle", awaited |-> FALSE, conn |-> 0, positions |-> {}, todo |-> {},
     work |-> EmptyDatabase]

Init ==
    /\ opened = {}
    /\ dealTime = [d \in Deals |-> 0]
    /\ clock = 0
    /\ expired = {}
    /\ connector = [pc |-> "idle", token |-> 0, positions |-> {}]
    /\ requests = {}
    /\ link = [id |-> 0, token |-> 0, revoked |-> TRUE]
    /\ db = EmptyDatabase
    /\ tx = NoTransaction
    /\ edits = 0

-----------------------------------------------------------------------------
(* The terminal                                                            *)

DealsOf(p) == {d \in Deals : PosOf[d] = p}
Executed == {d \in Deals : dealTime[d] > 0}
BrokerOpen(p) == p \in opened /\ ~(DealsOf(p) \subseteq Executed)
BrokerClosed(p) == p \in opened /\ DealsOf(p) \subseteq Executed

\* The terminal's own state moves between the connector's reads only if Gap.
TerminalMoves == Gap \/ connector.pc # "reading"

OpenPosition(p) ==
    /\ TerminalMoves
    /\ p \notin opened
    /\ opened' = opened \cup {p}
    /\ UNCHANGED <<dealTime, clock, expired, connectorVars, link, db, tx, edits>>

\* A deal reduces its position; the last one of a position closes it.
ExecuteDeal(d) ==
    /\ TerminalMoves
    /\ PosOf[d] \in opened
    /\ dealTime[d] = 0
    /\ clock' = clock + 1
    /\ dealTime' = [dealTime EXCEPT ![d] = clock + 1]
    /\ UNCHANGED <<opened, expired, connectorVars, link, db, tx, edits>>

\* Both connectors ask the terminal for the deals of the last 48 hours.
LeaveHistory(d) ==
    /\ HistoryExpires
    /\ TerminalMoves
    /\ d \in Executed \ expired
    /\ \A e \in Executed \ expired : dealTime[d] <= dealTime[e]
    /\ expired' = expired \cup {d}
    /\ UNCHANGED <<opened, dealTime, clock, connectorVars, link, db, tx, edits>>

-----------------------------------------------------------------------------
(* The connector                                                           *)

\* First read: the open positions.
ReadPositions ==
    /\ connector.pc = "idle"
    /\ connector' = [connector EXCEPT !.pc = "reading",
                                      !.positions = {p \in Positions : BrokerOpen(p)}]
    /\ UNCHANGED <<terminalVars, requests, link, db, tx, edits>>

\* Second read: the closing deals of the history window; then the request is
\* posted and the connector blocks on the response.
ReadDealsAndSend ==
    /\ connector.pc = "reading"
    /\ requests' = requests \cup
           {[token |-> connector.token, positions |-> connector.positions,
             deals |-> Executed \ expired, awaited |-> TRUE]}
    /\ connector' = [connector EXCEPT !.pc = "waiting", !.positions = {}]
    /\ UNCHANGED <<terminalVars, link, db, tx, edits>>

\* The connector gives up after 20 or 25 seconds.  What it posted may still be
\* on its way or being served.
Abandoned == {r \in requests : ~r.awaited}
Timeout ==
    /\ connector.pc = "waiting"
    /\ \A r \in requests : r.awaited => Cardinality(Abandoned) < MaxLate
    /\ connector' = [connector EXCEPT !.pc = "idle"]
    /\ requests' = {[r EXCEPT !.awaited = FALSE] : r \in requests}
    /\ tx' = [tx EXCEPT !.awaited = FALSE]
    /\ UNCHANGED <<terminalVars, link, db, edits>>

\* A request never reaches the server.
Lose(r) ==
    /\ Faults
    /\ requests' = requests \ {r}
    /\ UNCHANGED <<terminalVars, connector, link, db, tx, edits>>

\* The user pastes the token into the connector's inputs, which restarts it.
InstallToken ==
    /\ connector.pc = "idle"
    /\ connector.token # link.token
    /\ connector' = [connector EXCEPT !.token = link.token]
    /\ UNCHANGED <<terminalVars, requests, link, db, tx, edits>>

\* The connector takes the response to a request: if it still waits for it.
Respond(awaited) ==
    connector' = IF awaited THEN [connector EXCEPT !.pc = "idle"] ELSE connector

-----------------------------------------------------------------------------
(* The connection row                                                      *)

\* create_connection: a revoked row is deleted first, and the foreign keys of
\* both ledgers cascade.  The row cannot go while a sync holds it.
\* Mutants: no cascade at all, and a cascade of one ledger only.
CascadeForgotten(base, id) == base
CascadeOfOneLedger(base, id) == [base EXCEPT !.ledger = {r \in @ : r.conn # id}]
WithoutConnection(base, id) ==
    [base EXCEPT !.ledger = {r \in @ : r.conn # id}, !.source = {s \in @ : s.conn # id}]

CreateConnection ==
    /\ tx.pc = "idle"
    /\ link.id = 0 \/ link.revoked
    /\ link.token < MaxTokens
    /\ link' = [id |-> link.id + 1, token |-> link.token + 1, revoked |-> FALSE]
    /\ db' = WithoutConnection(db, link.id)
    /\ UNCHANGED <<terminalVars, connectorVars, tx, edits>>

RegenerateConnection ==
    /\ link.id > 0
    /\ ~link.revoked
    /\ link.token < MaxTokens
    /\ link' = [link EXCEPT !.token = @ + 1]
    /\ UNCHANGED <<terminalVars, connectorVars, db, tx, edits>>

RevokeConnection ==
    /\ link.id > 0
    /\ ~link.revoked
    /\ link' = [link EXCEPT !.revoked = TRUE]
    /\ UNCHANGED <<terminalVars, connectorVars, db, tx, edits>>

-----------------------------------------------------------------------------
(* One sync request                                                        *)

\* get_mt5_connection: the token is looked up and a revoked row is refused.
Authorized(r) == link.id > 0 /\ r.token = link.token /\ ~link.revoked

Reject(r) ==
    /\ ~Authorized(r)
    /\ requests' = requests \ {r}
    /\ Respond(r.awaited)
    /\ UNCHANGED <<terminalVars, link, db, tx, edits>>

\* apply_sync up to the positions loop: every deal of the payload not yet known
\* to the connection is added to the source ledger.
BeginSync(r) ==
    /\ tx.pc = "idle"
    /\ Authorized(r)
    /\ requests' = requests \ {r}
    /\ tx' = [pc |-> "positions", awaited |-> r.awaited, conn |-> link.id,
              positions |-> r.positions, todo |-> r.deals,
              work |-> [db EXCEPT !.source =
                            @ \cup {[conn |-> link.id, deal |-> d] : d \in r.deals}]]
    /\ UNCHANGED <<terminalVars, connector, link, db, edits>>

NewTrade == [status |-> "OPEN", pnl |-> {}, deal |-> NoDeal, exit |-> 0]

\* aggregate_deal_economics over the processed rows linked to the trade.
Economics(ledger, p) ==
    {[conn |-> r.conn, deal |-> r.deal] : r \in {s \in ledger : s.trade = p}}

\* trade.id as _mt5_closing_deals gets it in the positions loop.  A trade added
\* in this step is not flushed yet, so its id is null, and "trade_id IS NULL"
\* selects the rows that deleted trades left behind, of whatever position.
LinkOf(trade, p) == IF trade = NoTrade THEN NoPosition ELSE p

\* Mutants: a status of its own for a reduced trade, and an exit left in place.
PartialStatus(trade, pnl, d) == [status |-> "PARTIAL", pnl |-> pnl, deal |-> d, exit |-> 0]
PartialKeepsExit(trade, pnl, d) ==
    [status |-> "OPEN", pnl |-> pnl, deal |-> d, exit |-> trade.exit]
\* _mark_mt5_partial_open
PartialOpen(trade, pnl, d) == [status |-> "OPEN", pnl |-> pnl, deal |-> d, exit |-> 0]

\* Mutant: a closed trade is final.
UpsertedUnlessClosed(trade, pnl) ==
    LET row == IF trade = NoTrade THEN NewTrade ELSE trade
    IN  IF pnl # {} /\ row.status = "OPEN" THEN PartialOpen(row, pnl, row.deal) ELSE row
\* _upsert_open_position.  _apply_mt5_fields is called without an exit price and
\* so leaves the trade OPEN; its exit fields are cleared only when processed
\* deals exist, because the branch for a CLOSED trade comes after that call.
Upserted(trade, pnl) ==
    LET row == IF trade = NoTrade THEN NewTrade ELSE trade
    IN  IF pnl # {} THEN PartialOpen(row, pnl, row.deal)
                    ELSE [row EXCEPT !.status = "OPEN"]

\* Mutant: a trade whose position is missing from the snapshot is closed.
UpsertAndCloseMissing ==
    /\ tx.pc = "positions"
    /\ tx' = [tx EXCEPT
                !.pc = "deals",
                !.work.trades = [p \in Positions |->
                    IF p \in tx.positions
                      THEN Upserted(@[p], Economics(tx.work.ledger, LinkOf(@[p], p)))
                    ELSE IF @[p] = NoTrade THEN NoTrade
                    ELSE [@[p] EXCEPT !.status = "CLOSED"]]]
    /\ UNCHANGED <<terminalVars, connectorVars, link, db, edits>>

UpsertOpenPositions ==
    /\ tx.pc = "positions"
    /\ tx' = [tx EXCEPT
                !.pc = "deals",
                !.work.trades = [p \in Positions |->
                    IF p \in tx.positions
                      THEN Upserted(@[p], Economics(tx.work.ledger, LinkOf(@[p], p)))
                      ELSE @[p]]]
    /\ UNCHANGED <<terminalVars, connectorVars, link, db, edits>>

\* Mutant: the companion's order turned round.
PrecedesReversed(d, e) ==
    IF NewestFirst THEN dealTime[d] <= dealTime[e] ELSE dealTime[d] >= dealTime[e]
\* Payload order: the EA lists the newest deal first, the companion the oldest.
Precedes(d, e) ==
    IF NewestFirst THEN dealTime[d] >= dealTime[e] ELSE dealTime[d] <= dealTime[e]
NextInPayload(d) == d \in tx.todo /\ \A e \in tx.todo : Precedes(d, e)

Processed(ledger, conn, d) == \E r \in ledger : r.conn = conn /\ r.deal = d

\* What a deal does to its trade once its row is in the ledger.
Closed(pnl, d) == [status |-> "CLOSED", pnl |-> pnl, deal |-> d, exit |-> dealTime[d]]
\* Mutants: the first deal of a trade never closes it, a deal of an unknown trade
\* opens it, and the P&L of the last deal stands for all.
AppliedFirstIsPartial(trade, pnl, d) ==
    IF PosOf[d] \in tx.positions \/ trade.deal = NoDeal
      THEN PartialOpen(trade, pnl, d) ELSE Closed(pnl, d)
AppliedToKnownTrade(trade, pnl, d) ==
    IF trade = NewTrade THEN trade
    ELSE IF PosOf[d] \in tx.positions THEN PartialOpen(trade, pnl, d)
    ELSE Closed(pnl, d)
AppliedLastDealOnly(trade, pnl, d) ==
    LET last == {[conn |-> tx.conn, deal |-> d]}
    IN  IF PosOf[d] \in tx.positions THEN PartialOpen(trade, pnl, d) ELSE Closed(last, d)

Applied(trade, pnl, d) ==
    IF trade.status = "CLOSED" /\ trade.deal = d THEN trade
    ELSE IF PosOf[d] \in tx.positions THEN PartialOpen(trade, pnl, d)
    ELSE Closed(pnl, d)

\* _close_from_deal for the next deal of the payload.
SkipProcessedDeal(d) ==
    /\ tx.pc = "deals"
    /\ NextInPayload(d)
    /\ Processed(tx.work.ledger, tx.conn, d)
    /\ tx' = [tx EXCEPT !.todo = @ \ {d}]
    /\ UNCHANGED <<terminalVars, connectorVars, link, db, edits>>

CloseFromDeal(d) ==
    /\ tx.pc = "deals"
    /\ NextInPayload(d)
    /\ ~Processed(tx.work.ledger, tx.conn, d)
    /\ LET p      == PosOf[d]
           trade  == IF tx.work.trades[p] = NoTrade THEN NewTrade ELSE tx.work.trades[p]
           ledger == tx.work.ledger \cup {[conn |-> tx.conn, deal |-> d, trade |-> p]}
       IN  tx' = [tx EXCEPT
                    !.todo = @ \ {d},
                    !.work.ledger = ledger,
                    !.work.trades[p] = Applied(trade, Economics(ledger, p), d)]
    /\ UNCHANGED <<terminalVars, connectorVars, link, db, edits>>

\* refresh_account_balances: the realized P&L of the closed trades.
BalanceOf(trades) ==
    [p \in Positions |->
        IF trades[p] # NoTrade /\ trades[p].status = "CLOSED" THEN trades[p].pnl ELSE {}]

\* Mutants: the balance is not refreshed, and the loop over the deals is cut short.
CommitWithoutRefresh ==
    /\ tx.pc = "deals"
    /\ tx.todo = {}
    /\ db' = tx.work
    /\ tx' = NoTransaction
    /\ Respond(tx.awaited)
    /\ UNCHANGED <<terminalVars, requests, link, edits>>
CommitEarly ==
    /\ tx.pc = "deals"
    /\ db' = [tx.work EXCEPT !.balance = BalanceOf(tx.work.trades)]
    /\ tx' = NoTransaction
    /\ Respond(tx.awaited)
    /\ UNCHANGED <<terminalVars, requests, link, edits>>

Commit ==
    /\ tx.pc = "deals"
    /\ tx.todo = {}
    /\ db' = [tx.work EXCEPT !.balance = BalanceOf(tx.work.trades)]
    /\ tx' = NoTransaction
    /\ Respond(tx.awaited)
    /\ UNCHANGED <<terminalVars, requests, link, edits>>

\* Mutant: the processed deals of a failed request stay.
AbortKeepsLedger ==
    /\ Faults
    /\ tx.pc # "idle"
    /\ db' = [db EXCEPT !.ledger = @ \cup tx.work.ledger]
    /\ tx' = NoTransaction
    /\ Respond(tx.awaited)
    /\ UNCHANGED <<terminalVars, requests, link, edits>>

\* The process dies or a statement fails: the whole request is rolled back.
Abort ==
    /\ Faults
    /\ tx.pc # "idle"
    /\ tx' = NoTransaction
    /\ Respond(tx.awaited)
    /\ UNCHANGED <<terminalVars, requests, link, db, edits>>

-----------------------------------------------------------------------------
(* The user's own changes to a synced trade                                *)

\* update_trade recomputes status and P&L from the exit price; commissions and
\* swaps aside, what the broker reported is replaced by the price formula.
Recomputed(trade, exit) ==
    [trade EXCEPT !.exit = exit,
                  !.status = IF exit > 0 THEN "CLOSED" ELSE "OPEN",
                  !.pnl = IF exit > 0 THEN {JournalEntry} ELSE {}]

\* The session does not autoflush: the balance query misses the change unless
\* the excursion backfill of a closed trade happened to flush it before.
SaveTrade(p, trade) ==
    /\ tx.pc = "idle"
    /\ edits < MaxEdits
    /\ edits' = edits + 1
    /\ \E flushed \in BOOLEAN :
        /\ flushed => trade.status = "CLOSED"
        /\ LET trades == [db.trades EXCEPT ![p] = trade]
           IN  db' = [db EXCEPT !.trades = trades,
                                !.balance = BalanceOf(IF flushed THEN trades ELSE db.trades)]
    /\ UNCHANGED <<terminalVars, connectorVars, link, tx>>

\* An update may name an exit price but cannot clear one.
EditTrade(p) ==
    /\ db.trades[p] # NoTrade
    /\ \E exit \in {db.trades[p].exit, clock + 1} :
           SaveTrade(p, Recomputed(db.trades[p], exit))

CloseTrade(p) ==
    /\ db.trades[p] # NoTrade
    /\ db.trades[p].status # "CLOSED"
    /\ SaveTrade(p, Recomputed(db.trades[p], clock + 1))

\* Mutants: the rows keep pointing at the deleted trade, or go with it.
DeleteAndKeepLinks(p) ==
    /\ tx.pc = "idle"
    /\ edits < MaxEdits
    /\ edits' = edits + 1
    /\ db.trades[p] # NoTrade
    /\ db' = [db EXCEPT !.trades[p] = NoTrade]
    /\ UNCHANGED <<terminalVars, connectorVars, link, tx>>
DeleteWithRows(p) ==
    /\ tx.pc = "idle"
    /\ edits < MaxEdits
    /\ edits' = edits + 1
    /\ db.trades[p] # NoTrade
    /\ db' = [db EXCEPT !.trades[p] = NoTrade, !.ledger = {r \in @ : r.trade # p}]
    /\ UNCHANGED <<terminalVars, connectorVars, link, tx>>

\* delete_trade: the ledger rows stay, their trade_id becomes null.
DeleteTrade(p) ==
    /\ tx.pc = "idle"
    /\ edits < MaxEdits
    /\ edits' = edits + 1
    /\ db.trades[p] # NoTrade
    /\ LET trades == [db.trades EXCEPT ![p] = NoTrade]
       IN  db' = [db EXCEPT
                    !.trades = trades,
                    !.ledger = {IF r.trade = p THEN [r EXCEPT !.trade = NoPosition] ELSE r :
                                    r \in @},
                    !.balance = BalanceOf(trades)]
    /\ UNCHANGED <<terminalVars, connectorVars, link, tx>>

-----------------------------------------------------------------------------
Terminal ==
    \/ \E p \in Positions : OpenPosition(p)
    \/ \E d \in Deals : ExecuteDeal(d)
    \/ \E d \in Deals : LeaveHistory(d)

ConnectorStep ==
    \/ ReadPositions
    \/ ReadDealsAndSend
    \/ Timeout
    \/ InstallToken
    \/ \E r \in requests : Lose(r)

Server ==
    \/ \E r \in requests : Reject(r)
    \/ \E r \in requests : BeginSync(r)
    \/ UpsertOpenPositions
    \/ \E d \in Deals : SkipProcessedDeal(d)
    \/ \E d \in Deals : CloseFromDeal(d)
    \/ Commit
    \/ Abort

User ==
    \/ CreateConnection
    \/ RegenerateConnection
    \/ RevokeConnection
    \/ \E p \in Positions : EditTrade(p)
    \/ \E p \in Positions : CloseTrade(p)
    \/ \E p \in Positions : DeleteTrade(p)

Next == Terminal \/ ConnectorStep \/ Server \/ User

Spec == Init /\ [][Next]_vars

\* What keeps running: the connector's timer and retries, and the server for as
\* long as requests reach it.  Nothing obliges the trader, the user or a fault.
Fairness ==
    /\ WF_vars(ReadPositions)
    /\ WF_vars(ReadDealsAndSend)
    /\ WF_vars(Timeout)
    /\ WF_vars(\E r \in requests : Reject(r))
    /\ SF_vars(\E r \in requests : BeginSync(r))
    /\ WF_vars(UpsertOpenPositions)
    /\ WF_vars(\E d \in Deals : SkipProcessedDeal(d) \/ CloseFromDeal(d))
    /\ WF_vars(Commit)

FairSpec == Spec /\ Fairness

-----------------------------------------------------------------------------
(* Safety                                                                  *)

HasTrade(trades, p) == trades[p] # NoTrade
IsClosed(trades, p) == HasTrade(trades, p) /\ trades[p].status = "CLOSED"
IsOpen(trades, p) == HasTrade(trades, p) /\ trades[p].status = "OPEN"

\* Every row of the processed ledger is a deal the broker executed, is backed by
\* source evidence of the same connection, and hangs on a living trade of the
\* deal's own position or on none: across reconnects, deletions and rollbacks.
LedgerIsBacked ==
    \A r \in db.ledger :
        /\ r.deal \in Executed
        /\ [conn |-> r.conn, deal |-> r.deal] \in db.source
        /\ r.trade # NoPosition => r.trade = PosOf[r.deal] /\ HasTrade(db.trades, r.trade)

\* A closing deal that reached the source ledger was also applied: the finding
\* closing_deal_not_processed of the reconciliation report cannot arise.
EvidenceIsProcessed ==
    \A s \in db.source : Processed(db.ledger, s.conn, s.deal)

\* The ledger holds a broker deal at most once, over all connections the account
\* ever had, although uq_mt5_processed_deals speaks of one connection only.
ProcessedOnce ==
    \A r1, r2 \in db.ledger : r1.deal = r2.deal => r1 = r2

CountsOnce(entries) == \A e1, e2 \in entries : e1.deal = e2.deal => e1 = e2

\* No realized P&L and no account balance contains a deal twice, whatever is sent
\* again, after whatever reconnects (Idempotency invariant 3).
NoDealCountedTwice ==
    \A p \in Positions :
        /\ HasTrade(db.trades, p) => CountsOnce(db.trades[p].pnl)
        /\ CountsOnce(db.balance[p])

\* The realized P&L of a trade is the sum over its processed deals: the finding
\* trade_economics_mismatch cannot arise (while the connection is not replaced
\* and the user leaves the trade alone).
PnlMatchesLedger ==
    \A p \in Positions :
        HasTrade(db.trades, p) => db.trades[p].pnl = Economics(db.ledger, p)

\* No trade shows the P&L of another position: the processed ledger stores "the
\* closing-deal economics applied to the normalized trade" of that position.
PnlOfOwnPosition ==
    \A p \in Positions :
        HasTrade(db.trades, p) =>
            \A e \in db.trades[p].pnl : e.deal # NoDeal => PosOf[e.deal] = p

\* The account balance counts exactly the realized P&L of the closed trades.
BalanceCountsClosedTrades == db.balance = BalanceOf(db.trades)

\* An open trade has no exit: nothing of an earlier close is left in its row.
OpenTradeHasNoExit ==
    \A p \in Positions : IsOpen(db.trades, p) => db.trades[p].exit = 0

\* "Open MT5 trades no longer in the position snapshot stay open until a closing
\* deal arrives": when a snapshot without the position has been applied and all
\* closing deals of the position have arrived, its trade is not open any more.
ArrivedFor(ledger, p) == {r.deal : r \in {s \in ledger : s.trade = p}}
ClosingDealClosesTrade ==
    tx.pc = "deals" /\ tx.todo = {} =>
        \A p \in opened \ tx.positions :
            DealsOf(p) \subseteq ArrivedFor(tx.work.ledger, p) => ~IsOpen(tx.work.trades, p)

\* The exit of a trade whose position is fully closed is its last closing deal.
ExitIsLastDeal ==
    \A p \in Positions :
        IsClosed(db.trades, p) /\ DealsOf(p) \subseteq ArrivedFor(db.ledger, p) =>
            \A d \in DealsOf(p) : dealTime[d] <= db.trades[p].exit

-----------------------------------------------------------------------------
(* What a step may never do                                                *)

\* Idempotency invariant 5: absence from a snapshot closes nothing.  A sync turns
\* a trade CLOSED only together with a closing deal of that position that was
\* never processed before, and that deal becomes the trade's external_deal_id.
ClosedOnlyByNewDeal ==
    [][\A p \in Positions :
          (edits' = edits /\ IsClosed(db'.trades, p) /\ ~IsClosed(db.trades, p)) =>
              \E r \in db'.ledger \ db.ledger :
                  r.trade = p /\ r.deal = db'.trades[p].deal]_vars

\* The account balance falls behind the closed trades only by the user's own save of a trade
\* (update_trade sums before it flushes): no sync, retry, rollback, reconnection or late
\* snapshot does it, and the next sync that writes anything puts it right.
BalanceLagsOnlyAfterEdit ==
    [][/\ BalanceCountsClosedTrades /\ edits' = edits => BalanceCountsClosedTrades'
       /\ tx.pc = "deals" /\ db' # db => BalanceCountsClosedTrades']_vars

\* Evidence is append-only: a source row goes only with its connection, and so
\* does a processed row, which otherwise can only lose its trade.
EvidenceIsAppendOnly ==
    [][link'.id = link.id =>
          /\ db.source \subseteq db'.source
          /\ \A r \in db.ledger :
                r \in db'.ledger \/ [r EXCEPT !.trade = NoPosition] \in db'.ledger]_vars

-----------------------------------------------------------------------------
(* Liveness                                                                *)

Connected == link.id > 0 /\ ~link.revoked /\ connector.token = link.token

\* While the connector stays connected, a position the broker has closed ends up
\* as a closed trade.
CloseIsRecorded ==
    \A p \in Positions :
        BrokerClosed(p) ~> (IsClosed(db.trades, p) \/ ~Connected)

\* A trade closed too early, while the broker still holds the position, does not
\* stay so: it is opened again or the broker closes the position too.
EarlyCloseHeals ==
    \A p \in Positions :
        (IsClosed(db.trades, p) /\ BrokerOpen(p)) ~>
            (IsOpen(db.trades, p) \/ BrokerClosed(p) \/ ~Connected)

-----------------------------------------------------------------------------
(* Why the evidence properties hold: the inductive invariant               *)

\* A database whose rows all belong to the account's only connection: no deal is
\* processed twice because create_connection leaves no row of an earlier one
\* (conn is the connection, done the deals the broker has executed).
Sound(base, conn, done) ==
    /\ \A r \in base.ledger :
          /\ r.conn = conn
          /\ r.deal \in done
          /\ [conn |-> r.conn, deal |-> r.deal] \in base.source
          /\ r.trade # NoPosition => r.trade = PosOf[r.deal] /\ HasTrade(base.trades, r.trade)
    /\ \A r1, r2 \in base.ledger : r1.deal = r2.deal => r1 = r2
    /\ \A s \in base.source : s.conn = conn
    /\ \A p \in Positions : HasTrade(base.trades, p) => CountsOnce(base.trades[p].pnl)

\* What the transaction in progress has done to the committed database so far.
Extends(base, work) ==
    /\ base.ledger \subseteq work.ledger
    /\ base.source \subseteq work.source
    /\ \A r \in work.ledger \ base.ledger : r.trade # NoPosition
    /\ \A p \in Positions : HasTrade(base.trades, p) => HasTrade(work.trades, p)
    /\ \A p \in Positions :
          IsClosed(work.trades, p) /\ ~IsClosed(base.trades, p) =>
              \E r \in work.ledger \ base.ledger :
                  r.trade = p /\ r.deal = work.trades[p].deal

\* The committed database and the one being written are both sound, and the deals
\* of the payload that are not in the processed ledger are the ones still to do.
SyncInvariant ==
    /\ Sound(db, link.id, Executed)
    /\ EvidenceIsProcessed
    /\ \A p \in Positions : CountsOnce(db.balance[p])
    /\ \A r \in requests : r.deals \subseteq Executed
    /\ tx.pc # "idle" =>
          /\ tx.conn = link.id
          /\ tx.todo \subseteq Executed
          /\ Sound(tx.work, link.id, Executed)
          /\ Extends(db, tx.work)
          /\ \A s \in tx.work.source :
                Processed(tx.work.ledger, s.conn, s.deal) \/ s.deal \in tx.todo
          /\ \A d \in tx.todo : [conn |-> link.id, deal |-> d] \in tx.work.source

\* The inductive invariant of the proofs: well-formed rows, which are sound.
IngestionIsSound == TypeOK /\ SyncInvariant

-----------------------------------------------------------------------------
(* What ingestion promises                                                 *)

Recorded(ledger) == {r.deal : r \in ledger}

Shown(trades) ==
    [p \in Positions |-> IF ~HasTrade(trades, p) THEN "none"
                         ELSE IF IsClosed(trades, p) THEN "closed" ELSE "open"]

Journal == INSTANCE TradeJournal WITH
    executed <- Executed, recorded <- Recorded(db.ledger), status <- Shown(db.trades)

\* Seen through the committed rows, all the requests, retries, transactions and
\* rollbacks are one journal that records every deal once per connection and
\* closes a trade only while recording a new deal of it.
ImplementsJournal == Journal!Spec

============================================================================
