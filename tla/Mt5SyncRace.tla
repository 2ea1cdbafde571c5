---------------------------- MODULE Mt5SyncRace ----------------------------
(***************************************************************************)
(* Several sync requests of one MT5 connection served at the same time.    *)
(*                                                                         *)
(* The connector gives up on a request after 20 seconds and posts the next *)
(* one, and the expert advisor and the companion may both run: apply_sync  *)
(* has then several sessions on the same rows.  Each is a transaction at   *)
(* READ COMMITTED over an ORM session that does not autoflush:             *)
(*                                                                         *)
(*   - before its first flush a session has written nothing and reads what *)
(*     the others have committed so far;                                   *)
(*   - the first flush updates last_seen_at of the connection row, which   *)
(*     locks it until the end of the transaction, so that other sessions   *)
(*     wait with their first flush, but not with their reads;              *)
(*   - every query reads at a moment of its own: a position's trade and    *)
(*     its processed deals are read apart, with a call for the conversion  *)
(*     rate between them, and so are the two queries about a deal;         *)
(*   - what was read before the flush may be stale by then: rows inserted  *)
(*     twice violate a unique constraint and fail the whole request, and   *)
(*     an UPDATE writes the columns that differ from the row as read.      *)
(*                                                                         *)
(* A session can therefore write over the P&L of a trade a sum without the *)
(* deals another has committed since: PnlMatchesLedger is false of this    *)
(* code, and its run shows how.                                            *)
(* A deadlock the database resolves (the order of the statements of a      *)
(* flush is not fixed) fails one of the requests, like any other fault.    *)
(* What a position or a deal does to a trade is taken from Mt5Sync.  The   *)
(* user, other connections and an expiring history are left out; deals are *)
(* applied in any order, of which the connectors use two.                  *)
(***************************************************************************)
EXTENDS Naturals, FiniteSets

CONSTANTS
    Positions, Deals, PosOf, NoDeal, NoTrade, NoPosition,   \* as in Mt5Sync
    Sessions,       \* the server's sessions: numbers
    Nobody,         \* holds the connection row when no session does
    MaxFaults       \* bound: requests that die before they commit

ASSUME PosOfAssumption == PosOf \in [Deals -> Positions]
ASSUME SentinelAssumption == NoDeal \notin Deals /\ NoPosition \notin Positions
ASSUME SessionsAssumption == Sessions \subseteq Nat /\ Nobody \notin Sessions
ASSUME FaultsAssumption == MaxFaults \in Nat

VARIABLES
    opened,     \* positions ever opened
    dealTime,   \* dealTime[d]: when d was executed, 0 if it was not yet
    clock,      \* time of the latest deal
    db,         \* committed trades, ledgers and account balance
    session,    \* the request each session serves
    lock,       \* the session that has updated the connection row
    faults      \* how many requests have died

vars == <<opened, dealTime, clock, db, session, lock, faults>>

\* The sequential model, for what one request with these open_ids does to a trade.
Sync(open_ids) == INSTANCE Mt5Sync WITH
    tx <- [positions |-> open_ids], expired <- {}, connector <- {}, requests <- {},
    link <- {}, edits <- 0, NewestFirst <- TRUE, Gap <- FALSE, HistoryExpires <- FALSE,
    Faults <- TRUE, MaxLate <- 0, MaxTokens <- 1, MaxEdits <- 0

Economics(ledger, p) == Sync({})!Economics(ledger, p)
BalanceOf(trades) == Sync({})!BalanceOf(trades)

-----------------------------------------------------------------------------
(* Rows and requests                                                       *)

\* The field conn of a ledger row, which would be the same in all of them, holds
\* the session that inserted it: a deal inserted twice is two rows.
LedgerRow == [conn : Sessions, deal : Deals, trade : Positions]
Knows(ledger, d) == \E r \in ledger : r.deal = d

Money == SUBSET Sync({})!Entry
Row == Sync({})!Trade \cup {NoTrade}
ASSUME NoTradeAssumption == NoTrade \notin Sync({})!Trade

Database ==
    [trades  : [Positions -> Row],
     ledger  : SUBSET LedgerRow,
     source  : SUBSET Deals,
     balance : [Positions -> Money]]

EmptyDatabase ==
    [trades  |-> [p \in Positions |-> NoTrade],
     ledger  |-> {},
     source  |-> {},
     balance |-> [p \in Positions |-> {}]]

\* The trade row of a position as it was read before a flush, on behalf of the
\* position itself (deal is NoDeal), with the P&L computed later, or of a closing deal.
Read == [position : Positions \cup {NoPosition}, deal : Deals \cup {NoDeal},
         row : Row, pnl : Money]
NothingRead == [position |-> NoPosition, deal |-> NoDeal, row |-> NoTrade, pnl |-> {}]

Session ==
    [pc       : {"idle", "arrived", "bars", "sources", "apply", "rate", "deal", "flush",
                 "commit"},
     open_ids : SUBSET Positions,         \* positions of the payload
     upserts  : SUBSET Positions,         \* those still to upsert
     deals    : SUBSET Deals,             \* closing deals of the payload still to apply
     fresh    : SUBSET Deals,             \* source rows added to the session
     loaded   : [Positions -> Money],     \* the account's balance as loaded
     sum      : [Positions -> Money],     \* and as computed at the end
     read     : Read,
     work     : Database]                 \* what the transaction has written

Idle ==
    [pc |-> "idle", open_ids |-> {}, upserts |-> {}, deals |-> {}, fresh |-> {},
     loaded |-> EmptyDatabase.balance, sum |-> EmptyDatabase.balance,
     read |-> NothingRead, work |-> EmptyDatabase]

TypeOK ==
    /\ opened \subseteq Positions
    /\ dealTime \in [Deals -> Nat]
    /\ clock \in Nat
    /\ db \in Database
    /\ session \in [Sessions -> Session]
    /\ lock \in Sessions \cup {Nobody}
    /\ faults \in 0 .. MaxFaults

Init ==
    /\ opened = {}
    /\ dealTime = [d \in Deals |-> 0]
    /\ clock = 0
    /\ db = EmptyDatabase
    /\ session = [s \in Sessions |-> Idle]
    /\ lock = Nobody
    /\ faults = 0

-----------------------------------------------------------------------------
(* The terminal, and the requests that reach the server                    *)

Executed == {d \in Deals : dealTime[d] > 0}
DealsOf(p) == {d \in Deals : PosOf[d] = p}
StillOpen == {p \in opened : ~(DealsOf(p) \subseteq Executed)}

OpenPosition(p) ==
    /\ p \notin opened
    /\ opened' = opened \cup {p}
    /\ UNCHANGED <<dealTime, clock, db, session, lock, faults>>

ExecuteDeal(d) ==
    /\ PosOf[d] \in opened
    /\ dealTime[d] = 0
    /\ clock' = clock + 1
    /\ dealTime' = [dealTime EXCEPT ![d] = clock + 1]
    /\ UNCHANGED <<opened, db, session, lock, faults>>

\* A snapshot is posted.  It is delayed for as long as its session does nothing.
Arrive(s) ==
    /\ session[s].pc = "idle"
    /\ session' = [session EXCEPT ![s] =
                      [Idle EXCEPT !.pc = "arrived", !.open_ids = StillOpen,
                                   !.upserts = StillOpen, !.deals = Executed]]
    /\ UNCHANGED <<opened, dealTime, clock, db, lock, faults>>

-----------------------------------------------------------------------------
(* apply_sync before its first flush                                       *)

\* What session s reads: its own transaction once it holds the connection row,
\* which keeps all others from writing.
View(s) == IF lock = s THEN session[s].work ELSE db

\* The account is loaded once and for all.  Requests with candles go on to
\* store_bars, which flushes.
LoadAccount(s) ==
    /\ session[s].pc = "arrived"
    /\ \E pc \in {"bars", "sources"} :
           session' = [session EXCEPT ![s].pc = pc, ![s].loaded = db.balance]
    /\ UNCHANGED <<opened, dealTime, clock, db, lock, faults>>

StoreBars(s) ==
    /\ session[s].pc = "bars"
    /\ lock = Nobody
    /\ lock' = s
    /\ session' = [session EXCEPT ![s].pc = "sources", ![s].work = db]
    /\ UNCHANGED <<opened, dealTime, clock, db, faults>>

\* The deals of the payload that are not in the source ledger yet will be added.
ReadSources(s) ==
    /\ session[s].pc = "sources"
    /\ session' = [session EXCEPT ![s].pc = "apply",
                                  ![s].fresh = session[s].deals \ View(s).source]
    /\ UNCHANGED <<opened, dealTime, clock, db, lock, faults>>

-----------------------------------------------------------------------------
(* The two loops                                                           *)

\* _upsert_open_position finds the trade, and asks for the conversion rate.
FindPosition(s, p) ==
    /\ session[s].pc = "apply"
    /\ p \in session[s].upserts
    /\ session' = [session EXCEPT
                     ![s].pc = "rate",
                     ![s].read = [position |-> p, deal |-> NoDeal,
                                  row |-> View(s).trades[p], pnl |-> {}]]
    /\ UNCHANGED <<opened, dealTime, clock, db, lock, faults>>

\* It then adds up the processed deals of that trade, up to its flush.
ReadEconomics(s) ==
    LET read == session[s].read
    IN  /\ session[s].pc = "rate"
        /\ session' = [session EXCEPT
              ![s].pc = "flush",
              ![s].read.pnl = Economics(View(s).ledger, Sync({})!LinkOf(read.row, read.position))]
        /\ UNCHANGED <<opened, dealTime, clock, db, lock, faults>>

\* _close_from_deal first looks whether the deal is processed already: then it is skipped.
InDealsLoop(s, d) ==
    /\ session[s].pc = "apply"
    /\ session[s].upserts = {}
    /\ d \in session[s].deals

SkipDeal(s, d) ==
    /\ InDealsLoop(s, d)
    /\ Knows(View(s).ledger, d)
    /\ session' = [session EXCEPT ![s].deals = @ \ {d}]
    /\ UNCHANGED <<opened, dealTime, clock, db, lock, faults>>

\* Mutant: a deal of a position that was never seen open is waited with.
TakeDealOfKnownTrade(s, d) ==
    /\ InDealsLoop(s, d)
    /\ ~Knows(View(s).ledger, d)
    /\ View(s).trades[PosOf[d]] # NoTrade
    /\ session' = [session EXCEPT
                     ![s].pc = "deal",
                     ![s].read = [position |-> PosOf[d], deal |-> d, row |-> NoTrade, pnl |-> {}]]
    /\ UNCHANGED <<opened, dealTime, clock, db, lock, faults>>

TakeDeal(s, d) ==
    /\ InDealsLoop(s, d)
    /\ ~Knows(View(s).ledger, d)
    /\ session' = [session EXCEPT
                     ![s].pc = "deal",
                     ![s].read = [position |-> PosOf[d], deal |-> d, row |-> NoTrade, pnl |-> {}]]
    /\ UNCHANGED <<opened, dealTime, clock, db, lock, faults>>

\* It then finds the trade, up to its flush.
FindDeal(s) ==
    /\ session[s].pc = "deal"
    /\ session' = [session EXCEPT
                     ![s].pc = "flush",
                     ![s].read.row = View(s).trades[session[s].read.position]]
    /\ UNCHANGED <<opened, dealTime, clock, db, lock, faults>>

-----------------------------------------------------------------------------
(* Flushes                                                                 *)

CanFlush(s) == lock \in {s, Nobody}

\* Mutant: no unique constraints on the two ledgers.
ConflictOfTrades(s) ==
    LET read == session[s].read
    IN  read.position # NoPosition /\ read.row = NoTrade
            /\ View(s).trades[read.position] # NoTrade
\* uq_mt5_source_deal, uq_mt5_processed_deals or uq_trades_mt5_position is violated
\* by what the session is about to insert.
Conflict(s) ==
    LET read == session[s].read
    IN  \/ lock # s /\ session[s].fresh \cap db.source # {}
        \/ read.deal # NoDeal /\ Knows(View(s).ledger, read.deal)
        \/ read.position # NoPosition /\ read.row = NoTrade
              /\ View(s).trades[read.position] # NoTrade

Flushed(s) == [View(s) EXCEPT !.source = @ \cup session[s].fresh]

\* A new row, or an UPDATE of the columns that differ from the row as read.
Saved(now, read, new) ==
    IF read = NoTrade THEN new
    ELSE [f \in DOMAIN new |-> IF new[f] # read[f] THEN new[f] ELSE now[f]]

\* The rest of _upsert_open_position.
FlushPosition(s) ==
    LET read == session[s].read
        p    == read.position
        new  == Sync({})!Upserted(read.row, read.pnl)
    IN  /\ session[s].pc = "flush"
        /\ read.deal = NoDeal
        /\ CanFlush(s)
        /\ ~Conflict(s)
        /\ lock' = s
        /\ session' = [session EXCEPT
                         ![s].pc = "apply",
                         ![s].upserts = @ \ {p},
                         ![s].read = NothingRead,
                         ![s].work = [Flushed(s) EXCEPT !.trades[p] = Saved(@, read.row, new)]]
        /\ UNCHANGED <<opened, dealTime, clock, db, faults>>

\* Mutant: the economics are read before the deal's own row is flushed (the session does
\* not autoflush).
FlushDealLate(s) ==
    LET read   == session[s].read
        p      == read.position
        fact   == [conn |-> s, deal |-> read.deal, trade |-> p]
        row    == IF read.row = NoTrade THEN Sync({})!NewTrade ELSE read.row
        pnl    == Economics(View(s).ledger, p)
        new    == Sync(session[s].open_ids)!Applied(row, pnl, read.deal)
    IN  /\ session[s].pc = "flush"
        /\ read.deal # NoDeal
        /\ CanFlush(s)
        /\ ~Conflict(s)
        /\ lock' = s
        /\ session' = [session EXCEPT
                         ![s].pc = "apply",
                         ![s].deals = @ \ {read.deal},
                         ![s].read = NothingRead,
                         ![s].work = [Flushed(s) EXCEPT !.ledger = @ \cup {fact},
                                                        !.trades[p] = Saved(@, read.row, new)]]
        /\ UNCHANGED <<opened, dealTime, clock, db, faults>>

\* The rest of _close_from_deal: the economics are read after the flush of the deal's own
\* row.  A trade that was read with this deal as its last goes another way (549), which
\* adds the same row and fails as well.
FlushDeal(s) ==
    LET read   == session[s].read
        p      == read.position
        ledger == View(s).ledger \cup {[conn |-> s, deal |-> read.deal, trade |-> p]}
        row    == IF read.row = NoTrade THEN Sync({})!NewTrade ELSE read.row
        new    == Sync(session[s].open_ids)!Applied(row, Economics(ledger, p), read.deal)
    IN  /\ session[s].pc = "flush"
        /\ read.deal # NoDeal
        /\ CanFlush(s)
        /\ ~Conflict(s)
        /\ lock' = s
        /\ session' = [session EXCEPT
                         ![s].pc = "apply",
                         ![s].deals = @ \ {read.deal},
                         ![s].read = NothingRead,
                         ![s].work = [Flushed(s) EXCEPT !.ledger = ledger,
                                                        !.trades[p] = Saved(@, read.row, new)]]
        /\ UNCHANGED <<opened, dealTime, clock, db, faults>>

\* refresh_account_balances: the sum over the closed trades the session sees.
Refresh(s) ==
    /\ session[s].pc = "apply"
    /\ session[s].upserts = {}
    /\ session[s].deals = {}
    /\ session' = [session EXCEPT ![s].pc = "commit", ![s].sum = BalanceOf(View(s).trades)]
    /\ UNCHANGED <<opened, dealTime, clock, db, lock, faults>>

\* Mutants: the sum is not written, and a commit before all deals are applied.
CommitWithoutSum(s) ==
    /\ session[s].pc = "commit"
    /\ CanFlush(s)
    /\ ~Conflict(s)
    /\ db' = Flushed(s)
    /\ lock' = Nobody
    /\ session' = [session EXCEPT ![s] = Idle]
    /\ UNCHANGED <<opened, dealTime, clock, faults>>
CommitEarly(s) ==
    /\ session[s].pc \in {"apply", "commit"}
    /\ CanFlush(s)
    /\ ~Conflict(s)
    /\ db' = Flushed(s)
    /\ lock' = Nobody
    /\ session' = [session EXCEPT ![s] = Idle]
    /\ UNCHANGED <<opened, dealTime, clock, faults>>

\* The balance is a column as any other: it is written when the sum differs from
\* what the session loaded at its start.
Commit(s) ==
    /\ session[s].pc = "commit"
    /\ CanFlush(s)
    /\ ~Conflict(s)
    /\ db' = [Flushed(s) EXCEPT !.balance = IF session[s].sum = session[s].loaded
                                              THEN @ ELSE session[s].sum]
    /\ lock' = Nobody
    /\ session' = [session EXCEPT ![s] = Idle]
    /\ UNCHANGED <<opened, dealTime, clock, faults>>

\* A violated constraint fails the request: nothing of it is committed, and the
\* next snapshot of the connector is the retry.
Fail(s) ==
    /\ session[s].pc \in {"flush", "commit"}
    /\ CanFlush(s)
    /\ Conflict(s)
    /\ lock' = Nobody
    /\ session' = [session EXCEPT ![s] = Idle]
    /\ UNCHANGED <<opened, dealTime, clock, db, faults>>

\* Mutant: the processed deals of a request that dies stay.
DieKeepingLedger(s) ==
    /\ faults < MaxFaults
    /\ faults' = faults + 1
    /\ session[s].pc # "idle"
    /\ lock' = IF lock = s THEN Nobody ELSE lock
    /\ db' = [db EXCEPT !.ledger = View(s).ledger]
    /\ session' = [session EXCEPT ![s] = Idle]
    /\ UNCHANGED <<opened, dealTime, clock>>

\* The process or a statement fails, or the database breaks a deadlock.
Die(s) ==
    /\ faults < MaxFaults
    /\ faults' = faults + 1
    /\ session[s].pc # "idle"
    /\ lock' = IF lock = s THEN Nobody ELSE lock
    /\ session' = [session EXCEPT ![s] = Idle]
    /\ UNCHANGED <<opened, dealTime, clock, db>>

-----------------------------------------------------------------------------
\* What the server does for a request that has arrived.
Serve(s) ==
    \/ LoadAccount(s)
    \/ StoreBars(s)
    \/ ReadSources(s)
    \/ \E p \in Positions : FindPosition(s, p)
    \/ ReadEconomics(s)
    \/ \E d \in Deals : SkipDeal(s, d)
    \/ \E d \in Deals : TakeDeal(s, d)
    \/ FindDeal(s)
    \/ FlushPosition(s)
    \/ FlushDeal(s)
    \/ Refresh(s)
    \/ Commit(s)
    \/ Fail(s)

Next ==
    \/ \E p \in Positions : OpenPosition(p)
    \/ \E d \in Deals : ExecuteDeal(d)
    \/ \E s \in Sessions : Arrive(s) \/ Serve(s) \/ Die(s)

\* Connectors keep posting, and the server serves: a session that waits for the
\* connection row gets it in the end although others come and go.
Fairness == \A s \in Sessions : WF_vars(Arrive(s)) /\ SF_vars(Serve(s))

Spec == Init /\ [][Next]_vars /\ Fairness

-----------------------------------------------------------------------------
(* Properties                                                              *)

HasTrade(p) == db.trades[p] # NoTrade

\* However requests overlap, no realized P&L and no balance counts a deal twice:
\* "The database must never double-count the deal" (docs/CANONICAL_TRADE_DATA.md:31).
NoDealCountedTwice ==
    \A p \in Positions :
        /\ HasTrade(p) => Sync({})!CountsOnce(db.trades[p].pnl)
        /\ Sync({})!CountsOnce(db.balance[p])

\* A closing deal in the source ledger was processed, by whichever request.
EvidenceIsProcessed == \A d \in db.source : Knows(db.ledger, d)

\* Whoever records a deal leaves its trade with the sum over all its processed deals,
\* those of other requests included, whatever the trade was when this request read it:
\* _close_from_deal reads the ledger again behind its first flush.
RecordingIsWhole ==
    [][\A r \in db'.ledger \ db.ledger :
          db'.trades[r.trade].pnl = Economics(db'.ledger, r.trade)]_vars

\* "a canonical trade's realized P&L [...] differs from the sum of its linked processed
\* closing deals" is an error of the reconciliation report (docs/MT5_RECONCILIATION.md:49).
\* A snapshot of the open position, delayed between its two reads, makes it: it writes a
\* sum without the deals that were committed since.
PnlMatchesLedger ==
    \A p \in Positions : HasTrade(p) => db.trades[p].pnl = Economics(db.ledger, p)

Journal == INSTANCE TradeJournal WITH
    executed <- Executed, recorded <- Sync({})!Recorded(db.ledger),
    status <- Sync({})!Shown(db.trades)

\* Overlapping requests are no more visible in the journal than sequential ones.
ImplementsJournal == Journal!Spec

\* "The connector can safely retry the failed request" (same line): whatever fails
\* whom, a deal that was executed is recorded in the end.
EveryDealIsRecorded == \A d \in Deals : d \in Executed ~> Knows(db.ledger, d)

\* A balance computed from trades that were out of date when it was written is
\* replaced in the end.
BalanceSettles == <>[](db.balance = BalanceOf(db.trades))

-----------------------------------------------------------------------------
(* Why the rows stay sound: the inductive invariant                        *)

IsClosed(trades, p) == Sync({})!IsClosed(trades, p)
CountsOnce(entries) == Sync({})!CountsOnce(entries)

\* A row of the trade of p made from these rows of the ledger: its P&L counts none but
\* them, and it was last touched by one of their deals.
MadeOf(ledger, p, row) ==
    /\ row.pnl \subseteq Economics(ledger, p)
    /\ row.deal # NoDeal => Knows(ledger, row.deal)

\* Every processed row is one of a kind and hangs on the trade of its position; a trade
\* is made of its rows; and every source row is processed, or still to be (the deals
\* `todo`).
Sound(base, todo) ==
    /\ \A r \in base.ledger :
          r.deal \in Executed /\ r.trade = PosOf[r.deal] /\ base.trades[r.trade] # NoTrade
    /\ \A r1, r2 \in base.ledger : r1.deal = r2.deal => r1 = r2
    /\ \A p \in Positions : base.trades[p] # NoTrade => MadeOf(base.ledger, p, base.trades[p])
    /\ \A p \in Positions : CountsOnce(base.balance[p])
    /\ \A d \in base.source : d \in todo \/ Knows(base.ledger, d)

\* What a transaction makes of the committed rows: none goes, and a trade is closed only
\* with a new row.
Extends(base, work) ==
    /\ base.ledger \subseteq work.ledger
    /\ \A p \in Positions : base.trades[p] # NoTrade => work.trades[p] # NoTrade
    /\ \A p \in Positions :
          IsClosed(work.trades, p) /\ ~IsClosed(base.trades, p) =>
              \E r \in work.ledger \ base.ledger : r.trade = p

\* A trade that gets a new row gets the sum of all its rows.
Whole(base, work) ==
    \A r \in work.ledger \ base.ledger :
        work.trades[r.trade].pnl = Economics(work.ledger, r.trade)

\* What was read before a flush, however old: the trade read still exists and is made of
\* rows that are still there; the P&L computed counts none but rows that are still there.
ReadIsUsable(read, state, view) ==
    /\ read.position \in Positions
    /\ read.row # NoTrade =>
          view.trades[read.position] # NoTrade /\ MadeOf(view.ledger, read.position, read.row)
    /\ read.pnl \subseteq Economics(view.ledger, read.position)
    /\ read.deal = NoDeal =>
          /\ read.position \in state.upserts
          /\ read.row = NoTrade => read.pnl = {}
    /\ read.deal # NoDeal =>
          read.deal \in state.deals /\ read.position = PosOf[read.deal] /\ state.upserts = {}

\* A session that holds the connection row has a transaction, which writes sound rows; a
\* source row it is about to insert is of a deal still to apply, or that someone applied.
SessionIsSound(state, holds) ==
    LET view == IF holds THEN state.work ELSE db
    IN  /\ state.deals \subseteq Executed
        /\ \A d \in state.fresh : d \in state.deals \/ Knows(view.ledger, d)
        /\ \A p \in Positions : CountsOnce(state.sum[p])
        /\ state.pc \in {"rate", "deal", "flush"} => ReadIsUsable(state.read, state, view)
        /\ state.pc = "rate" => state.read.deal = NoDeal
        /\ state.pc = "deal" => state.read.deal # NoDeal
        /\ state.pc = "commit" => state.deals = {}
        /\ holds =>
              /\ state.pc \in {"sources", "apply", "rate", "deal", "flush", "commit"}
              /\ Sound(state.work, state.deals)
              /\ Extends(db, state.work)
              /\ Whole(db, state.work)
              /\ state.upserts # {} => state.work.ledger = db.ledger

RaceInvariant ==
    Sound(db, {}) /\ \A s \in Sessions : SessionIsSound(session[s], lock = s)

\* The rows at every moment, whatever the transactions interleave: well formed, no P&L with
\* a deal that is not recorded or recorded twice, evidence and ledger agreeing, in what is
\* committed and in what is not.  A P&L may lack deals (PnlMatchesLedger).
RowsAreSound == TypeOK /\ RaceInvariant

=============================================================================
