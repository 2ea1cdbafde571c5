--------------------------- MODULE Mt5SyncProofs ---------------------------
(***************************************************************************)
(* Theorems about Mt5Sync for every set of positions and deals, every deal *)
(* order and every bound, and their proofs.                                *)
(***************************************************************************)
EXTENDS Mt5Sync, FiniteSetTheorems, TLAPS

USE PosOfAssumption, SentinelAssumption, FlagAssumption, BoundAssumption

-----------------------------------------------------------------------------
(* What the helpers of apply_sync return                                   *)

\* The economics of a trade are ledger entries.
LEMMA EconomicsType ==
    ASSUME NEW ledger \in SUBSET ProcessedDeal, NEW p
    PROVE  Economics(ledger, p) \in SUBSET Entry
BY DEF Economics, ProcessedDeal, Entry

\* A position of the snapshot always leaves a trade row.
LEMMA UpsertedType ==
    ASSUME NEW trade \in Trade \cup {NoTrade}, NEW pnl \in SUBSET Entry
    PROVE  Upserted(trade, pnl) \in Trade
<1> DEFINE row == IF trade = NoTrade THEN NewTrade ELSE trade
<1>1. row \in Trade
  BY DEF NewTrade, Trade
<1>2. PartialOpen(row, pnl, row.deal) \in Trade
  BY <1>1 DEF PartialOpen, Trade
<1>3. [row EXCEPT !.status = "OPEN"] \in Trade
  BY <1>1 DEF Trade
<1> QED
  BY <1>2, <1>3 DEF Upserted

\* So does a closing deal.
LEMMA AppliedType ==
    ASSUME dealTime \in [Deals -> Nat],
           NEW trade \in Trade, NEW pnl \in SUBSET Entry, NEW d \in Deals
    PROVE  Applied(trade, pnl, d) \in Trade
BY DEF Applied, PartialOpen, Closed, Trade

\* The balance is made of the realized P&L of trades.
LEMMA BalanceOfType ==
    ASSUME NEW trades \in [Positions -> Trade \cup {NoTrade}]
    PROVE  BalanceOf(trades) \in [Positions -> SUBSET Entry]
<1> SUFFICES ASSUME NEW p \in Positions,
                    trades[p] # NoTrade
             PROVE  trades[p].pnl \in SUBSET Entry
  BY DEF BalanceOf
<1> QED
  BY DEF Trade

\* The database before the first connection.
LEMMA EmptyDatabaseType == EmptyDatabase \in Database
BY DEF EmptyDatabase, Database

LEMMA NoTransactionType == NoTransaction \in Transaction
BY EmptyDatabaseType DEF NoTransaction, Transaction

\* Recomputing a trade from its exit keeps it a trade.
LEMMA RecomputedType ==
    ASSUME NEW trade \in Trade, NEW exit \in Nat
    PROVE  Recomputed(trade, exit) \in Trade
<1>1. {JournalEntry} \in SUBSET Entry
  BY DEF JournalEntry, Entry
<1>2. (IF exit > 0 THEN {JournalEntry} ELSE {}) \in SUBSET Entry
  BY <1>1
<1>3. (IF exit > 0 THEN "CLOSED" ELSE "OPEN") \in {"OPEN", "CLOSED"}
  OBVIOUS
<1> QED
  BY <1>2, <1>3 DEF Recomputed, Trade

-----------------------------------------------------------------------------
(* Type correctness                                                        *)

LEMMA InitType == Init => TypeOK
BY EmptyDatabaseType, NoTransactionType
   DEF Init, TypeOK, Connector, Link

LEMMA TerminalType == TypeOK /\ Terminal => TypeOK'
<1> SUFFICES ASSUME TypeOK, Terminal PROVE TypeOK'
  OBVIOUS
<1>1. ASSUME NEW p \in Positions, OpenPosition(p) PROVE TypeOK'
  BY <1>1 DEF OpenPosition, TypeOK, connectorVars
<1>2. ASSUME NEW d \in Deals, ExecuteDeal(d) PROVE TypeOK'
  BY <1>2 DEF ExecuteDeal, TypeOK, connectorVars
<1>3. ASSUME NEW d \in Deals, LeaveHistory(d) PROVE TypeOK'
  BY <1>3 DEF LeaveHistory, TypeOK, connectorVars
<1> QED
  BY <1>1, <1>2, <1>3 DEF Terminal

LEMMA ConnectorType == TypeOK /\ ConnectorStep => TypeOK'
<1> SUFFICES ASSUME TypeOK, ConnectorStep PROVE TypeOK'
  OBVIOUS
<1>1. CASE ReadPositions
  BY <1>1 DEF ReadPositions, TypeOK, Connector, terminalVars
<1>2. CASE ReadDealsAndSend
  <2> DEFINE posted == [token |-> connector.token, positions |-> connector.positions,
                        deals |-> Executed \ expired, awaited |-> TRUE]
  <2>0. posted \in Request
    BY DEF TypeOK, Connector, Request, Executed
  <2>1. requests' \in SUBSET Request
    <3>1. requests \subseteq Request /\ requests' = requests \cup {posted}
      BY <1>2 DEF ReadDealsAndSend, TypeOK
    <3> HIDE DEF posted
    <3> QED
      BY <2>0, <3>1
  <2>2. connector' \in Connector
    <3>1. /\ connector \in Connector
          /\ connector' = [connector EXCEPT !.pc = "waiting", !.positions = {}]
      BY <1>2 DEF ReadDealsAndSend, TypeOK
    <3> QED
      BY ONLY <3>1 DEF Connector
  <2> QED
    BY <1>2, <2>1, <2>2 DEF ReadDealsAndSend, TypeOK, terminalVars
<1>3. CASE Timeout
  <2>0. ASSUME NEW r \in requests PROVE [r EXCEPT !.awaited = FALSE] \in Request
    BY DEF TypeOK, Request
  <2>1. requests' \in SUBSET Request
    BY <1>3, <2>0 DEF Timeout
  <2>2. tx' \in Transaction /\ connector' \in Connector
    BY <1>3 DEF Timeout, TypeOK, Connector, Transaction
  <2> QED
    BY <1>3, <2>1, <2>2 DEF Timeout, TypeOK, terminalVars
<1>4. CASE InstallToken
  BY <1>4 DEF InstallToken, TypeOK, Connector, Link, terminalVars
<1>5. ASSUME NEW r \in requests, Lose(r) PROVE TypeOK'
  BY <1>5 DEF Lose, TypeOK, terminalVars
<1> QED
  BY <1>1, <1>2, <1>3, <1>4, <1>5 DEF ConnectorStep

\* Answering the connector leaves it well-formed.
LEMMA RespondType ==
    ASSUME connector \in Connector, NEW awaited, Respond(awaited)
    PROVE  connector' \in Connector
BY DEF Respond, Connector

LEMMA ServerType == TypeOK /\ Server => TypeOK'
<1> SUFFICES ASSUME TypeOK, Server PROVE TypeOK'
  OBVIOUS
<1>1. ASSUME NEW r \in requests, Reject(r) PROVE TypeOK'
  BY <1>1, RespondType DEF Reject, TypeOK, terminalVars
<1>2. ASSUME NEW r \in requests, BeginSync(r) PROVE TypeOK'
  <2>1. r \in Request
    BY DEF TypeOK
  <2>2. {[conn |-> link.id, deal |-> d] : d \in r.deals} \in SUBSET SourceDeal
    BY <2>1 DEF TypeOK, Link, Request, SourceDeal
  <2>3. [db EXCEPT !.source = @ \cup {[conn |-> link.id, deal |-> d] : d \in r.deals}]
            \in Database
    BY <2>2 DEF TypeOK, Database
  <2>4. tx' \in Transaction
    BY <1>2, <2>1, <2>3 DEF BeginSync, TypeOK, Transaction, Request, Link
  <2> QED
    BY <1>2, <2>4 DEF BeginSync, TypeOK, terminalVars
<1>3. CASE UpsertOpenPositions
  <2> DEFINE trades == [p \in Positions |->
                          IF p \in tx.positions
                            THEN Upserted(tx.work.trades[p],
                                          Economics(tx.work.ledger,
                                                    LinkOf(tx.work.trades[p], p)))
                            ELSE tx.work.trades[p]]
  <2>1. tx.work.trades \in [Positions -> Trade \cup {NoTrade}]
        /\ tx.work.ledger \in SUBSET ProcessedDeal
    BY DEF TypeOK, Transaction, Database
  <2>2. trades \in [Positions -> Trade \cup {NoTrade}]
    BY <2>1, EconomicsType, UpsertedType
  <2>3. tx' = [tx EXCEPT !.pc = "deals", !.work.trades = trades]
    BY <1>3 DEF UpsertOpenPositions
  <2>4. tx' \in Transaction
    BY <2>2, <2>3 DEF TypeOK, Transaction, Database
  <2> QED
    BY <1>3, <2>4 DEF UpsertOpenPositions, TypeOK, terminalVars, connectorVars
<1>4. ASSUME NEW d \in Deals, SkipProcessedDeal(d) PROVE TypeOK'
  BY <1>4 DEF SkipProcessedDeal, TypeOK, Transaction, terminalVars, connectorVars
<1>5. ASSUME NEW d \in Deals, CloseFromDeal(d) PROVE TypeOK'
  <2> DEFINE p == PosOf[d]
             trade == IF tx.work.trades[p] = NoTrade THEN NewTrade ELSE tx.work.trades[p]
             ledger == tx.work.ledger \cup {[conn |-> tx.conn, deal |-> d, trade |-> p]}
  <2>1. p \in Positions /\ trade \in Trade
    BY DEF TypeOK, Transaction, Database, NewTrade, Trade
  <2>2. ledger \in SUBSET ProcessedDeal
    BY <2>1 DEF TypeOK, Transaction, Database, ProcessedDeal
  <2>3. Applied(trade, Economics(ledger, p), d) \in Trade
    BY <2>1, <2>2, EconomicsType, AppliedType DEF TypeOK
  <2>4. tx' = [tx EXCEPT !.todo = @ \ {d}, !.work.ledger = ledger,
                         !.work.trades[p] = Applied(trade, Economics(ledger, p), d)]
    BY <1>5 DEF CloseFromDeal
  <2> HIDE DEF p, trade, ledger
  <2>5. tx' \in Transaction
    BY <2>1, <2>2, <2>3, <2>4 DEF TypeOK, Transaction, Database
  <2> QED
    BY <1>5, <2>5 DEF CloseFromDeal, TypeOK, terminalVars, connectorVars
<1>6. CASE Commit
  <2>1. tx.work \in Database
    BY DEF TypeOK, Transaction
  <2>2. BalanceOf(tx.work.trades) \in [Positions -> SUBSET Entry]
    BY <2>1, BalanceOfType DEF Database
  <2>3. db' \in Database
    BY <1>6, <2>1, <2>2 DEF Commit, Database
  <2> QED
    BY <1>6, <2>3, NoTransactionType, RespondType DEF Commit, TypeOK, terminalVars
<1>7. CASE Abort
  BY <1>7, NoTransactionType, RespondType DEF Abort, TypeOK, terminalVars
<1> QED
  BY <1>1, <1>2, <1>3, <1>4, <1>5, <1>6, <1>7 DEF Server

LEMMA SaveTradeType ==
    ASSUME TypeOK, NEW p \in Positions, NEW trade \in Trade, SaveTrade(p, trade)
    PROVE  TypeOK'
<1> DEFINE trades == [db.trades EXCEPT ![p] = trade]
<1>1. PICK flushed \in BOOLEAN :
        db' = [db EXCEPT !.trades = trades,
                         !.balance = BalanceOf(IF flushed THEN trades ELSE db.trades)]
  BY DEF SaveTrade
<1>2. /\ db.trades \in [Positions -> Trade \cup {NoTrade}]
      /\ trades \in [Positions -> Trade \cup {NoTrade}]
  BY DEF TypeOK, Database
<1>3. BalanceOf(IF flushed THEN trades ELSE db.trades) \in [Positions -> SUBSET Entry]
  BY <1>2, BalanceOfType
<1>4. db' \in Database
  BY <1>1, <1>2, <1>3 DEF TypeOK, Database
<1> QED
  BY <1>4 DEF SaveTrade, TypeOK, terminalVars, connectorVars

LEMMA UserType == TypeOK /\ User => TypeOK'
<1> SUFFICES ASSUME TypeOK, User PROVE TypeOK'
  OBVIOUS
<1>1. CASE CreateConnection
  <2>1. db' \in Database
    BY <1>1 DEF CreateConnection, WithoutConnection, TypeOK, Database
  <2>2. link' \in Link
    BY <1>1 DEF CreateConnection, TypeOK, Link
  <2> QED
    BY <1>1, <2>1, <2>2 DEF CreateConnection, TypeOK, terminalVars, connectorVars
<1>2. CASE RegenerateConnection
  BY <1>2 DEF RegenerateConnection, TypeOK, Link, terminalVars, connectorVars
<1>3. CASE RevokeConnection
  BY <1>3 DEF RevokeConnection, TypeOK, Link, terminalVars, connectorVars
<1>4. ASSUME NEW p \in Positions, EditTrade(p) PROVE TypeOK'
  <2>1. db.trades[p] \in Trade
    BY <1>4 DEF EditTrade, TypeOK, Database
  <2>2. PICK exit \in {db.trades[p].exit, clock + 1} :
            SaveTrade(p, Recomputed(db.trades[p], exit))
    BY <1>4 DEF EditTrade
  <2>3. exit \in Nat
    BY <2>1, <2>2 DEF TypeOK, Trade
  <2>4. Recomputed(db.trades[p], exit) \in Trade
    BY <2>1, <2>3, RecomputedType
  <2> QED
    BY <2>2, <2>4, SaveTradeType
<1>5. ASSUME NEW p \in Positions, CloseTrade(p) PROVE TypeOK'
  <2>1. db.trades[p] \in Trade
    BY <1>5 DEF CloseTrade, TypeOK, Database
  <2>2. Recomputed(db.trades[p], clock + 1) \in Trade
    BY <2>1, RecomputedType DEF TypeOK
  <2> QED
    BY <1>5, <2>2, SaveTradeType DEF CloseTrade
<1>6. ASSUME NEW p \in Positions, DeleteTrade(p) PROVE TypeOK'
  <2> DEFINE trades == [db.trades EXCEPT ![p] = NoTrade]
             ledger == {IF r.trade = p THEN [r EXCEPT !.trade = NoPosition] ELSE r :
                            r \in db.ledger}
  <2>1. trades \in [Positions -> Trade \cup {NoTrade}]
    BY DEF TypeOK, Database
  <2>2. ledger \in SUBSET ProcessedDeal
    BY DEF TypeOK, Database, ProcessedDeal
  <2>3. db' = [db EXCEPT !.trades = trades, !.ledger = ledger,
                         !.balance = BalanceOf(trades)]
    BY <1>6 DEF DeleteTrade
  <2>4. db' \in Database
    BY <2>1, <2>2, <2>3, BalanceOfType DEF TypeOK, Database
  <2> QED
    BY <1>6, <2>4 DEF DeleteTrade, TypeOK, terminalVars, connectorVars
<1> QED
  BY <1>1, <1>2, <1>3, <1>4, <1>5, <1>6 DEF User

\* Every state has the shape TypeOK gives it.
THEOREM TypeCorrect == Spec => []TypeOK
<1>1. TypeOK /\ UNCHANGED vars => TypeOK'
  BY DEF TypeOK, vars
<1>2. TypeOK /\ [Next]_vars => TypeOK'
  BY <1>1, TerminalType, ConnectorType, ServerType, UserType DEF Next
<1> QED
  BY InitType, <1>2, PTL DEF Spec

-----------------------------------------------------------------------------
(* Sound databases stay sound under what the code does to them             *)

\* A ledger without a deal twice has no P&L that counts a deal twice.
LEMMA EconomicsCountsOnce ==
    ASSUME NEW ledger, NEW p,
           \A r1, r2 \in ledger : r1.deal = r2.deal => r1 = r2
    PROVE  CountsOnce(Economics(ledger, p))
BY DEF CountsOnce, Economics

\* More deals at the broker make no difference.
LEMMA SoundMonotone ==
    ASSUME NEW base, NEW conn, NEW done, NEW more, done \subseteq more,
           Sound(base, conn, done)
    PROVE  Sound(base, conn, more)
BY DEF Sound

\* create_connection leaves no evidence row, and no trade changes.
LEMMA SoundWithoutConnection ==
    ASSUME NEW base \in Database, NEW conn, NEW next, NEW done,
           Sound(base, conn, done)
    PROVE  /\ WithoutConnection(base, conn).ledger = {}
           /\ WithoutConnection(base, conn).source = {}
           /\ WithoutConnection(base, conn).balance = base.balance
           /\ Sound(WithoutConnection(base, conn), next, done)
<1> DEFINE rest == WithoutConnection(base, conn)
<1>1. rest.ledger = {} /\ rest.source = {} /\ rest.trades = base.trades
      /\ rest.balance = base.balance
  BY DEF WithoutConnection, Database, Sound
<1> QED
  BY <1>1 DEF Sound

\* New source rows of the connection.
LEMMA SoundAddSource ==
    ASSUME NEW base \in Database, NEW conn, NEW done, NEW deals,
           Sound(base, conn, done)
    PROVE  Sound([base EXCEPT !.source = @ \cup {[conn |-> conn, deal |-> d] : d \in deals}],
                 conn, done)
BY DEF Sound, Database

\* New trade rows that keep what is linked and count no deal twice.
LEMMA SoundNewTrades ==
    ASSUME NEW base \in Database, NEW conn, NEW done, NEW trades,
           Sound(base, conn, done),
           \A p \in Positions : HasTrade(base.trades, p) => HasTrade(trades, p),
           \A p \in Positions : HasTrade(trades, p) => CountsOnce(trades[p].pnl)
    PROVE  Sound([base EXCEPT !.trades = trades], conn, done)
<1> DEFINE new == [base EXCEPT !.trades = trades]
<1>1. /\ new.trades = trades /\ new.ledger = base.ledger /\ new.source = base.source
      /\ \A r \in base.ledger : r.trade \in Positions \cup {NoPosition}
  BY DEF Database, ProcessedDeal
<1> HIDE DEF new
<1> QED
  BY <1>1 DEF Sound

\* The balance depends on nothing but the trades, and counts no deal twice.
LEMMA BalanceCountsOnce ==
    ASSUME NEW trades,
           \A p \in Positions : HasTrade(trades, p) => CountsOnce(trades[p].pnl)
    PROVE  \A p \in Positions : CountsOnce(BalanceOf(trades)[p])
BY DEF BalanceOf, HasTrade, CountsOnce

\* Sound does not look at the balance.
LEMMA SoundNewBalance ==
    ASSUME NEW base \in Database, NEW conn, NEW done, NEW balance,
           Sound(base, conn, done)
    PROVE  Sound([base EXCEPT !.balance = balance], conn, done)
BY DEF Sound, Database

-----------------------------------------------------------------------------
(* The invariant                                                           *)

LEMMA InitInvariant == Init => SyncInvariant
BY DEF Init, SyncInvariant, Sound, EvidenceIsProcessed, EmptyDatabase, NoTransaction,
       HasTrade, CountsOnce

\* Steps that touch neither database, connection nor request keep the invariant
\* as long as executed deals stay executed.
LEMMA QuietStep ==
    ASSUME SyncInvariant,
           db' = db, link'.id = link.id, Executed \subseteq Executed',
           tx' = tx \/ (tx' = [tx EXCEPT !.awaited = FALSE] /\ tx \in Transaction),
           \A r \in requests' : r.deals \subseteq Executed'
    PROVE  SyncInvariant'
<1>1. Sound(db, link.id, Executed')
  BY SoundMonotone DEF SyncInvariant
<1>2. tx.pc # "idle" => Sound(tx.work, link.id, Executed')
  BY SoundMonotone DEF SyncInvariant
<1>3. /\ tx'.pc = tx.pc /\ tx'.conn = tx.conn /\ tx'.todo = tx.todo
      /\ tx'.work = tx.work
  BY DEF Transaction
<1> QED
  BY <1>1, <1>2, <1>3 DEF SyncInvariant, EvidenceIsProcessed

LEMMA TerminalInvariant == TypeOK /\ SyncInvariant /\ Terminal => SyncInvariant'
<1> SUFFICES ASSUME TypeOK, SyncInvariant, Terminal PROVE SyncInvariant'
  OBVIOUS
<1>1. ASSUME NEW p \in Positions, OpenPosition(p) PROVE SyncInvariant'
  <2>1. Executed' = Executed
    BY <1>1 DEF OpenPosition, Executed
  <2> QED
    BY <1>1, <2>1, QuietStep DEF OpenPosition, connectorVars, SyncInvariant
<1>2. ASSUME NEW d \in Deals, ExecuteDeal(d) PROVE SyncInvariant'
  <2>1. Executed \subseteq Executed'
    BY <1>2 DEF ExecuteDeal, Executed, TypeOK
  <2> QED
    BY <1>2, <2>1, QuietStep DEF ExecuteDeal, connectorVars, SyncInvariant
<1>3. ASSUME NEW d \in Deals, LeaveHistory(d) PROVE SyncInvariant'
  <2>1. Executed' = Executed
    BY <1>3 DEF LeaveHistory, Executed
  <2> QED
    BY <1>3, <2>1, QuietStep DEF LeaveHistory, connectorVars, SyncInvariant
<1> QED
  BY <1>1, <1>2, <1>3 DEF Terminal

LEMMA ConnectorInvariant == TypeOK /\ SyncInvariant /\ ConnectorStep => SyncInvariant'
<1> SUFFICES ASSUME TypeOK, SyncInvariant, ConnectorStep PROVE SyncInvariant'
  OBVIOUS
<1>0. ConnectorStep => Executed' = Executed /\ db' = db /\ link' = link
  BY DEF ConnectorStep, ReadPositions, ReadDealsAndSend, Timeout, InstallToken, Lose,
         terminalVars, Executed
<1>1. CASE ReadPositions
  BY <1>0, <1>1, QuietStep DEF ReadPositions, SyncInvariant
<1>2. CASE ReadDealsAndSend
  <2>1. \A r \in requests' : r \in requests \/ r.deals = Executed \ expired
    BY <1>2 DEF ReadDealsAndSend
  <2>2. tx' = tx
    BY <1>2 DEF ReadDealsAndSend
  <2> QED
    BY <1>0, <2>1, <2>2, QuietStep DEF SyncInvariant
<1>3. CASE Timeout
  <2>1. \A r \in requests' : r.deals \subseteq Executed
    BY <1>3 DEF Timeout, SyncInvariant, TypeOK, Request
  <2>2. tx' = [tx EXCEPT !.awaited = FALSE] /\ tx \in Transaction
    BY <1>3 DEF Timeout, TypeOK
  <2> QED
    BY <1>0, <2>1, <2>2, QuietStep
<1>4. CASE InstallToken
  BY <1>0, <1>4, QuietStep DEF InstallToken, SyncInvariant
<1>5. ASSUME NEW r \in requests, Lose(r) PROVE SyncInvariant'
  BY <1>0, <1>5, QuietStep DEF Lose, SyncInvariant
<1> QED
  BY <1>1, <1>2, <1>3, <1>4, <1>5 DEF ConnectorStep

\* Ending the transaction without writing anything keeps the invariant.
LEMMA IdleStep ==
    ASSUME SyncInvariant,
           db' = db, link' = link, dealTime' = dealTime,
           tx' = NoTransaction, requests' = requests
    PROVE  SyncInvariant'
BY DEF SyncInvariant, EvidenceIsProcessed, NoTransaction, Executed

\* So does a step of the transaction that keeps its part of the invariant.
LEMMA WorkStep ==
    ASSUME SyncInvariant,
           db' = db, link' = link, dealTime' = dealTime,
           \A r \in requests' : r.deals \subseteq Executed,
           tx'.conn = link.id,
           tx'.todo \subseteq Executed,
           Sound(tx'.work, link.id, Executed),
           Extends(db, tx'.work),
           \A s \in tx'.work.source :
               Processed(tx'.work.ledger, s.conn, s.deal) \/ s.deal \in tx'.todo,
           \A d \in tx'.todo : [conn |-> link.id, deal |-> d] \in tx'.work.source
    PROVE  SyncInvariant'
<1>1. Executed' = Executed
  BY DEF Executed
<1> QED
  BY <1>1 DEF SyncInvariant, EvidenceIsProcessed

LEMMA BeginSyncInvariant ==
    ASSUME TypeOK, SyncInvariant, NEW r \in requests, BeginSync(r)
    PROVE  SyncInvariant'
<1> DEFINE rows == {[conn |-> link.id, deal |-> d] : d \in r.deals}
           work == [db EXCEPT !.source = @ \cup rows]
<1>1. /\ tx'.conn = link.id /\ tx'.todo = r.deals /\ tx'.work = work
      /\ r.deals \subseteq Executed
      /\ requests' = requests \ {r}
  <2>1. r.deals \subseteq Executed
    BY DEF SyncInvariant
  <2>2. /\ requests' = requests \ {r}
        /\ tx' = [pc |-> "positions", awaited |-> r.awaited, conn |-> link.id,
                  positions |-> r.positions, todo |-> r.deals, work |-> work]
    BY DEF BeginSync
  <2> HIDE DEF work
  <2> QED
    BY <2>1, <2>2
<1>2. /\ work.ledger = db.ledger /\ work.trades = db.trades
      /\ work.source = db.source \cup rows
  <2>1. db \in Database
    BY DEF TypeOK
  <2> HIDE DEF rows
  <2> QED
    BY ONLY <2>1 DEF Database, work
<1>3. Sound(work, link.id, Executed)
  BY SoundAddSource DEF TypeOK, SyncInvariant
<1>4. Extends(db, work)
  BY <1>2 DEF Extends
<1>5. \A s \in work.source : Processed(work.ledger, s.conn, s.deal) \/ s.deal \in r.deals
  BY <1>2 DEF SyncInvariant, EvidenceIsProcessed
<1>6. \A d \in r.deals : [conn |-> link.id, deal |-> d] \in work.source
  BY <1>2
<1> HIDE DEF work
<1> QED
  BY <1>1, <1>3, <1>4, <1>5, <1>6, WorkStep DEF BeginSync, SyncInvariant, terminalVars

LEMMA UpsertInvariant ==
    ASSUME TypeOK, SyncInvariant, UpsertOpenPositions
    PROVE  SyncInvariant'
<1> DEFINE old == tx.work.trades
           econ(p) == Economics(tx.work.ledger, LinkOf(old[p], p))
           trades == [p \in Positions |-> IF p \in tx.positions THEN Upserted(old[p], econ(p))
                                                                 ELSE old[p]]
<1>1. /\ Sound(tx.work, link.id, Executed) /\ Extends(db, tx.work)
      /\ tx.conn = link.id /\ tx.todo \subseteq Executed
      /\ \A s \in tx.work.source :
            Processed(tx.work.ledger, s.conn, s.deal) \/ s.deal \in tx.todo
      /\ \A d \in tx.todo : [conn |-> link.id, deal |-> d] \in tx.work.source
  BY DEF UpsertOpenPositions, SyncInvariant
<1>2. /\ tx.work \in Database
      /\ old \in [Positions -> Trade \cup {NoTrade}]
      /\ tx.work.ledger \in SUBSET ProcessedDeal
  BY DEF TypeOK, Transaction, Database
<1>3. ASSUME NEW p \in Positions
      PROVE  econ(p) \in SUBSET Entry /\ CountsOnce(econ(p))
  BY <1>1, <1>2, EconomicsType, EconomicsCountsOnce DEF Sound
<1>4. ASSUME NEW p \in Positions
      PROVE  Upserted(old[p], econ(p)) \in Trade /\ Upserted(old[p], econ(p)) # NoTrade
  BY <1>2, <1>3, UpsertedType, NoTradeAssumption
<1>5. ASSUME NEW p \in Positions
      PROVE  /\ Upserted(old[p], econ(p)).status = "OPEN"
             /\ CountsOnce(Upserted(old[p], econ(p)).pnl)
  <2>1. HasTrade(old, p) => CountsOnce(old[p].pnl)
    BY <1>1 DEF Sound
  <2>2. old[p] # NoTrade => old[p] \in Trade
    BY <1>2
  <2> DEFINE row == IF old[p] = NoTrade THEN NewTrade ELSE old[p]
  <2>3. CountsOnce(row.pnl) /\ row \in Trade
    BY <2>1, <2>2 DEF HasTrade, NewTrade, CountsOnce, Trade
  <2> HIDE DEF row
  <2>4. CASE econ(p) # {}
    <3>1. Upserted(old[p], econ(p)) = PartialOpen(row, econ(p), row.deal)
      BY <2>4 DEF Upserted, row
    <3> QED
      BY <1>3, <3>1 DEF PartialOpen
  <2>5. CASE econ(p) = {}
    <3>1. Upserted(old[p], econ(p)) = [row EXCEPT !.status = "OPEN"]
      BY <2>5 DEF Upserted, row
    <3> QED
      BY <2>3, <3>1 DEF Trade
  <2> QED
    BY <2>4, <2>5
<1>6. \A p \in Positions : /\ HasTrade(old, p) => HasTrade(trades, p)
                           /\ HasTrade(trades, p) => CountsOnce(trades[p].pnl)
                           /\ IsClosed(trades, p) => IsClosed(old, p) /\ trades[p] = old[p]
  BY <1>1, <1>4, <1>5 DEF HasTrade, IsClosed, Sound
<1> HIDE DEF trades
<1>7. Sound([tx.work EXCEPT !.trades = trades], link.id, Executed)
  BY <1>1, <1>2, <1>6, SoundNewTrades
<1>8. /\ tx'.work = [tx.work EXCEPT !.trades = trades]
      /\ tx'.work.ledger = tx.work.ledger /\ tx'.work.source = tx.work.source
      /\ tx'.work.trades = trades
      /\ tx'.conn = tx.conn /\ tx'.todo = tx.todo
  BY DEF UpsertOpenPositions, TypeOK, Transaction, Database, trades
<1>9. Extends(db, tx'.work)
  BY <1>1, <1>6, <1>8 DEF Extends
<1>10. Sound(tx'.work, link.id, Executed)
  BY <1>7, <1>8
<1> QED
  BY <1>1, <1>8, <1>9, <1>10, WorkStep
  DEF UpsertOpenPositions, SyncInvariant, terminalVars, connectorVars

LEMMA SkipInvariant ==
    ASSUME TypeOK, SyncInvariant, NEW d \in Deals, SkipProcessedDeal(d)
    PROVE  SyncInvariant'
<1>1. /\ Sound(tx.work, link.id, Executed) /\ Extends(db, tx.work)
      /\ tx.conn = link.id /\ tx.todo \subseteq Executed
      /\ \A s \in tx.work.source :
            Processed(tx.work.ledger, s.conn, s.deal) \/ s.deal \in tx.todo
      /\ \A e \in tx.todo : [conn |-> link.id, deal |-> e] \in tx.work.source
      /\ Processed(tx.work.ledger, link.id, d)
  BY DEF SkipProcessedDeal, SyncInvariant
<1>2. tx'.conn = tx.conn /\ tx'.todo = tx.todo \ {d} /\ tx'.work = tx.work
  BY DEF SkipProcessedDeal, TypeOK, Transaction
<1>3. \A s \in tx.work.source : s.conn = link.id
  BY <1>1 DEF Sound
<1> QED
  BY <1>1, <1>2, <1>3, WorkStep
  DEF SkipProcessedDeal, SyncInvariant, terminalVars, connectorVars

\* The row of a deal that was not processed before leaves the database sound,
\* when its source row is there and its trade exists.
LEMMA SoundNewRow ==
    ASSUME NEW base, NEW conn, NEW done, NEW d \in done, NEW p \in Positions, NEW trades,
           Sound(base, conn, done),
           [conn |-> conn, deal |-> d] \in base.source,
           ~Processed(base.ledger, conn, d),
           p = PosOf[d], HasTrade(trades, p),
           \A r \in base.ledger : r.trade \in Positions \cup {NoPosition},
           \A q \in Positions : HasTrade(base.trades, q) => HasTrade(trades, q),
           \A q \in Positions : HasTrade(trades, q) => CountsOnce(trades[q].pnl),
           NEW new,
           new.ledger = base.ledger \cup {[conn |-> conn, deal |-> d, trade |-> p]},
           new.source = base.source, new.trades = trades
    PROVE  /\ Sound(new, conn, done)
           /\ [conn |-> conn, deal |-> d, trade |-> p] \notin base.ledger
           /\ Processed(new.ledger, conn, d)
<1> DEFINE row == [conn |-> conn, deal |-> d, trade |-> p]
<1>1. row.conn = conn /\ row.deal = d /\ row.trade = p
  OBVIOUS
<1>2. new.ledger = base.ledger \cup {row}
  OBVIOUS
<1>3. \A r \in base.ledger : r.conn = conn /\ r.deal # d
  BY DEF Sound, Processed
<1> HIDE DEF row
<1>4. row \notin base.ledger /\ Processed(new.ledger, conn, d)
  BY <1>1, <1>2, <1>3 DEF Processed
<1>5. \A r1, r2 \in new.ledger : r1.deal = r2.deal => r1 = r2
  BY <1>1, <1>2, <1>3 DEF Sound
<1>6. ASSUME NEW r \in new.ledger
      PROVE  /\ r.conn = conn
             /\ r.deal \in done
             /\ [conn |-> r.conn, deal |-> r.deal] \in new.source
             /\ r.trade # NoPosition => r.trade = PosOf[r.deal] /\ HasTrade(new.trades, r.trade)
  <2>1. CASE r = row
    BY <1>1, <2>1
  <2>2. CASE r \in base.ledger
    BY <2>2 DEF Sound
  <2> QED
    BY <1>2, <2>1, <2>2
<1> QED
  BY <1>4, <1>5, <1>6 DEF Sound, row

LEMMA CloseFromDealInvariant ==
    ASSUME TypeOK, SyncInvariant, NEW d \in Deals, CloseFromDeal(d)
    PROVE  SyncInvariant'
<1> DEFINE p == PosOf[d]
           old == tx.work.trades
           trade == IF old[p] = NoTrade THEN NewTrade ELSE old[p]
           row == [conn |-> tx.conn, deal |-> d, trade |-> p]
           ledger == tx.work.ledger \cup {row}
           new == Applied(trade, Economics(ledger, p), d)
           trades == [old EXCEPT ![p] = new]
<1>1. /\ Sound(tx.work, link.id, Executed) /\ Extends(db, tx.work)
      /\ tx.conn = link.id /\ tx.todo \subseteq Executed
      /\ \A s \in tx.work.source :
            Processed(tx.work.ledger, s.conn, s.deal) \/ s.deal \in tx.todo
      /\ \A e \in tx.todo : [conn |-> link.id, deal |-> e] \in tx.work.source
      /\ d \in tx.todo /\ ~Processed(tx.work.ledger, tx.conn, d)
  BY DEF CloseFromDeal, NextInPayload, SyncInvariant
<1>2. /\ tx.work \in Database /\ p \in Positions
      /\ old \in [Positions -> Trade \cup {NoTrade}]
      /\ trade \in Trade
      /\ ledger \in SUBSET ProcessedDeal
      /\ \A r \in tx.work.ledger : r.trade \in Positions \cup {NoPosition}
  BY DEF TypeOK, Transaction, Database, ProcessedDeal, NewTrade, Trade
<1>3. /\ tx'.conn = tx.conn /\ tx'.todo = tx.todo \ {d}
      /\ tx'.work.ledger = ledger /\ tx'.work.trades = trades
      /\ tx'.work.source = tx.work.source
  BY DEF CloseFromDeal, TypeOK, Transaction, Database
<1>4. \A r1, r2 \in ledger : r1.deal = r2.deal => r1 = r2
  <2>1. row.deal = d /\ \A r \in tx.work.ledger : r.deal # d
    BY <1>1 DEF Sound, Processed
  <2>2. \A r1, r2 \in tx.work.ledger : r1.deal = r2.deal => r1 = r2
    BY <1>1 DEF Sound
  <2> HIDE DEF row
  <2> QED
    BY <2>1, <2>2
<1>5. CountsOnce(Economics(ledger, p)) /\ Economics(ledger, p) \in SUBSET Entry
  BY <1>2, <1>4, EconomicsType, EconomicsCountsOnce
<1>6. CountsOnce(trade.pnl)
  BY <1>1, <1>2 DEF Sound, HasTrade, NewTrade, CountsOnce
<1>7. new \in Trade /\ new # NoTrade
  <2>1. dealTime \in [Deals -> Nat]
    BY DEF TypeOK
  <2> HIDE DEF trade, ledger
  <2> QED
    BY <1>2, <1>5, <2>1, AppliedType, NoTradeAssumption
<1>8. /\ CountsOnce(new.pnl)
      /\ new.status = "CLOSED" => (new = trade \/ new.deal = d)
  <2> HIDE DEF trade, ledger
  <2> QED
    BY <1>5, <1>6 DEF Applied, PartialOpen, Closed
<1>9. new.status = "CLOSED" => new.deal = d
  <2> HIDE DEF trade, ledger
  <2> QED
    BY DEF Applied, PartialOpen, Closed
<1> HIDE DEF new, trade
<1>10. trades[p] = new /\ \A q \in Positions : q # p => trades[q] = old[q]
  BY <1>2
<1> HIDE DEF trades
<1>11. \A q \in Positions : /\ HasTrade(old, q) => HasTrade(trades, q)
                            /\ HasTrade(trades, q) => CountsOnce(trades[q].pnl)
  BY <1>1, <1>7, <1>8, <1>10 DEF HasTrade, Sound
<1>12. HasTrade(trades, p)
  BY <1>7, <1>10 DEF HasTrade
<1>13. /\ Sound(tx'.work, link.id, Executed)
       /\ row \notin tx.work.ledger
       /\ Processed(tx'.work.ledger, link.id, d)
  <2> DEFINE before == tx.work
             after == tx'.work
             done == Executed
  <2>1. /\ Sound(before, link.id, done) /\ d \in done /\ p \in Positions
        /\ [conn |-> link.id, deal |-> d] \in before.source
        /\ ~Processed(before.ledger, link.id, d)
        /\ \A r \in before.ledger : r.trade \in Positions \cup {NoPosition}
        /\ \A q \in Positions : HasTrade(before.trades, q) => HasTrade(trades, q)
        /\ \A q \in Positions : HasTrade(trades, q) => CountsOnce(trades[q].pnl)
        /\ HasTrade(trades, p)
    BY <1>1, <1>2, <1>11, <1>12
  <2>2. /\ after.ledger = before.ledger \cup {[conn |-> link.id, deal |-> d, trade |-> p]}
        /\ after.source = before.source /\ after.trades = trades
    BY <1>1, <1>3
  <2>3. row = [conn |-> link.id, deal |-> d, trade |-> p] /\ p = PosOf[d]
    BY <1>1
  <2> HIDE DEF before, after, done, row, ledger, p
  <2>4. /\ Sound(after, link.id, done)
        /\ row \notin before.ledger
        /\ Processed(after.ledger, link.id, d)
    BY ONLY <2>1, <2>2, <2>3, SoundNewRow
  <2> QED
    BY <2>4 DEF before, after, done
<1>14. row.trade = p /\ row.deal = d /\ ledger = tx.work.ledger \cup {row}
  OBVIOUS
<1> HIDE DEF row, ledger
<1>15. Extends(db, tx'.work)
  <2>1. db.ledger \subseteq ledger /\ db.source \subseteq tx'.work.source
    BY <1>1, <1>3, <1>14 DEF Extends
  <2>2. ASSUME NEW q \in Positions, IsClosed(trades, q), ~IsClosed(db.trades, q)
        PROVE  \E r \in ledger \ db.ledger : r.trade = q /\ r.deal = trades[q].deal
    <3>1. CASE q = p
      <4>1. row \in ledger \ db.ledger
        BY <1>1, <1>13, <1>14 DEF Extends
      <4> QED
        BY <1>9, <1>10, <1>14, <2>2, <3>1, <4>1 DEF IsClosed
    <3>2. CASE q # p
      <4>1. IsClosed(old, q) /\ trades[q] = old[q]
        BY <1>10, <2>2, <3>2 DEF IsClosed, HasTrade
      <4> QED
        BY <1>1, <1>14, <2>2, <4>1 DEF Extends
    <3> QED
      BY <3>1, <3>2
  <2>3. \A r \in ledger \ db.ledger : r.trade # NoPosition
    BY <1>1, <1>2, <1>14 DEF Extends
  <2>4. \A q \in Positions : HasTrade(db.trades, q) => HasTrade(trades, q)
    BY <1>1, <1>11 DEF Extends
  <2> QED
    BY <1>3, <2>1, <2>2, <2>3, <2>4 DEF Extends
<1>16. \A s \in tx'.work.source :
          Processed(tx'.work.ledger, s.conn, s.deal) \/ s.deal \in tx'.todo
  <2> SUFFICES ASSUME NEW s \in tx.work.source
               PROVE  Processed(ledger, s.conn, s.deal) \/ s.deal \in tx.todo \ {d}
    BY <1>3
  <2>1. s.conn = link.id
    BY <1>1 DEF Sound
  <2>2. Processed(tx.work.ledger, s.conn, s.deal) => Processed(ledger, s.conn, s.deal)
    BY <1>14 DEF Processed
  <2> QED
    BY <1>1, <1>3, <1>13, <2>1, <2>2
<1>17. \A e \in tx'.todo : [conn |-> link.id, deal |-> e] \in tx'.work.source
  BY <1>1, <1>3
<1>18. /\ db' = db /\ link' = link /\ dealTime' = dealTime
       /\ \A r \in requests' : r.deals \subseteq Executed
  BY DEF CloseFromDeal, SyncInvariant, terminalVars, connectorVars
<1> QED
  BY <1>1, <1>3, <1>13, <1>15, <1>16, <1>17, <1>18, WorkStep

LEMMA CommitInvariant ==
    ASSUME TypeOK, SyncInvariant, Commit
    PROVE  SyncInvariant'
<1> DEFINE balance == BalanceOf(tx.work.trades)
           new == [tx.work EXCEPT !.balance = balance]
<1>1. /\ Sound(tx.work, link.id, Executed)
      /\ \A s \in tx.work.source : Processed(tx.work.ledger, s.conn, s.deal)
      /\ tx.work \in Database
  BY DEF Commit, SyncInvariant, TypeOK, Transaction
<1>2. /\ new.ledger = tx.work.ledger /\ new.source = tx.work.source
      /\ new.balance = balance
  BY <1>1 DEF Database
<1>3. \A p \in Positions : CountsOnce(balance[p])
  BY <1>1, BalanceCountsOnce DEF Sound
<1>4. Sound(new, link.id, Executed)
  BY <1>1, SoundNewBalance
<1>5. db' = new /\ tx'.pc = "idle"
  BY DEF Commit, NoTransaction
<1>6. link' = link /\ requests' = requests /\ Executed' = Executed
  BY DEF Commit, terminalVars, Executed
<1> HIDE DEF new, balance
<1> QED
  BY <1>1, <1>2, <1>3, <1>4, <1>5, <1>6 DEF SyncInvariant, EvidenceIsProcessed

LEMMA ServerInvariant == TypeOK /\ SyncInvariant /\ Server => SyncInvariant'
<1> SUFFICES ASSUME TypeOK, SyncInvariant, Server PROVE SyncInvariant'
  OBVIOUS
<1>1. ASSUME NEW r \in requests, Reject(r) PROVE SyncInvariant'
  <2>1. Executed' = Executed /\ tx' = tx
    BY <1>1 DEF Reject, Executed, terminalVars
  <2> QED
    BY <1>1, <2>1, QuietStep DEF Reject, SyncInvariant
<1>2. ASSUME NEW r \in requests, BeginSync(r) PROVE SyncInvariant'
  BY <1>2, BeginSyncInvariant
<1>3. CASE UpsertOpenPositions
  BY <1>3, UpsertInvariant
<1>4. ASSUME NEW d \in Deals, SkipProcessedDeal(d) PROVE SyncInvariant'
  BY <1>4, SkipInvariant
<1>5. ASSUME NEW d \in Deals, CloseFromDeal(d) PROVE SyncInvariant'
  BY <1>5, CloseFromDealInvariant
<1>6. CASE Commit
  BY <1>6, CommitInvariant
<1>7. CASE Abort
  BY <1>7, IdleStep DEF Abort, terminalVars
<1> QED
  BY <1>1, <1>2, <1>3, <1>4, <1>5, <1>6, <1>7 DEF Server

\* A change of the committed database between two transactions.
LEMMA BetweenSyncs ==
    ASSUME SyncInvariant, tx.pc = "idle",
           tx' = tx, requests' = requests, dealTime' = dealTime,
           Sound(db', link'.id, Executed),
           \A s \in db'.source : Processed(db'.ledger, s.conn, s.deal),
           \A p \in Positions : CountsOnce(db'.balance[p])
    PROVE  SyncInvariant'
<1>1. Executed' = Executed
  BY DEF Executed
<1> QED
  BY <1>1 DEF SyncInvariant, EvidenceIsProcessed

LEMMA SaveTradeInvariant ==
    ASSUME TypeOK, SyncInvariant, NEW p \in Positions, NEW trade \in Trade,
           CountsOnce(trade.pnl), SaveTrade(p, trade)
    PROVE  SyncInvariant'
<1> DEFINE trades == [db.trades EXCEPT ![p] = trade]
<1>1. PICK flushed \in BOOLEAN :
          db' = [db EXCEPT !.trades = trades,
                           !.balance = BalanceOf(IF flushed THEN trades ELSE db.trades)]
  BY DEF SaveTrade
<1> DEFINE mid == [db EXCEPT !.trades = trades]
           balance == BalanceOf(IF flushed THEN trades ELSE db.trades)
<1>2. /\ db \in Database /\ mid \in Database
      /\ trade # NoTrade
      /\ Sound(db, link.id, Executed)
      /\ \A s \in db.source : Processed(db.ledger, s.conn, s.deal)
  BY NoTradeAssumption DEF TypeOK, SyncInvariant, EvidenceIsProcessed, Database
<1>3. \A q \in Positions : /\ HasTrade(db.trades, q) => HasTrade(trades, q)
                           /\ HasTrade(trades, q) => CountsOnce(trades[q].pnl)
                           /\ HasTrade(db.trades, q) => CountsOnce(db.trades[q].pnl)
  BY <1>2 DEF HasTrade, Sound, Database
<1>4. Sound(mid, link.id, Executed)
  BY <1>2, <1>3, SoundNewTrades
<1>5. \A q \in Positions : CountsOnce(balance[q])
  BY <1>3, BalanceCountsOnce
<1>6. /\ db'.ledger = db.ledger /\ db'.source = db.source /\ db'.balance = balance
      /\ db' = [mid EXCEPT !.balance = balance]
  BY <1>1, <1>2 DEF Database
<1> HIDE DEF mid, balance
<1>7. Sound(db', link.id, Executed)
  BY <1>2, <1>4, <1>6, SoundNewBalance
<1> QED
  BY <1>2, <1>5, <1>6, <1>7, BetweenSyncs
  DEF SaveTrade, terminalVars, connectorVars

LEMMA DeleteTradeInvariant ==
    ASSUME TypeOK, SyncInvariant, NEW p \in Positions, DeleteTrade(p)
    PROVE  SyncInvariant'
<1> DEFINE trades == [db.trades EXCEPT ![p] = NoTrade]
           unlinked(r) == IF r.trade = p THEN [r EXCEPT !.trade = NoPosition] ELSE r
           ledger == {unlinked(r) : r \in db.ledger}
<1>1. /\ db \in Database /\ Sound(db, link.id, Executed)
      /\ \A s \in db.source : Processed(db.ledger, s.conn, s.deal)
      /\ db.ledger \in SUBSET ProcessedDeal
  BY DEF TypeOK, SyncInvariant, EvidenceIsProcessed, Database
<1>2. /\ db'.trades = trades /\ db'.ledger = ledger /\ db'.source = db.source
      /\ db'.balance = BalanceOf(trades)
  BY <1>1 DEF DeleteTrade, Database
<1>3. ASSUME NEW r \in db.ledger
      PROVE  /\ unlinked(r).conn = r.conn /\ unlinked(r).deal = r.deal
             /\ unlinked(r).trade # p
             /\ unlinked(r).trade # NoPosition => unlinked(r).trade = r.trade
  BY <1>1 DEF ProcessedDeal
<1>4. /\ \A q \in Positions \ {p} : HasTrade(db.trades, q) => HasTrade(trades, q)
      /\ \A q \in Positions : HasTrade(trades, q) => CountsOnce(trades[q].pnl)
  BY <1>1 DEF HasTrade, Sound, Database
<1>5. \A q \in Positions : CountsOnce(BalanceOf(trades)[q])
  BY <1>4, BalanceCountsOnce
<1> HIDE DEF trades, unlinked
<1>6. ASSUME NEW r \in db.ledger
      PROVE  /\ unlinked(r).conn = link.id
             /\ unlinked(r).deal \in Executed
             /\ [conn |-> unlinked(r).conn, deal |-> unlinked(r).deal] \in db.source
             /\ unlinked(r).trade # NoPosition =>
                  unlinked(r).trade = PosOf[unlinked(r).deal] /\ HasTrade(trades, unlinked(r).trade)
  <2>1. /\ r.conn = link.id /\ r.deal \in Executed
        /\ [conn |-> r.conn, deal |-> r.deal] \in db.source
        /\ r.trade # NoPosition => r.trade = PosOf[r.deal] /\ HasTrade(db.trades, r.trade)
    BY <1>1 DEF Sound
  <2>2. r.trade \in Positions \cup {NoPosition}
    BY <1>1 DEF ProcessedDeal
  <2> QED
    BY <1>3, <1>4, <2>1, <2>2
<1>7. \A r1, r2 \in ledger : r1.deal = r2.deal => r1 = r2
  <2>1. \A r1, r2 \in db.ledger : r1.deal = r2.deal => r1 = r2
    BY <1>1 DEF Sound
  <2> QED
    BY <1>3, <2>1
<1>8. Sound(db', link.id, Executed)
  BY <1>1, <1>2, <1>4, <1>6, <1>7 DEF Sound
<1>9. \A s \in db'.source : Processed(db'.ledger, s.conn, s.deal)
  BY <1>1, <1>2, <1>3 DEF Processed
<1> QED
  BY <1>2, <1>5, <1>8, <1>9, BetweenSyncs
  DEF DeleteTrade, terminalVars, connectorVars

LEMMA UserInvariant == TypeOK /\ SyncInvariant /\ User => SyncInvariant'
<1> SUFFICES ASSUME TypeOK, SyncInvariant, User PROVE SyncInvariant'
  OBVIOUS
<1>1. CASE CreateConnection
  <2>1. db \in Database /\ Sound(db, link.id, Executed)
    BY DEF TypeOK, SyncInvariant
  <2>2. /\ db'.ledger = {} /\ db'.source = {} /\ db'.balance = db.balance
        /\ Sound(db', link'.id, Executed)
    BY <1>1, <2>1, SoundWithoutConnection DEF CreateConnection
  <2> QED
    BY <1>1, <2>2, BetweenSyncs
    DEF CreateConnection, SyncInvariant, terminalVars, connectorVars
<1>2. CASE RegenerateConnection
  <2>1. link'.id = link.id /\ Executed' = Executed
    BY <1>2 DEF RegenerateConnection, TypeOK, Link, Executed, terminalVars
  <2> QED
    BY <1>2, <2>1, QuietStep DEF RegenerateConnection, SyncInvariant, connectorVars
<1>3. CASE RevokeConnection
  <2>1. link'.id = link.id /\ Executed' = Executed
    BY <1>3 DEF RevokeConnection, TypeOK, Link, Executed, terminalVars
  <2> QED
    BY <1>3, <2>1, QuietStep DEF RevokeConnection, SyncInvariant, connectorVars
<1>4. ASSUME NEW p \in Positions, NEW exit \in Nat, db.trades[p] # NoTrade,
             SaveTrade(p, Recomputed(db.trades[p], exit))
      PROVE  SyncInvariant'
  <2>1. db.trades[p] \in Trade
    BY <1>4 DEF TypeOK, Database
  <2>2. Recomputed(db.trades[p], exit) \in Trade
    BY <1>4, <2>1, RecomputedType
  <2>3. CountsOnce(Recomputed(db.trades[p], exit).pnl)
    BY <2>1 DEF Recomputed, Trade, CountsOnce
  <2> QED
    BY <1>4, <2>2, <2>3, SaveTradeInvariant
<1>5. ASSUME NEW p \in Positions, EditTrade(p) PROVE SyncInvariant'
  <2>1. db.trades[p].exit \in Nat /\ clock + 1 \in Nat
    BY <1>5 DEF EditTrade, TypeOK, Database, Trade
  <2> QED
    BY <1>4, <1>5, <2>1 DEF EditTrade
<1>6. ASSUME NEW p \in Positions, CloseTrade(p) PROVE SyncInvariant'
  <2>1. clock + 1 \in Nat
    BY DEF TypeOK
  <2> QED
    BY <1>4, <1>6, <2>1 DEF CloseTrade
<1>7. ASSUME NEW p \in Positions, DeleteTrade(p) PROVE SyncInvariant'
  BY <1>7, DeleteTradeInvariant
<1> QED
  BY <1>1, <1>2, <1>3, <1>5, <1>6, <1>7 DEF User

\* SyncInvariant holds in every reachable state: apply_sync, the connection
\* service and the trade service keep the ledgers and the trades consistent.
THEOREM SyncInvariantHolds == Spec => []SyncInvariant
<1>1. TypeOK /\ SyncInvariant /\ UNCHANGED vars => SyncInvariant'
  BY DEF SyncInvariant, EvidenceIsProcessed, Executed, vars
<1>2. TypeOK /\ SyncInvariant /\ [Next]_vars => SyncInvariant'
  BY <1>1, TerminalInvariant, ConnectorInvariant, ServerInvariant, UserInvariant DEF Next
<1> QED
  BY InitInvariant, <1>2, TypeCorrect, PTL DEF Spec

\* Types and rows together, as TLC checks them.
THEOREM IngestionStaysSound == Spec => []IngestionIsSound
BY TypeCorrect, SyncInvariantHolds, PTL DEF IngestionIsSound

-----------------------------------------------------------------------------
(* What follows for every state                                            *)

\* A deal is in the processed ledger at most once, over all connections.
THEOREM DealsAreProcessedOnce == Spec => []ProcessedOnce
<1>1. SyncInvariant => ProcessedOnce
  BY DEF SyncInvariant, Sound, ProcessedOnce
<1> QED
  BY <1>1, SyncInvariantHolds, PTL

\* No P&L and no balance counts a deal twice.
THEOREM DealsAreCountedOnce == Spec => []NoDealCountedTwice
<1>1. SyncInvariant => NoDealCountedTwice
  BY DEF SyncInvariant, Sound, NoDealCountedTwice
<1> QED
  BY <1>1, SyncInvariantHolds, PTL

\* Processed rows are backed by executed deals, source rows and living trades.
THEOREM ProcessedRowsAreBacked == Spec => []LedgerIsBacked
<1>1. SyncInvariant => LedgerIsBacked
  BY DEF SyncInvariant, Sound, LedgerIsBacked
<1> QED
  BY <1>1, SyncInvariantHolds, PTL

\* A closing deal in the source ledger is in the processed ledger.
THEOREM NoEvidenceIsLeftBehind == Spec => []EvidenceIsProcessed
<1>1. SyncInvariant => EvidenceIsProcessed
  BY DEF SyncInvariant
<1> QED
  BY <1>1, SyncInvariantHolds, PTL

-----------------------------------------------------------------------------
(* What follows for every step                                             *)

\* Which steps write the committed database.
LEMMA Writers ==
    ASSUME Next
    PROVE  \/ db' = db /\ link'.id = link.id
           \/ Commit
           \/ CreateConnection
           \/ \E p \in Positions : EditTrade(p) \/ CloseTrade(p) \/ DeleteTrade(p)
           \/ RegenerateConnection
<1>1. Terminal \/ ConnectorStep => db' = db /\ link' = link
  BY DEF Terminal, ConnectorStep, OpenPosition, ExecuteDeal, LeaveHistory, ReadPositions,
         ReadDealsAndSend, Timeout, InstallToken, Lose
<1>2. Server => (db' = db /\ link' = link) \/ Commit
  BY DEF Server, Reject, BeginSync, UpsertOpenPositions, SkipProcessedDeal, CloseFromDeal,
         Abort
<1>3. RevokeConnection => db' = db /\ link'.id = link.id
  BY DEF RevokeConnection
<1> QED
  BY <1>1, <1>2, <1>3 DEF Next, User

\* A commit publishes what the transaction wrote.
LEMMA CommitWrites ==
    ASSUME TypeOK, SyncInvariant, Commit
    PROVE  /\ db'.ledger = tx.work.ledger
           /\ db'.source = tx.work.source
           /\ db'.trades = tx.work.trades
           /\ Extends(db, tx.work)
<1>1. tx.work \in Database
  BY DEF TypeOK, Transaction
<1>2. Extends(db, tx.work)
  BY DEF Commit, SyncInvariant
<1> QED
  BY <1>1, <1>2 DEF Commit, Database

\* A sync closes a trade only together with a new closing deal of its position.
THEOREM OnlyNewDealsClose == Spec => ClosedOnlyByNewDeal
<1> DEFINE Step ==
             \A p \in Positions :
                (edits' = edits /\ IsClosed(db'.trades, p) /\ ~IsClosed(db.trades, p)) =>
                    \E r \in db'.ledger \ db.ledger :
                        r.trade = p /\ r.deal = db'.trades[p].deal
<1>1. ASSUME TypeOK, SyncInvariant, Next PROVE Step
  <2>1. db' = db => Step
    BY DEF IsClosed
  <2>2. CASE Commit
    BY <1>1, <2>2, CommitWrites DEF Extends
  <2>3. CASE CreateConnection
    <3>1. db'.trades = db.trades
      BY <2>3 DEF CreateConnection, WithoutConnection, TypeOK, Database
    <3> QED
      BY <3>1
  <2>4. CASE RegenerateConnection
    BY <2>1, <2>4 DEF RegenerateConnection
  <2>5. ASSUME NEW p \in Positions, EditTrade(p) \/ CloseTrade(p) \/ DeleteTrade(p)
        PROVE  edits' # edits
    <3>1. edits' = edits + 1 /\ edits \in Nat
      BY <1>1, <2>5 DEF EditTrade, CloseTrade, SaveTrade, DeleteTrade, TypeOK
    <3> QED
      BY <3>1
  <2> QED
    BY <1>1, <2>1, <2>2, <2>3, <2>4, <2>5, Writers
<1>2. UNCHANGED vars => Step
  BY DEF IsClosed, vars
<1>3. TypeOK /\ SyncInvariant /\ [Next]_vars => [Step]_vars
  BY <1>1, <1>2
<1>4. [][Step]_vars => ClosedOnlyByNewDeal
  BY PTL DEF ClosedOnlyByNewDeal
<1> QED
  BY <1>3, <1>4, TypeCorrect, SyncInvariantHolds, PTL DEF Spec

\* Only the user's own save leaves the balance behind, and a sync puts it right.
THEOREM OnlyEditsLeaveTheBalance == Spec => BalanceLagsOnlyAfterEdit
<1> DEFINE Step ==
             /\ BalanceCountsClosedTrades /\ edits' = edits => BalanceCountsClosedTrades'
             /\ tx.pc = "deals" /\ db' # db => BalanceCountsClosedTrades'
<1>1. ASSUME TypeOK, SyncInvariant, Next PROVE Step
  <2>1. db' = db => Step
    BY DEF BalanceCountsClosedTrades
  <2>2. CASE Commit
    <3>1. tx.work \in Database
      BY <1>1 DEF TypeOK, Transaction
    <3>2. db'.trades = tx.work.trades /\ db'.balance = BalanceOf(tx.work.trades)
      BY <2>2, <3>1 DEF Commit, Database
    <3> QED
      BY <3>2 DEF BalanceCountsClosedTrades
  <2>3. CASE CreateConnection
    <3>1. tx.pc = "idle" /\ db'.trades = db.trades /\ db'.balance = db.balance
      BY <1>1, <2>3 DEF CreateConnection, WithoutConnection, TypeOK, Database
    <3> QED
      BY <3>1 DEF BalanceCountsClosedTrades
  <2>4. CASE RegenerateConnection
    BY <2>1, <2>4 DEF RegenerateConnection
  <2>5. ASSUME NEW p \in Positions, EditTrade(p) \/ CloseTrade(p) \/ DeleteTrade(p)
        PROVE  edits' # edits /\ tx.pc = "idle"
    <3>1. edits' = edits + 1 /\ edits \in Nat /\ tx.pc = "idle"
      BY <1>1, <2>5 DEF EditTrade, CloseTrade, SaveTrade, DeleteTrade, TypeOK
    <3> QED
      BY <3>1
  <2> QED
    BY <1>1, <2>1, <2>2, <2>3, <2>4, <2>5, Writers
<1>2. UNCHANGED vars => Step
  BY DEF BalanceCountsClosedTrades, vars
<1>3. TypeOK /\ SyncInvariant /\ [Next]_vars => [Step]_vars
  BY <1>1, <1>2
<1>4. [][Step]_vars => BalanceLagsOnlyAfterEdit
  BY PTL DEF BalanceLagsOnlyAfterEdit
<1> QED
  BY <1>3, <1>4, TypeCorrect, SyncInvariantHolds, PTL DEF Spec

\* Evidence rows go only with their connection.
THEOREM EvidenceIsKept == Spec => EvidenceIsAppendOnly
<1> DEFINE Kept == /\ db.source \subseteq db'.source
                   /\ \A r \in db.ledger :
                        r \in db'.ledger \/ [r EXCEPT !.trade = NoPosition] \in db'.ledger
           Step == link'.id = link.id => Kept
<1>1. ASSUME TypeOK, SyncInvariant, Next PROVE Step
  <2>0. db \in Database /\ link.id \in Nat
    BY <1>1 DEF TypeOK, Link
  <2>1. db' = db => Kept
    OBVIOUS
  <2>2. CASE Commit
    BY <1>1, <2>2, CommitWrites DEF Extends
  <2>3. CreateConnection => link'.id # link.id
    BY <2>0 DEF CreateConnection
  <2>4. CASE RegenerateConnection
    BY <2>1, <2>4 DEF RegenerateConnection
  <2>5. ASSUME NEW p \in Positions, NEW trade, SaveTrade(p, trade) PROVE Kept
    <3>1. db'.ledger = db.ledger /\ db'.source = db.source
      BY <2>0, <2>5 DEF SaveTrade, Database
    <3> QED
      BY <3>1
  <2>6. ASSUME NEW p \in Positions, DeleteTrade(p) PROVE Kept
    <3>1. /\ db'.ledger = {IF r.trade = p THEN [r EXCEPT !.trade = NoPosition] ELSE r :
                               r \in db.ledger}
          /\ db'.source = db.source
      BY <2>0, <2>6 DEF DeleteTrade, Database
    <3> QED
      BY <3>1
  <2> QED
    BY <1>1, <2>1, <2>2, <2>3, <2>4, <2>5, <2>6, Writers DEF EditTrade, CloseTrade
<1>2. UNCHANGED vars => Step
  BY DEF vars
<1>3. TypeOK /\ SyncInvariant /\ [Next]_vars => [Step]_vars
  BY <1>1, <1>2
<1>4. [][Step]_vars => EvidenceIsAppendOnly
  BY PTL DEF EvidenceIsAppendOnly
<1> QED
  BY <1>3, <1>4, TypeCorrect, SyncInvariantHolds, PTL DEF Spec

-----------------------------------------------------------------------------
(* Ingestion implements the abstract journal                               *)

\* Steps that leave the rows alone leave the journal alone.
LEMMA SameRows ==
    ASSUME TypeOK, TypeOK', db'.ledger = db.ledger, db'.trades = db.trades,
           Executed' = Executed
    PROVE  UNCHANGED Journal!vars
BY DEF Journal!vars, Recorded, Shown, HasTrade, IsClosed

\* Shown has a status for every position, and tells absent and closed trades.
LEMMA ShownValues ==
    ASSUME NEW trades, NEW p \in Positions
    PROVE  /\ Shown(trades)[p] \in Journal!Status
           /\ Shown(trades)[p] = "none" <=> ~HasTrade(trades, p)
           /\ Shown(trades)[p] = "closed" <=> IsClosed(trades, p)
BY DEF Shown, Journal!Status, HasTrade, IsClosed

LEMMA ShownType ==
    ASSUME NEW trades
    PROVE  Shown(trades) \in [Positions -> Journal!Status]
BY DEF Shown, Journal!Status

\* A commit records the deals of its new rows: they are new because no deal has
\* two rows, and each has the trade of its position.
LEMMA CommitRecords ==
    ASSUME TypeOK, SyncInvariant, Commit
    PROVE  \E news \in SUBSET (Executed \ Recorded(db.ledger)) : Journal!Record(news)
<1> DEFINE work == tx.work
           rows == work.ledger \ db.ledger
           news == {r.deal : r \in rows}
<1>1. /\ db'.ledger = work.ledger /\ db'.trades = work.trades
      /\ Extends(db, work) /\ Sound(work, link.id, Executed)
      /\ Executed' = Executed
  BY CommitWrites DEF Commit, SyncInvariant, Executed, terminalVars
<1> HIDE DEF work
<1>2. /\ db.ledger \subseteq work.ledger
      /\ \A r \in work.ledger : r.deal \in Executed
      /\ \A r1, r2 \in work.ledger : r1.deal = r2.deal => r1 = r2
  BY <1>1 DEF Extends, Sound
<1>3. news \subseteq Executed \ Recorded(db.ledger)
  BY <1>2 DEF Recorded
<1>4. Recorded(work.ledger) = Recorded(db.ledger) \cup news
  BY <1>2 DEF Recorded
<1>5. \A r \in rows : r.trade = PosOf[r.deal] /\ HasTrade(work.trades, r.trade)
  BY <1>1 DEF Extends, Sound
<1>6. ASSUME NEW p \in Positions
      PROVE  /\ HasTrade(db.trades, p) => HasTrade(work.trades, p)
             /\ (\E d \in news : PosOf[d] = p) => HasTrade(work.trades, p)
             /\ IsClosed(work.trades, p) /\ ~IsClosed(db.trades, p) =>
                  \E d \in news : PosOf[d] = p
  <2>1. IsClosed(work.trades, p) /\ ~IsClosed(db.trades, p) =>
            \E r \in rows : r.trade = p
    BY <1>1 DEF Extends
  <2>2. HasTrade(db.trades, p) => HasTrade(work.trades, p)
    BY <1>1 DEF Extends
  <2> QED
    BY <1>5, <2>1, <2>2
<1>7. Journal!Record(news)
  BY <1>1, <1>4, <1>6, ShownValues, ShownType DEF Journal!Record
<1> QED
  BY <1>3, <1>7

\* What the user does to a trade is an Edit, or is not seen at all.
LEMMA UserEdits ==
    ASSUME TypeOK, TypeOK', NEW p \in Positions, db.trades[p] # NoTrade,
           \A q \in Positions : q # p => db'.trades[q] = db.trades[q],
           Recorded(db'.ledger) = Recorded(db.ledger), Executed' = Executed
    PROVE  Journal!Edit(p)
<1>1. Shown(db.trades)[p] # "none"
  BY ShownValues DEF HasTrade
<1>2. \A q \in Positions : q # p => Shown(db'.trades)[q] = Shown(db.trades)[q]
  BY DEF Shown, HasTrade, IsClosed
<1>3. Shown(db'.trades) = [Shown(db.trades) EXCEPT ![p] = Shown(db'.trades)[p]]
  BY <1>2, ShownType
<1>4. Shown(db'.trades)[p] \in Journal!Status
  BY ShownValues
<1> QED
  BY <1>1, <1>3, <1>4 DEF Journal!Edit

LEMMA JournalInit == Init => Journal!Init
BY DEF Init, Journal!Init, EmptyDatabase, Executed, Recorded, Shown, HasTrade, IsClosed

\* Every step of the detailed system is a step of the journal or invisible in it.
LEMMA JournalStep ==
    ASSUME TypeOK, TypeOK', SyncInvariant, Next
    PROVE  [Journal!Next]_(Journal!vars)
<1>1. ASSUME NEW d \in Deals, ExecuteDeal(d) PROVE Journal!Execute(d)
  <2>1. /\ dealTime \in [Deals -> Nat] /\ clock \in Nat
        /\ dealTime[d] = 0 /\ dealTime' = [dealTime EXCEPT ![d] = clock + 1]
        /\ db' = db
    BY <1>1 DEF ExecuteDeal, TypeOK
  <2>2. Executed' = Executed \cup {d} /\ d \notin Executed
    BY <2>1 DEF Executed
  <2>3. UNCHANGED <<Recorded(db.ledger), Shown(db.trades)>>
    BY <2>1 DEF Recorded, Shown, HasTrade, IsClosed
  <2> QED
    BY <2>2, <2>3 DEF Journal!Execute
<1>2. CASE Commit
  BY <1>2, CommitRecords DEF Journal!Next
<1>3. CASE CreateConnection
  <2>0. db \in Database /\ Sound(db, link.id, Executed)
    BY DEF SyncInvariant, TypeOK
  <2>1. db'.ledger = {} /\ db'.trades = db.trades /\ Executed' = Executed
    <3>1. db'.ledger = {}
      BY <1>3, <2>0, SoundWithoutConnection DEF CreateConnection
    <3>2. db'.trades = db.trades
      BY <1>3, <2>0 DEF CreateConnection, WithoutConnection, Database
    <3>3. Executed' = Executed
      BY <1>3 DEF CreateConnection, Executed, terminalVars
    <3> QED
      BY <3>1, <3>2, <3>3
  <2>2. Recorded(db'.ledger) = {} /\ Shown(db'.trades) = Shown(db.trades)
    BY <2>1 DEF Recorded, Shown, HasTrade, IsClosed
  <2> QED
    BY <2>1, <2>2 DEF Journal!Reconnect, Journal!Next
<1>4. ASSUME NEW p \in Positions, NEW trade, SaveTrade(p, trade), db.trades[p] # NoTrade
      PROVE  Journal!Edit(p)
  <2>1. /\ db'.ledger = db.ledger
        /\ \A q \in Positions : q # p => db'.trades[q] = db.trades[q]
        /\ Executed' = Executed
    BY <1>4 DEF SaveTrade, TypeOK, Database, Executed, terminalVars
  <2> QED
    BY <1>4, <2>1, UserEdits
<1>5. ASSUME NEW p \in Positions, DeleteTrade(p) PROVE Journal!Edit(p)
  <2>1. /\ db'.ledger = {IF r.trade = p THEN [r EXCEPT !.trade = NoPosition] ELSE r :
                             r \in db.ledger}
        /\ \A q \in Positions : q # p => db'.trades[q] = db.trades[q]
        /\ Executed' = Executed /\ db.trades[p] # NoTrade
        /\ db.ledger \in SUBSET ProcessedDeal
    BY <1>5 DEF DeleteTrade, TypeOK, Database, Executed, terminalVars
  <2> DEFINE unlinked(r) == IF r.trade = p THEN [r EXCEPT !.trade = NoPosition] ELSE r
  <2>2. \A r \in db.ledger : unlinked(r).deal = r.deal
    BY <2>1 DEF ProcessedDeal
  <2>3. Recorded(db'.ledger) = Recorded(db.ledger)
    <3>1. db'.ledger = {unlinked(r) : r \in db.ledger}
      BY <2>1
    <3> HIDE DEF unlinked
    <3> QED
      BY <2>2, <3>1 DEF Recorded
  <2> QED
    BY <2>1, <2>3, UserEdits
<1>6. ASSUME db' = db, dealTime' = dealTime PROVE UNCHANGED Journal!vars
  <2>1. Executed' = Executed
    BY <1>6 DEF Executed
  <2> QED
    BY <1>6, <2>1, SameRows
<1>7. CASE Terminal
  <2>1. (\E p \in Positions : OpenPosition(p)) \/ (\E d \in Deals : LeaveHistory(d))
            => UNCHANGED Journal!vars
    BY <1>6 DEF OpenPosition, LeaveHistory
  <2> QED
    BY <1>1, <1>7, <2>1 DEF Terminal, Journal!Next
<1>8. CASE ConnectorStep
  BY <1>6, <1>8
  DEF ConnectorStep, ReadPositions, ReadDealsAndSend, Timeout, InstallToken, Lose,
      terminalVars
<1>9. CASE Server
  <2>1. Commit \/ (db' = db /\ dealTime' = dealTime)
    BY <1>9 DEF Server, Reject, BeginSync, UpsertOpenPositions, SkipProcessedDeal,
                CloseFromDeal, Abort, terminalVars
  <2> QED
    BY <1>2, <1>6, <2>1
<1>10. CASE User
  <2>1. CASE RegenerateConnection \/ RevokeConnection
    BY <1>6, <2>1 DEF RegenerateConnection, RevokeConnection, terminalVars
  <2>2. ASSUME NEW p \in Positions, EditTrade(p) \/ CloseTrade(p) \/ DeleteTrade(p)
        PROVE  Journal!Edit(p)
    BY <1>4, <1>5, <2>2 DEF EditTrade, CloseTrade
  <2> QED
    BY <1>3, <1>10, <2>1, <2>2 DEF User, Journal!Next
<1> QED
  BY <1>7, <1>8, <1>9, <1>10 DEF Next

\* Ingestion with all its requests, retries, transactions and rollbacks implements
\* the journal that records each deal once and closes a trade only by a new deal.
THEOREM IngestionImplementsJournal == Spec => ImplementsJournal
<1>1. TypeOK /\ UNCHANGED vars => UNCHANGED Journal!vars
  BY DEF vars, Journal!vars, Executed, Recorded, Shown, HasTrade, IsClosed
<1>2. TypeOK /\ TypeOK' /\ SyncInvariant /\ [Next]_vars => [Journal!Next]_(Journal!vars)
  BY <1>1, JournalStep
<1> QED
  BY <1>2, JournalInit, TypeCorrect, SyncInvariantHolds, PTL
  DEF Spec, ImplementsJournal, Journal!Spec


-----------------------------------------------------------------------------
(* What the steps write                                                    *)

\* Steps that write no trade and no processed row, begin no transaction and end none.
LEMMA QuietWrites ==
    ASSUME TypeOK,
           Terminal \/ ConnectorStep \/ (\E r \in requests : Reject(r))
             \/ RegenerateConnection \/ RevokeConnection
    PROVE  /\ db' = db /\ edits' = edits /\ link'.id = link.id
           /\ tx'.pc = tx.pc /\ tx'.work = tx.work /\ tx'.todo = tx.todo
           /\ tx'.positions = tx.positions /\ tx'.conn = tx.conn
<1>1. Terminal => UNCHANGED <<db, edits, link, tx>>
  BY DEF Terminal, OpenPosition, ExecuteDeal, LeaveHistory
<1>2. ConnectorStep /\ ~Timeout => UNCHANGED <<db, edits, link, tx>>
  BY DEF ConnectorStep, ReadPositions, ReadDealsAndSend, InstallToken, Lose
<1>3. Timeout => UNCHANGED <<db, edits, link>> /\ tx' = [tx EXCEPT !.awaited = FALSE]
  BY DEF Timeout
<1>4. ASSUME NEW r \in requests, Reject(r) PROVE UNCHANGED <<db, edits, link, tx>>
  BY <1>4 DEF Reject
<1>5. RegenerateConnection \/ RevokeConnection =>
          UNCHANGED <<db, edits, tx>> /\ link'.id = link.id
  BY DEF RegenerateConnection, RevokeConnection, TypeOK, Link
<1>6. tx' = [tx EXCEPT !.awaited = FALSE] =>
          /\ tx'.pc = tx.pc /\ tx'.work = tx.work /\ tx'.todo = tx.todo
          /\ tx'.positions = tx.positions /\ tx'.conn = tx.conn
  BY DEF TypeOK, Transaction
<1> QED
  BY <1>1, <1>2, <1>3, <1>4, <1>5, <1>6

LEMMA BeginWrites ==
    ASSUME TypeOK, NEW r \in requests, BeginSync(r)
    PROVE  /\ db' = db /\ edits' = edits /\ link' = link /\ dealTime' = dealTime
           /\ tx.pc = "idle" /\ tx'.pc = "positions" /\ link.id > 0
           /\ tx'.work \in Database
           /\ tx'.work.ledger = db.ledger /\ tx'.work.trades = db.trades
           /\ tx'.todo = r.deals /\ tx'.positions = r.positions /\ tx'.awaited = r.awaited
<1>1. tx'.work = [db EXCEPT !.source = @ \cup {[conn |-> link.id, deal |-> d] : d \in r.deals}]
  BY DEF BeginSync
<1>2. tx'.work \in Database
  <2>1. TypeOK'
    BY ServerType DEF Server
  <2> QED
    BY <2>1 DEF TypeOK, Transaction
<1> QED
  BY <1>1, <1>2 DEF BeginSync, Authorized, TypeOK, Database, terminalVars

LEMMA UpsertWrites ==
    ASSUME TypeOK, UpsertOpenPositions
    PROVE  /\ db' = db /\ edits' = edits /\ link' = link /\ dealTime' = dealTime
           /\ tx.pc = "positions" /\ tx'.pc = "deals"
           /\ tx'.todo = tx.todo /\ tx'.positions = tx.positions /\ tx'.awaited = tx.awaited
           /\ tx'.work.ledger = tx.work.ledger
           /\ \A p \in Positions \ tx.positions : tx'.work.trades[p] = tx.work.trades[p]
           /\ \A p \in tx.positions :
                 tx'.work.trades[p] =
                     Upserted(tx.work.trades[p],
                              Economics(tx.work.ledger, LinkOf(tx.work.trades[p], p)))
<1> DEFINE trades == [p \in Positions |->
                        IF p \in tx.positions
                          THEN Upserted(tx.work.trades[p],
                                        Economics(tx.work.ledger, LinkOf(tx.work.trades[p], p)))
                          ELSE tx.work.trades[p]]
<1>1. tx' = [tx EXCEPT !.pc = "deals", !.work.trades = trades]
  BY DEF UpsertOpenPositions
<1>2. tx.positions \subseteq Positions
  BY DEF TypeOK, Transaction
<1>3. /\ tx'.pc = "deals" /\ tx'.todo = tx.todo /\ tx'.positions = tx.positions
      /\ tx'.awaited = tx.awaited
      /\ tx'.work.ledger = tx.work.ledger /\ tx'.work.trades = trades
  <2> HIDE DEF trades
  <2> QED
    BY <1>1 DEF TypeOK, Transaction, Database
<1>4. UNCHANGED <<terminalVars, connectorVars, link, db, edits>> /\ tx.pc = "positions"
  BY DEF UpsertOpenPositions
<1> QED
  BY <1>2, <1>3, <1>4 DEF terminalVars, connectorVars

LEMMA SkipWrites ==
    ASSUME TypeOK, NEW d \in Deals, SkipProcessedDeal(d)
    PROVE  /\ db' = db /\ edits' = edits /\ link' = link /\ dealTime' = dealTime
           /\ tx.pc = "deals" /\ tx'.pc = "deals" /\ tx'.work = tx.work
           /\ tx'.todo = tx.todo \ {d} /\ tx'.positions = tx.positions
           /\ tx'.awaited = tx.awaited
BY DEF SkipProcessedDeal, TypeOK, Transaction, terminalVars

LEMMA DatabaseUpdated ==
    ASSUME NEW base \in Database, NEW ledger, NEW p \in Positions, NEW new
    PROVE  LET work == [base EXCEPT !.ledger = ledger, !.trades[p] = new] IN
           /\ work.ledger = ledger /\ work.trades[p] = new
           /\ \A q \in Positions \ {p} : work.trades[q] = base.trades[q]
BY DEF Database

LEMMA CloseWrites ==
    ASSUME TypeOK, NEW d \in Deals, CloseFromDeal(d)
    PROVE  LET p      == PosOf[d]
               trade  == IF tx.work.trades[p] = NoTrade THEN NewTrade ELSE tx.work.trades[p]
               ledger == tx.work.ledger \cup {[conn |-> tx.conn, deal |-> d, trade |-> p]}
           IN  /\ db' = db /\ edits' = edits /\ link' = link /\ dealTime' = dealTime
               /\ tx.pc = "deals" /\ tx'.pc = "deals"
               /\ tx'.todo = tx.todo \ {d} /\ tx'.positions = tx.positions
               /\ tx'.awaited = tx.awaited
               /\ tx'.work.ledger = ledger
               /\ \A q \in Positions \ {p} : tx'.work.trades[q] = tx.work.trades[q]
               /\ tx'.work.trades[p] = Applied(trade, Economics(ledger, p), d)
               /\ p \in Positions /\ trade \in Trade
<1> DEFINE p == PosOf[d]
           trade == IF tx.work.trades[p] = NoTrade THEN NewTrade ELSE tx.work.trades[p]
           ledger == tx.work.ledger \cup {[conn |-> tx.conn, deal |-> d, trade |-> p]}
           new == Applied(trade, Economics(ledger, p), d)
<1>1. tx' = [tx EXCEPT !.todo = @ \ {d}, !.work.ledger = ledger, !.work.trades[p] = new]
  BY DEF CloseFromDeal
<1>2. p \in Positions /\ tx.work.trades \in [Positions -> Trade \cup {NoTrade}]
  BY DEF TypeOK, Transaction, Database
<1>3. trade \in Trade
  BY <1>2 DEF NewTrade, Trade
<1> HIDE DEF trade, ledger, new, p
<1>4. tx \in Transaction /\ tx.work \in Database
  BY DEF TypeOK, Transaction
<1> DEFINE work == tx'.work
<1>9. /\ tx'.todo = tx.todo \ {d} /\ tx'.positions = tx.positions /\ tx'.awaited = tx.awaited
      /\ tx'.pc = tx.pc /\ work = [tx.work EXCEPT !.ledger = ledger, !.trades[p] = new]
  <2> DEFINE next == [tx EXCEPT !.todo = @ \ {d}, !.work.ledger = ledger,
                                !.work.trades[p] = new]
  <2>1. /\ next.todo = tx.todo \ {d} /\ next.positions = tx.positions
        /\ next.awaited = tx.awaited /\ next.pc = tx.pc
        /\ next.work = [tx.work EXCEPT !.ledger = ledger, !.trades[p] = new]
    BY <1>4 DEF Transaction
  <2>2. tx' = next
    BY <1>1
  <2> HIDE DEF next
  <2> QED
    BY <2>1, <2>2
<1>10. /\ tx'.work.ledger = ledger
       /\ \A q \in Positions \ {p} : tx'.work.trades[q] = tx.work.trades[q]
       /\ tx'.work.trades[p] = new
  BY <1>2, <1>4, <1>9, DatabaseUpdated
<1>11. /\ db' = db /\ edits' = edits /\ link' = link /\ dealTime' = dealTime /\ tx.pc = "deals"
  BY DEF CloseFromDeal, terminalVars
<1> HIDE DEF work
<1> QED
  BY <1>2, <1>3, <1>9, <1>10, <1>11 DEF p, trade, ledger, new

LEMMA CommitPublishes ==
    ASSUME TypeOK, Commit
    PROVE  /\ edits' = edits /\ link' = link /\ dealTime' = dealTime /\ requests' = requests
           /\ tx.pc = "deals" /\ tx.todo = {} /\ tx'.pc = "idle"
           /\ db'.ledger = tx.work.ledger /\ db'.trades = tx.work.trades
<1>1. tx.work \in Database
  BY DEF TypeOK, Transaction
<1> QED
  BY <1>1 DEF Commit, NoTransaction, Database, terminalVars

LEMMA AbortWrites ==
    ASSUME Abort
    PROVE  /\ db' = db /\ edits' = edits /\ link' = link /\ dealTime' = dealTime
           /\ requests' = requests /\ tx'.pc = "idle"
BY DEF Abort, NoTransaction, terminalVars

LEMMA CreateWrites ==
    ASSUME TypeOK, SyncInvariant, CreateConnection
    PROVE  /\ db'.ledger = {} /\ db'.trades = db.trades /\ edits' = edits
           /\ link'.id = link.id + 1 /\ tx.pc = "idle" /\ tx' = tx /\ requests' = requests
           /\ dealTime' = dealTime
<1>1. db \in Database /\ Sound(db, link.id, Executed)
  BY DEF TypeOK, SyncInvariant
<1>2. db'.ledger = {}
  BY <1>1, SoundWithoutConnection DEF CreateConnection
<1>3. db'.trades = db.trades
  BY <1>1 DEF CreateConnection, WithoutConnection, Database
<1> QED
  BY <1>2, <1>3 DEF CreateConnection, terminalVars, connectorVars

-----------------------------------------------------------------------------
(* What a position of the snapshot does to its trade                       *)

LEMMA UpsertedIs ==
    ASSUME NEW trade \in Trade \cup {NoTrade}, NEW pnl \in SUBSET Entry
    PROVE  LET row == IF trade = NoTrade THEN NewTrade ELSE trade
               new == Upserted(trade, pnl)
           IN  /\ new \in Trade /\ new.status = "OPEN" /\ new.deal = row.deal
               /\ new.pnl = IF pnl # {} THEN pnl ELSE row.pnl
               /\ new.exit = IF pnl # {} THEN 0 ELSE row.exit
<1> DEFINE row == IF trade = NoTrade THEN NewTrade ELSE trade
           new == Upserted(trade, pnl)
<1>1. row \in Trade
  BY DEF NewTrade, Trade
<1>2. new = IF pnl # {} THEN PartialOpen(row, pnl, row.deal) ELSE [row EXCEPT !.status = "OPEN"]
  BY DEF Upserted
<1>3. new \in Trade
  BY UpsertedType
<1> HIDE DEF row, new
<1>4. CASE pnl # {}
  BY <1>2, <1>3, <1>4 DEF PartialOpen, row, new
<1>5. CASE pnl = {}
  BY <1>1, <1>2, <1>3, <1>5 DEF Trade, row, new
<1> QED
  BY <1>4, <1>5

-----------------------------------------------------------------------------
(* Trades that nobody but apply_sync has touched                           *)

\* The user has left the trades alone, and has not replaced the connection.
Untouched == edits = 0 /\ link.id <= 1

\* Rows that only apply_sync has written: the P&L of a trade is the sum over its rows, its
\* last deal is one of the ledger, and it was closed by a deal and is open without an exit.
AsReported(base) ==
    /\ \A r \in base.ledger : r.trade # NoPosition
    /\ \A p \in Positions : HasTrade(base.trades, p) =>
          /\ base.trades[p].pnl = Economics(base.ledger, p)
          /\ base.trades[p].deal # NoDeal => \E r \in base.ledger : r.deal = base.trades[p].deal
          /\ IsOpen(base.trades, p) => base.trades[p].exit = 0
          /\ IsClosed(base.trades, p) => \E r \in base.ledger : r.trade = p

ReportInvariant ==
    /\ link.id = 0 => db.ledger = {} /\ tx.pc = "idle"
                      /\ \A p \in Positions : ~HasTrade(db.trades, p)
    /\ Untouched => AsReported(db) /\ (tx.pc # "idle" => AsReported(tx.work))

\* Only trades and processed rows matter.
LEMMA SameReport ==
    ASSUME NEW base, NEW other, AsReported(base),
           other.ledger = base.ledger, other.trades = base.trades
    PROVE  AsReported(other)
BY DEF AsReported

LEMMA UpsertReports ==
    ASSUME TypeOK, SyncInvariant, UpsertOpenPositions, AsReported(tx.work)
    PROVE  AsReported(tx'.work)
<1>1. /\ Sound(tx.work, link.id, Executed) /\ tx.work.ledger \in SUBSET ProcessedDeal
      /\ tx.work.trades \in [Positions -> Trade \cup {NoTrade}]
      /\ tx.positions \subseteq Positions /\ tx.pc = "positions"
  BY UpsertWrites DEF TypeOK, Transaction, Database, SyncInvariant
<1>2. ASSUME NEW p \in tx.positions
      PROVE  LET new == tx'.work.trades[p] IN
             /\ new.pnl = Economics(tx.work.ledger, p)
             /\ new.deal # NoDeal => \E r \in tx.work.ledger : r.deal = new.deal
             /\ new.status = "OPEN" /\ new.exit = 0
  <2> DEFINE old == tx.work.trades[p]
             pnl == Economics(tx.work.ledger, LinkOf(old, p))
  <2>1. tx'.work.trades[p] = Upserted(old, pnl)
    BY UpsertWrites
  <2>2. old \in Trade \cup {NoTrade} /\ pnl \in SUBSET Entry /\ p \in Positions
    BY <1>1, EconomicsType
  <2>3. CASE old = NoTrade
    <3>1. \A r \in tx.work.ledger : r.trade # p /\ r.trade # NoPosition
      BY <1>1, <2>2, <2>3 DEF Sound, HasTrade, AsReported
    <3>2. pnl = {} /\ Economics(tx.work.ledger, p) = {}
      BY <2>3, <3>1 DEF Economics, LinkOf
    <3> HIDE DEF pnl
    <3>3. NewTrade.pnl = {} /\ NewTrade.deal = NoDeal /\ NewTrade.exit = 0
      BY DEF NewTrade
    <3> QED
      BY <2>1, <2>2, <2>3, <3>2, <3>3, UpsertedIs
  <2>4. CASE old # NoTrade
    <3>1. pnl = Economics(tx.work.ledger, p) /\ pnl = old.pnl
      BY <2>2, <2>4 DEF LinkOf, AsReported, HasTrade
    <3>2. old.deal # NoDeal => \E r \in tx.work.ledger : r.deal = old.deal
      BY <2>2, <2>4 DEF AsReported, HasTrade
    <3>3. pnl = {} => old.exit = 0
      <4>1. old.status = "OPEN" => old.exit = 0
        BY <2>2, <2>4 DEF AsReported, HasTrade, IsOpen
      <4>2. old.status = "CLOSED" => \E r \in tx.work.ledger : r.trade = p
        BY <2>2, <2>4 DEF AsReported, HasTrade, IsClosed
      <4>3. (\E r \in tx.work.ledger : r.trade = p) => pnl # {}
        <5>1. (\E r \in tx.work.ledger : r.trade = p) => Economics(tx.work.ledger, p) # {}
          BY DEF Economics
        <5> HIDE DEF pnl
        <5> QED
          BY <3>1, <5>1
      <4>4. old.status \in {"OPEN", "CLOSED"}
        BY <2>2, <2>4 DEF Trade
      <4> QED
        BY <4>1, <4>2, <4>3, <4>4
    <3> HIDE DEF pnl, old
    <3> QED
      BY <2>1, <2>2, <2>4, <3>1, <3>2, <3>3, UpsertedIs
  <2> QED
    BY <2>3, <2>4
<1> QED
  BY <1>1, <1>2, UpsertWrites DEF AsReported, HasTrade, IsOpen, IsClosed

LEMMA CloseReports ==
    ASSUME TypeOK, SyncInvariant, NEW d \in Deals, CloseFromDeal(d), AsReported(tx.work)
    PROVE  AsReported(tx'.work)
<1> DEFINE p      == PosOf[d]
           old    == tx.work.trades[p]
           trade  == IF old = NoTrade THEN NewTrade ELSE old
           row    == [conn |-> tx.conn, deal |-> d, trade |-> p]
           ledger == tx.work.ledger \cup {row}
           new    == tx'.work.trades[p]
<1>1. /\ tx'.work.ledger = ledger
      /\ \A q \in Positions \ {p} : tx'.work.trades[q] = tx.work.trades[q]
      /\ new = Applied(trade, Economics(ledger, p), d)
      /\ p \in Positions /\ trade \in Trade
  BY CloseWrites
<1>2. /\ Sound(tx.work, link.id, Executed) /\ tx.conn = link.id
      /\ ~Processed(tx.work.ledger, link.id, d)
  BY DEF CloseFromDeal, SyncInvariant
<1>3. \A r \in tx.work.ledger : r.deal # d
  BY <1>2 DEF Sound, Processed
<1>4. trade.deal # d
  <2>1. CASE old = NoTrade
    <3>1. trade = NewTrade
      BY <2>1
    <3>2. NewTrade.deal = NoDeal /\ NoDeal # d
      BY DEF NewTrade
    <3> QED
      BY <3>1, <3>2
  <2>2. CASE old # NoTrade
    <3>1. trade = old /\ (old.deal # NoDeal => \E r \in tx.work.ledger : r.deal = old.deal)
      BY <1>1, <2>2 DEF AsReported, HasTrade
    <3>2. NoDeal # d
      OBVIOUS
    <3> HIDE DEF trade, old
    <3> QED
      BY <1>3, <3>1, <3>2
  <2> QED
    BY <2>1, <2>2
<1>5. row.deal = d /\ row.trade = p /\ row \in ledger /\ tx.work.ledger \subseteq ledger
  OBVIOUS
<1>6. /\ new.pnl = Economics(ledger, p) /\ new.deal = d
      /\ new.status = "OPEN" => new.exit = 0
  <2> HIDE DEF trade, ledger, new
  <2> QED
    BY <1>1, <1>4 DEF Applied, PartialOpen, Closed
<1> HIDE DEF row
<1>7. ASSUME NEW q \in Positions, q # p PROVE Economics(ledger, q) = Economics(tx.work.ledger, q)
  <2>1. {r \in ledger : r.trade = q} = {r \in tx.work.ledger : r.trade = q}
    BY <1>5, <1>7
  <2> QED
    BY <2>1 DEF Economics
<1>8. ASSUME NEW r \in ledger PROVE r.trade # NoPosition
  <2>1. p \in Positions /\ p # NoPosition
    <3>1. p \in Positions
      BY <1>1
    <3> HIDE DEF p
    <3> QED
      BY <3>1
  <2>2. r = row \/ r \in tx.work.ledger
    OBVIOUS
  <2> HIDE DEF p
  <2> QED
    BY <1>5, <2>1, <2>2 DEF AsReported
<1>9. ASSUME NEW q \in Positions, HasTrade(tx'.work.trades, q)
      PROVE  /\ tx'.work.trades[q].pnl = Economics(ledger, q)
             /\ tx'.work.trades[q].deal # NoDeal =>
                    \E r \in ledger : r.deal = tx'.work.trades[q].deal
             /\ IsOpen(tx'.work.trades, q) => tx'.work.trades[q].exit = 0
             /\ IsClosed(tx'.work.trades, q) => \E r \in ledger : r.trade = q
  <2>1. CASE q = p
    <3> HIDE DEF ledger
    <3> QED
      BY <1>5, <1>6, <2>1 DEF IsOpen
  <2>2. CASE q # p
    <3>1. tx'.work.trades[q] = tx.work.trades[q]
      BY <1>1, <2>2
    <3>2. /\ HasTrade(tx.work.trades, q)
          /\ IsOpen(tx'.work.trades, q) <=> IsOpen(tx.work.trades, q)
          /\ IsClosed(tx'.work.trades, q) <=> IsClosed(tx.work.trades, q)
      BY <1>9, <3>1 DEF HasTrade, IsOpen, IsClosed
    <3> HIDE DEF ledger
    <3> QED
      BY <1>5, <1>7, <2>2, <3>1, <3>2 DEF AsReported
  <2> QED
    BY <2>1, <2>2
<1> HIDE DEF ledger
<1> QED
  BY <1>1, <1>8, <1>9 DEF AsReported

LEMMA ReportStep ==
    ASSUME TypeOK, SyncInvariant, ReportInvariant, Next
    PROVE  ReportInvariant'
<1> USE DEF ReportInvariant, Untouched
<1>1. CASE Terminal \/ ConnectorStep \/ (\E r \in requests : Reject(r))
             \/ RegenerateConnection \/ RevokeConnection
  BY <1>1, QuietWrites
<1>2. ASSUME NEW r \in requests, BeginSync(r) PROVE ReportInvariant'
  BY <1>2, BeginWrites, SameReport
<1>3. CASE UpsertOpenPositions
  BY <1>3, UpsertWrites, UpsertReports
<1>4. ASSUME NEW d \in Deals, SkipProcessedDeal(d) PROVE ReportInvariant'
  BY <1>4, SkipWrites
<1>5. ASSUME NEW d \in Deals, CloseFromDeal(d) PROVE ReportInvariant'
  BY <1>5, CloseWrites, CloseReports
<1>6. CASE Commit
  BY <1>6, CommitPublishes, SameReport
<1>7. CASE Abort
  BY <1>7, AbortWrites
<1>8. CASE CreateConnection
  <2>1. link.id \in Nat /\ link'.id = link.id + 1
    BY <1>8, CreateWrites DEF TypeOK, Link
  <2>2. link.id = 0 => AsReported(db')
    BY <1>8, CreateWrites DEF AsReported, HasTrade
  <2> QED
    BY <1>8, <2>1, <2>2, CreateWrites
<1>9. ASSUME NEW p \in Positions, EditTrade(p) \/ CloseTrade(p) \/ DeleteTrade(p)
      PROVE  ReportInvariant'
  <2>1. edits' = edits + 1 /\ db.trades[p] # NoTrade /\ link' = link /\ edits \in Nat
    BY <1>9 DEF EditTrade, CloseTrade, SaveTrade, DeleteTrade, TypeOK
  <2> QED
    BY <2>1 DEF HasTrade
<1> QED
  BY <1>1, <1>2, <1>3, <1>4, <1>5, <1>6, <1>7, <1>8, <1>9 DEF Next, Server, User

\* Whatever is lost, late, retried or rolled back, the trades of a connection the user has
\* left alone are as apply_sync reported them, committed or not.
THEOREM ReportInvariantHolds == Spec => []ReportInvariant
<1>1. Init => ReportInvariant
  BY DEF Init, ReportInvariant, AsReported, EmptyDatabase, NoTransaction, HasTrade
<1>2. ReportInvariant /\ UNCHANGED vars => ReportInvariant'
  BY DEF ReportInvariant, Untouched, vars
<1> QED
  BY <1>1, <1>2, ReportStep, TypeCorrect, SyncInvariantHolds, PTL DEF Spec

\* As long as the user leaves the trades alone and does not replace the connection, whatever
\* the connectors, the network and faults do, the P&L of a trade is the sum over its rows.
THEOREM ReportedPnlMatches == Spec => [](Untouched => PnlMatchesLedger)
<1>1. ReportInvariant => (Untouched => PnlMatchesLedger)
  BY DEF ReportInvariant, AsReported, PnlMatchesLedger
<1> QED
  BY <1>1, ReportInvariantHolds, PTL

\* As long as the user leaves the trades alone and does not replace the connection, nothing
\* of an earlier close is left in an open trade, also when a late snapshot reopened it.
THEOREM ReportedTradesHaveNoExit == Spec => [](Untouched => OpenTradeHasNoExit)
<1>1. ReportInvariant => (Untouched => OpenTradeHasNoExit)
  BY DEF ReportInvariant, AsReported, OpenTradeHasNoExit, IsOpen
<1> QED
  BY <1>1, ReportInvariantHolds, PTL

-----------------------------------------------------------------------------
(* Exits, when deals are delivered in the order they were executed         *)

\* The companion lists the oldest deal first, and no deal has left the history window.
InOrder == ~NewestFirst /\ expired = {}

Earlier(d) == {e \in Executed : dealTime[e] < dealTime[d]}
ProcessedDeals(base) == {r.deal : r \in base.ledger}

\* Whatever was executed before one of the deals is among the others.
NoneSkipped(deals, others) == \A d \in deals : Earlier(d) \subseteq others

\* The exit of a trade is not before the deal it shows; nor, when all deals of its
\* position have arrived, before any of them.
ExitKept(trade, ledger, p) ==
    /\ trade.status = "CLOSED" => trade.exit > 0
    /\ trade.deal # NoDeal =>
          trade.deal \in Executed /\ (trade.exit > 0 => dealTime[trade.deal] <= trade.exit)
    /\ trade.exit > 0 /\ DealsOf(p) \subseteq ArrivedFor(ledger, p) =>
          \A d \in DealsOf(p) : dealTime[d] <= trade.exit

ExitsKept(base) ==
    \A p \in Positions : HasTrade(base.trades, p) => ExitKept(base.trades[p], base.ledger, p)

OrderInvariant ==
    /\ \A d \in Deals : dealTime[d] <= clock
    /\ InOrder =>
          /\ \A r \in requests : NoneSkipped(r.deals, r.deals)
          /\ NoneSkipped(ProcessedDeals(db), ProcessedDeals(db))
          /\ ExitsKept(db)
          /\ tx.pc # "idle" =>
                /\ NoneSkipped(ProcessedDeals(tx.work), ProcessedDeals(tx.work))
                /\ NoneSkipped(tx.todo, ProcessedDeals(tx.work) \cup tx.todo)
                /\ ExitsKept(tx.work)

\* Only trades and processed rows matter.
LEMMA SameExits ==
    ASSUME NEW base, NEW other, other.ledger = base.ledger, other.trades = base.trades
    PROVE  /\ ProcessedDeals(other) = ProcessedDeals(base)
           /\ ExitsKept(base) => ExitsKept(other)
BY DEF ProcessedDeals, ExitsKept

\* A deal executed now comes after all that was executed before.
LEMMA LaterDealSkipsNone ==
    ASSUME TypeOK, \A e \in Deals : dealTime[e] <= clock,
           NEW d \in Deals, ExecuteDeal(d),
           NEW deals \in SUBSET Executed, NEW others, NoneSkipped(deals, others)
    PROVE  NoneSkipped(deals, others)'
<1>1. /\ dealTime' = [dealTime EXCEPT ![d] = clock + 1] /\ dealTime[d] = 0
      /\ dealTime \in [Deals -> Nat] /\ clock \in Nat
  BY DEF ExecuteDeal, TypeOK
<1>2. ASSUME NEW e \in deals, NEW f \in Earlier(e)' PROVE f \in others
  <2>1. e \in Deals /\ e # d /\ dealTime'[e] = dealTime[e]
    BY <1>1 DEF Executed
  <2>2. f \in Deals /\ dealTime'[f] > 0 /\ dealTime'[f] < dealTime'[e]
    BY DEF Earlier, Executed
  <2>3. f # d
    BY <1>1, <2>1, <2>2
  <2>4. f \in Earlier(e)
    BY <1>1, <2>1, <2>2, <2>3 DEF Earlier, Executed
  <2> QED
    BY <2>4 DEF NoneSkipped
<1> QED
  BY <1>2 DEF NoneSkipped

LEMMA LaterDealKeepsExits ==
    ASSUME TypeOK, NEW d \in Deals, ExecuteDeal(d), NEW base,
           \A r \in base.ledger : r.deal \in Executed, ExitsKept(base)
    PROVE  \A p \in Positions : HasTrade(base.trades, p) =>
              ExitKept(base.trades[p], base.ledger, p)'
<1>1. /\ dealTime' = [dealTime EXCEPT ![d] = clock + 1] /\ dealTime[d] = 0
      /\ dealTime \in [Deals -> Nat] /\ clock \in Nat
  BY DEF ExecuteDeal, TypeOK
<1>2. \A e \in Executed : e \in Executed' /\ dealTime'[e] = dealTime[e]
  BY <1>1 DEF Executed
<1>3. \A p : ArrivedFor(base.ledger, p) \subseteq Executed
  BY DEF ArrivedFor
<1> SUFFICES ASSUME NEW p \in Positions, HasTrade(base.trades, p)
             PROVE  ExitKept(base.trades[p], base.ledger, p)'
  OBVIOUS
<1>4. ExitKept(base.trades[p], base.ledger, p)
  BY DEF ExitsKept
<1> QED
  BY <1>2, <1>3, <1>4 DEF ExitKept

LEMMA UpsertKeepsExits ==
    ASSUME TypeOK, UpsertOpenPositions, ExitsKept(tx.work)
    PROVE  ExitsKept(tx'.work)
<1>1. /\ tx.work.ledger \in SUBSET ProcessedDeal
      /\ tx.work.trades \in [Positions -> Trade \cup {NoTrade}]
      /\ tx.positions \subseteq Positions
  BY DEF TypeOK, Transaction, Database
<1> SUFFICES ASSUME NEW p \in Positions, HasTrade(tx'.work.trades, p)
             PROVE  ExitKept(tx'.work.trades[p], tx.work.ledger, p)
  BY UpsertWrites DEF ExitsKept
<1>2. CASE p \notin tx.positions
  BY <1>2, UpsertWrites DEF ExitsKept, HasTrade
<1>3. CASE p \in tx.positions
  <2> DEFINE old == tx.work.trades[p]
             pnl == Economics(tx.work.ledger, LinkOf(old, p))
             row == IF old = NoTrade THEN NewTrade ELSE old
             new == tx'.work.trades[p]
  <2>1. new = Upserted(old, pnl)
    BY <1>3, UpsertWrites
  <2>2. old \in Trade \cup {NoTrade} /\ pnl \in SUBSET Entry
    BY <1>1, EconomicsType
  <2>3. /\ new.status = "OPEN" /\ new.deal = row.deal
        /\ new.exit = IF pnl # {} THEN 0 ELSE row.exit
    <3> HIDE DEF pnl, old, new
    <3> QED
      BY <2>1, <2>2, UpsertedIs
  <2>4. ExitKept(row, tx.work.ledger, p)
    <3>1. CASE old = NoTrade
      BY <3>1 DEF ExitKept, NewTrade
    <3>2. CASE old # NoTrade
      BY <3>2 DEF ExitsKept, HasTrade
    <3> QED
      BY <3>1, <3>2
  <2>5. ExitKept(new, tx.work.ledger, p)
    <3> HIDE DEF pnl, row, new
    <3>1. CASE pnl # {}
      BY <2>3, <2>4, <3>1 DEF ExitKept
    <3>2. CASE pnl = {}
      BY <2>3, <2>4, <3>2 DEF ExitKept
    <3> QED
      BY <3>1, <3>2
  <2> QED
    BY <2>5
<1> QED
  BY <1>2, <1>3

\* The deal applied is later than all that are processed already.
LEMMA NextDealIsLatest ==
    ASSUME TypeOK, SyncInvariant, ~NewestFirst, NEW d \in Deals, CloseFromDeal(d),
           NoneSkipped(ProcessedDeals(tx.work), ProcessedDeals(tx.work)),
           NoneSkipped(tx.todo, ProcessedDeals(tx.work) \cup tx.todo)
    PROVE  /\ Earlier(d) \subseteq ProcessedDeals(tx.work)
           /\ \A e \in ProcessedDeals(tx.work) : e \in Deals /\ dealTime[e] <= dealTime[d]
           /\ d \in Executed
<1>1. /\ Sound(tx.work, link.id, Executed) /\ tx.conn = link.id
      /\ ~Processed(tx.work.ledger, link.id, d)
      /\ d \in tx.todo /\ \A e \in tx.todo : dealTime[d] <= dealTime[e]
      /\ dealTime \in [Deals -> Nat] /\ tx.todo \subseteq Executed
  <2>1. /\ NextInPayload(d) /\ ~Processed(tx.work.ledger, tx.conn, d) /\ tx.pc # "idle"
        /\ dealTime \in [Deals -> Nat]
    BY DEF CloseFromDeal, TypeOK
  <2>2. /\ Sound(tx.work, link.id, Executed) /\ tx.conn = link.id
        /\ tx.todo \subseteq Executed
    BY <2>1 DEF SyncInvariant
  <2>3. d \in tx.todo /\ \A e \in tx.todo : dealTime[d] <= dealTime[e]
    BY <2>1 DEF NextInPayload, Precedes
  <2> QED
    BY <2>1, <2>2, <2>3
<1>2. d \notin ProcessedDeals(tx.work) /\ ProcessedDeals(tx.work) \subseteq Executed
  <2>1. d \notin ProcessedDeals(tx.work)
    <3>1. \A r \in tx.work.ledger : r.conn = link.id
      BY <1>1 DEF Sound
    <3> QED
      BY <1>1, <3>1 DEF ProcessedDeals, Processed
  <2>2. ProcessedDeals(tx.work) \subseteq Executed
    <3>1. \A r \in tx.work.ledger : r.deal \in Executed
      BY <1>1 DEF Sound
    <3> QED
      BY ONLY <3>1 DEF ProcessedDeals
  <2> QED
    BY <2>1, <2>2
<1>3. Earlier(d) \subseteq ProcessedDeals(tx.work)
  BY <1>1 DEF NoneSkipped, Earlier, Executed
<1>4. ASSUME NEW e \in ProcessedDeals(tx.work), dealTime[d] < dealTime[e] PROVE FALSE
  <2>1. d \in Earlier(e)
    BY <1>1, <1>4 DEF Earlier
  <2> QED
    BY <1>2, <2>1 DEF NoneSkipped
<1> QED
  BY <1>1, <1>2, <1>3, <1>4 DEF Executed

LEMMA CloseKeepsExits ==
    ASSUME TypeOK, SyncInvariant, ~NewestFirst, NEW d \in Deals, CloseFromDeal(d),
           NoneSkipped(ProcessedDeals(tx.work), ProcessedDeals(tx.work)),
           NoneSkipped(tx.todo, ProcessedDeals(tx.work) \cup tx.todo),
           ExitsKept(tx.work)
    PROVE  /\ ProcessedDeals(tx'.work) = ProcessedDeals(tx.work) \cup {d}
           /\ ExitsKept(tx'.work)
<1> DEFINE p      == PosOf[d]
           old    == tx.work.trades[p]
           trade  == IF old = NoTrade THEN NewTrade ELSE old
           row    == [conn |-> tx.conn, deal |-> d, trade |-> p]
           ledger == tx.work.ledger \cup {row}
           new    == tx'.work.trades[p]
<1>1. /\ tx'.work.ledger = ledger
      /\ \A q \in Positions \ {p} : tx'.work.trades[q] = tx.work.trades[q]
      /\ new = Applied(trade, Economics(ledger, p), d)
      /\ p \in Positions /\ trade \in Trade
  BY CloseWrites
<1>2. row.deal = d /\ row.trade = p
  OBVIOUS
<1>3. ProcessedDeals(tx'.work) = ProcessedDeals(tx.work) \cup {d}
  <2>1. \A r \in ledger : r = row \/ r \in tx.work.ledger
    OBVIOUS
  <2>2. row \in ledger /\ tx.work.ledger \subseteq ledger
    OBVIOUS
  <2> HIDE DEF row, ledger
  <2> QED
    BY <1>1, <1>2, <2>1, <2>2 DEF ProcessedDeals
<1>4. \A q \in Positions : q # p => ArrivedFor(ledger, q) = ArrivedFor(tx.work.ledger, q)
  <2>1. \A q \in Positions : q # p => {s \in ledger : s.trade = q} = {s \in tx.work.ledger : s.trade = q}
    BY <1>2
  <2> QED
    BY <2>1 DEF ArrivedFor
<1>5. ASSUME NEW q \in Positions, q # p, HasTrade(tx'.work.trades, q)
      PROVE  ExitKept(tx'.work.trades[q], ledger, q)
  <2>1. tx'.work.trades[q] = tx.work.trades[q]
    BY <1>1, <1>5
  <2>2. ExitKept(tx.work.trades[q], tx.work.ledger, q)
    BY <1>5, <2>1 DEF HasTrade, ExitsKept
  <2> HIDE DEF ledger
  <2> QED
    BY <1>4, <1>5, <2>1, <2>2 DEF ExitKept
<1>6. ExitKept(new, ledger, p)
  <2>1. /\ d \in Executed /\ dealTime[d] \in Nat /\ dealTime[d] > 0
        /\ \A e \in ProcessedDeals(tx.work) : e \in Deals /\ dealTime[e] <= dealTime[d]
        /\ \A e \in Deals : dealTime[e] \in Nat
    BY NextDealIsLatest DEF Executed, TypeOK
  <2>2. ASSUME DealsOf(p) \subseteq ArrivedFor(ledger, p)
        PROVE  \A e \in DealsOf(p) : dealTime[e] <= dealTime[d]
    <3>1. ArrivedFor(ledger, p) \subseteq ProcessedDeals(tx.work) \cup {d}
      <4> HIDE DEF ledger
      <4> QED
        BY <1>1, <1>3 DEF ArrivedFor, ProcessedDeals
    <3>2. \A e \in ProcessedDeals(tx.work) \cup {d} : dealTime[e] <= dealTime[d]
      BY <2>1
    <3> HIDE DEF ledger, p
    <3> QED
      BY <2>2, <3>1, <3>2
  <2>3. CASE trade.status = "CLOSED" /\ trade.deal = d
    <3>1. new = trade
      BY <1>1, <2>3 DEF Applied
    <3>2. old # NoTrade
      BY <2>3 DEF NewTrade
    <3>3. ExitKept(trade, tx.work.ledger, p) /\ trade.exit \in Nat
      BY <1>1, <3>2 DEF ExitsKept, HasTrade, Trade
    <3>4. trade.exit > 0 /\ dealTime[d] <= trade.exit
      BY <2>3, <3>3 DEF ExitKept
    <3> HIDE DEF trade, ledger, new
    <3>5. DealsOf(p) \subseteq ArrivedFor(ledger, p) => \A e \in DealsOf(p) : dealTime[e] <= trade.exit
      BY <2>1, <2>2, <3>3, <3>4 DEF DealsOf
    <3> QED
      BY <2>1, <2>3, <3>1, <3>3, <3>4, <3>5 DEF ExitKept
  <2>4. CASE ~(trade.status = "CLOSED" /\ trade.deal = d) /\ p \in tx.positions
    <3>1. new.status = "OPEN" /\ new.deal = d /\ new.exit = 0
      BY <1>1, <2>4 DEF Applied, PartialOpen
    <3> HIDE DEF new
    <3> QED
      BY <2>1, <3>1 DEF ExitKept
  <2>5. CASE ~(trade.status = "CLOSED" /\ trade.deal = d) /\ p \notin tx.positions
    <3>1. new.status = "CLOSED" /\ new.deal = d /\ new.exit = dealTime[d]
      BY <1>1, <2>5 DEF Applied, Closed
    <3> HIDE DEF new, ledger
    <3> QED
      BY <2>1, <2>2, <3>1 DEF ExitKept
  <2> QED
    BY <2>3, <2>4, <2>5
<1> HIDE DEF ledger
<1> QED
  BY <1>1, <1>3, <1>5, <1>6 DEF ExitsKept

\* A save sets the exit to the latest time or leaves it, and a deleted trade has none.
LEMMA UserKeepsExits ==
    ASSUME TypeOK, SyncInvariant, NEW p \in Positions, ExitsKept(db),
           \A d \in Deals : dealTime[d] <= clock,
           EditTrade(p) \/ CloseTrade(p) \/ DeleteTrade(p)
    PROVE  /\ ExitsKept(db') /\ ProcessedDeals(db') = ProcessedDeals(db)
           /\ tx.pc = "idle" /\ tx' = tx
           /\ requests' = requests /\ UNCHANGED <<dealTime, clock, expired>>
<1>1. /\ db.trades \in [Positions -> Trade \cup {NoTrade}] /\ db \in Database
      /\ db.ledger \in SUBSET ProcessedDeal
      /\ clock \in Nat /\ dealTime \in [Deals -> Nat]
  BY DEF TypeOK, Database
<1>2. CASE EditTrade(p) \/ CloseTrade(p)
  <2>1. PICK exit \in {db.trades[p].exit, clock + 1} :
               db.trades[p] # NoTrade /\ SaveTrade(p, Recomputed(db.trades[p], exit))
    BY <1>2 DEF EditTrade, CloseTrade
  <2> DEFINE new == Recomputed(db.trades[p], exit)
  <2>2. /\ db.trades[p] \in Trade /\ exit \in Nat
        /\ ExitKept(db.trades[p], db.ledger, p)
    BY <1>1, <2>1 DEF Trade, ExitsKept, HasTrade
  <2>3. /\ new.exit = exit /\ new.deal = db.trades[p].deal
        /\ new.status = "CLOSED" => exit > 0
    BY <2>2 DEF Recomputed, Trade
  <2>4. ExitKept(new, db.ledger, p)
    <3> HIDE DEF new
    <3>1. CASE exit = db.trades[p].exit
      BY <2>2, <2>3, <3>1 DEF ExitKept
    <3>2. CASE exit = clock + 1
      <4>1. \A d \in Deals : dealTime[d] <= exit
        BY <1>1, <3>2
      <4>2. new.deal # NoDeal => new.deal \in Executed
        BY <2>2, <2>3 DEF ExitKept
      <4> QED
        BY <2>2, <2>3, <4>1, <4>2 DEF ExitKept, Executed, DealsOf
    <3> QED
      BY <2>1, <3>1, <3>2
  <2>5. db'.trades = [db.trades EXCEPT ![p] = new] /\ db'.ledger = db.ledger
    <3> HIDE DEF new
    <3>1. PICK balance : db' = [db EXCEPT !.trades = [db.trades EXCEPT ![p] = new],
                                          !.balance = balance]
      BY <2>1 DEF SaveTrade, new
    <3> QED
      BY <1>1, <3>1 DEF Database
  <2>6. ExitsKept(db')
    <3> HIDE DEF new
    <3> QED
      BY <1>1, <2>4, <2>5 DEF ExitsKept, HasTrade
  <2> QED
    BY <2>1, <2>5, <2>6 DEF SaveTrade, terminalVars, connectorVars, ProcessedDeals
<1>3. CASE DeleteTrade(p)
  <2> DEFINE unlinked(r) == IF r.trade = p THEN [r EXCEPT !.trade = NoPosition] ELSE r
             ledger == {unlinked(r) : r \in db.ledger}
  <2>1. db'.trades = [db.trades EXCEPT ![p] = NoTrade] /\ db'.ledger = ledger
    BY <1>1, <1>3 DEF DeleteTrade, Database
  <2>2. \A r \in db.ledger : /\ unlinked(r).deal = r.deal
                             /\ r.trade = p => unlinked(r).trade = NoPosition
                             /\ r.trade # p => unlinked(r).trade = r.trade
    BY <1>1 DEF ProcessedDeal
  <2>3. \A q \in Positions : q # p => ArrivedFor(ledger, q) = ArrivedFor(db.ledger, q)
    <3> HIDE DEF unlinked
    <3> QED
      BY <2>2 DEF ArrivedFor
  <2>4. ProcessedDeals(db') = ProcessedDeals(db)
    <3> HIDE DEF unlinked
    <3> QED
      BY <2>1, <2>2 DEF ProcessedDeals
  <2>5. ExitsKept(db')
    <3> HIDE DEF ledger
    <3>1. ASSUME NEW q \in Positions, HasTrade(db'.trades, q)
          PROVE  ExitKept(db'.trades[q], db'.ledger, q)
      <4>1. q # p /\ db'.trades[q] = db.trades[q]
        BY <1>1, <2>1, <3>1 DEF HasTrade
      <4>2. ExitKept(db.trades[q], db.ledger, q)
        BY <3>1, <4>1 DEF ExitsKept, HasTrade
      <4> QED
        BY <2>1, <2>3, <4>1, <4>2 DEF ExitKept
    <3> QED
      BY <3>1 DEF ExitsKept
  <2> QED
    BY <1>3, <2>4, <2>5 DEF DeleteTrade, terminalVars, connectorVars
<1> QED
  BY <1>2, <1>3

LEMMA TerminalKeepsOrder ==
    ASSUME TypeOK, SyncInvariant, OrderInvariant, Terminal
    PROVE  OrderInvariant'
<1>1. ASSUME NEW p \in Positions, OpenPosition(p) PROVE OrderInvariant'
  BY <1>1 DEF OpenPosition, connectorVars, OrderInvariant, InOrder, NoneSkipped, Earlier,
              Executed, ExitsKept, ExitKept, ProcessedDeals
<1>2. ASSUME NEW d \in Deals, ExecuteDeal(d) PROVE OrderInvariant'
  <2>1. /\ UNCHANGED <<requests, db, tx, expired>>
        /\ \A e \in Deals : dealTime[e] <= clock
        /\ \A r \in requests : r.deals \subseteq Executed
        /\ ProcessedDeals(db) \subseteq Executed
        /\ \A r \in db.ledger : r.deal \in Executed
        /\ tx.pc # "idle" => /\ tx.todo \subseteq Executed
                             /\ ProcessedDeals(tx.work) \subseteq Executed
                             /\ \A r \in tx.work.ledger : r.deal \in Executed
    <3>1. UNCHANGED <<requests, db, tx, expired>>
      BY <1>2 DEF ExecuteDeal, connectorVars
    <3>2. \A base, conn : Sound(base, conn, Executed) =>
              /\ ProcessedDeals(base) \subseteq Executed
              /\ \A r \in base.ledger : r.deal \in Executed
      BY DEF Sound, ProcessedDeals
    <3> QED
      BY <3>1, <3>2 DEF OrderInvariant, SyncInvariant
  <2>2. \A e \in Deals : dealTime'[e] <= clock'
    BY <1>2, <2>1 DEF ExecuteDeal, TypeOK
  <2>3. \A deals \in SUBSET Executed : \A others :
            NoneSkipped(deals, others) => NoneSkipped(deals, others)'
    BY <1>2, <2>1, LaterDealSkipsNone
  <2>4. InOrder' = InOrder
    BY <2>1 DEF InOrder
  <2>5. InOrder => ExitsKept(db)'
    BY <1>2, <2>1, LaterDealKeepsExits DEF OrderInvariant, ExitsKept
  <2>6. InOrder /\ tx.pc # "idle" => ExitsKept(tx.work)'
    BY <1>2, <2>1, LaterDealKeepsExits DEF OrderInvariant, ExitsKept
  <2> QED
    BY <2>1, <2>2, <2>3, <2>4, <2>5, <2>6 DEF OrderInvariant, ProcessedDeals
<1>3. ASSUME NEW d \in Deals, LeaveHistory(d) PROVE OrderInvariant'
  BY <1>3 DEF LeaveHistory, connectorVars, OrderInvariant, InOrder
<1> QED
  BY <1>1, <1>2, <1>3 DEF Terminal

\* What the invariant asks of a step that no time passes in.
RowsInOrder(posted, base, pc, work, todo) ==
    /\ \A r \in posted : NoneSkipped(r.deals, r.deals)
    /\ NoneSkipped(ProcessedDeals(base), ProcessedDeals(base))
    /\ ExitsKept(base)
    /\ pc # "idle" => /\ NoneSkipped(ProcessedDeals(work), ProcessedDeals(work))
                      /\ NoneSkipped(todo, ProcessedDeals(work) \cup todo)
                      /\ ExitsKept(work)

LEMMA OrderFromRows ==
    ASSUME UNCHANGED <<dealTime, clock, expired>>, OrderInvariant,
           InOrder => RowsInOrder(requests', db', tx'.pc, tx'.work, tx'.todo)
    PROVE  OrderInvariant'
<1>1. /\ Executed' = Executed /\ InOrder' = InOrder
      /\ \A deals, others : NoneSkipped(deals, others)' <=> NoneSkipped(deals, others)
      /\ \A base : ExitsKept(base)' <=> ExitsKept(base)
  BY DEF NoneSkipped, Earlier, Executed, InOrder, ExitsKept, ExitKept
<1>2. \A d \in Deals : dealTime'[d] <= clock'
  BY DEF OrderInvariant
<1>3. ExitsKept(db)' <=> ExitsKept(db')
  BY DEF ExitsKept, ExitKept, Executed
<1>4. ExitsKept(tx.work)' <=> ExitsKept(tx'.work)
  BY DEF ExitsKept, ExitKept, Executed
<1> QED
  BY <1>1, <1>2, <1>3, <1>4 DEF OrderInvariant, RowsInOrder, NoneSkipped, Earlier, Executed, ProcessedDeals

LEMMA OrderOfRows ==
    ASSUME OrderInvariant, InOrder
    PROVE  RowsInOrder(requests, db, tx.pc, tx.work, tx.todo)
BY DEF OrderInvariant, RowsInOrder

LEMMA SyncKeepsOrder ==
    ASSUME TypeOK, SyncInvariant, OrderInvariant, InOrder,
           \/ \E r \in requests : BeginSync(r)
           \/ UpsertOpenPositions
           \/ \E d \in Deals : SkipProcessedDeal(d) \/ CloseFromDeal(d)
           \/ Commit \/ Abort
    PROVE  RowsInOrder(requests', db', tx'.pc, tx'.work, tx'.todo)
<1>0. RowsInOrder(requests, db, tx.pc, tx.work, tx.todo)
  BY OrderOfRows
<1>1. ASSUME NEW r \in requests, BeginSync(r)
      PROVE  RowsInOrder(requests', db', tx'.pc, tx'.work, tx'.todo)
  <2>1. /\ db' = db /\ tx'.todo = r.deals
        /\ tx'.work.ledger = db.ledger /\ tx'.work.trades = db.trades
    BY <1>1, BeginWrites
  <2>2. requests' \subseteq requests
    BY <1>1 DEF BeginSync
  <2>3. ProcessedDeals(tx'.work) = ProcessedDeals(db) /\ ExitsKept(tx'.work)
    BY <1>0, <2>1, SameExits DEF RowsInOrder
  <2>4. NoneSkipped(r.deals, ProcessedDeals(db) \cup r.deals)
    BY <1>0 DEF RowsInOrder, NoneSkipped
  <2> QED
    BY <1>0, <2>1, <2>2, <2>3, <2>4 DEF RowsInOrder
<1>2. CASE UpsertOpenPositions
  <2>1. /\ db' = db /\ tx'.todo = tx.todo /\ tx.pc = "positions"
        /\ tx'.work.ledger = tx.work.ledger /\ requests' = requests
    BY <1>2, UpsertWrites DEF UpsertOpenPositions, connectorVars
  <2>2. ExitsKept(tx'.work)
    BY <1>0, <1>2, <2>1, UpsertKeepsExits DEF RowsInOrder
  <2> QED
    BY <1>0, <2>1, <2>2 DEF RowsInOrder, ProcessedDeals
<1>3. ASSUME NEW d \in Deals, SkipProcessedDeal(d)
      PROVE  RowsInOrder(requests', db', tx'.pc, tx'.work, tx'.todo)
  <2>1. /\ db' = db /\ tx'.todo = tx.todo \ {d} /\ tx.pc = "deals"
        /\ tx'.work = tx.work /\ requests' = requests
    BY <1>3, SkipWrites DEF SkipProcessedDeal, connectorVars
  <2>2. d \in ProcessedDeals(tx.work)
    BY <1>3 DEF SkipProcessedDeal, Processed, ProcessedDeals
  <2>3. NoneSkipped(tx.todo \ {d}, ProcessedDeals(tx.work) \cup (tx.todo \ {d}))
    BY <1>0, <2>1, <2>2 DEF RowsInOrder, NoneSkipped
  <2> QED
    BY <1>0, <2>1, <2>3 DEF RowsInOrder
<1>4. ASSUME NEW d \in Deals, CloseFromDeal(d)
      PROVE  RowsInOrder(requests', db', tx'.pc, tx'.work, tx'.todo)
  <2>1. /\ db' = db /\ tx'.todo = tx.todo \ {d} /\ tx.pc = "deals" /\ requests' = requests
    BY <1>4, CloseWrites DEF CloseFromDeal, connectorVars
  <2>2. /\ NoneSkipped(ProcessedDeals(tx.work), ProcessedDeals(tx.work))
        /\ NoneSkipped(tx.todo, ProcessedDeals(tx.work) \cup tx.todo)
        /\ ExitsKept(tx.work) /\ ~NewestFirst
    BY <1>0, <2>1 DEF RowsInOrder, InOrder
  <2>3. /\ ProcessedDeals(tx'.work) = ProcessedDeals(tx.work) \cup {d}
        /\ ExitsKept(tx'.work) /\ Earlier(d) \subseteq ProcessedDeals(tx.work)
    BY <1>4, <2>2, CloseKeepsExits, NextDealIsLatest
  <2>4. /\ NoneSkipped(ProcessedDeals(tx'.work), ProcessedDeals(tx'.work))
        /\ NoneSkipped(tx.todo \ {d}, ProcessedDeals(tx'.work) \cup (tx.todo \ {d}))
    BY <2>2, <2>3 DEF NoneSkipped
  <2> QED
    BY <1>0, <2>1, <2>3, <2>4 DEF RowsInOrder
<1>5. CASE Commit
  <2>1. /\ tx'.pc = "idle" /\ requests' = requests /\ tx.pc = "deals"
        /\ db'.ledger = tx.work.ledger /\ db'.trades = tx.work.trades
    BY <1>5, CommitPublishes
  <2>2. ProcessedDeals(db') = ProcessedDeals(tx.work) /\ ExitsKept(db')
    BY <1>0, <2>1, SameExits DEF RowsInOrder
  <2> QED
    BY <1>0, <2>1, <2>2 DEF RowsInOrder
<1>6. CASE Abort
  BY <1>0, <1>6, AbortWrites DEF RowsInOrder
<1> QED
  BY <1>1, <1>2, <1>3, <1>4, <1>5, <1>6

LEMMA CreateKeepsOrder ==
    ASSUME TypeOK, SyncInvariant, OrderInvariant, InOrder, CreateConnection
    PROVE  RowsInOrder(requests', db', tx'.pc, tx'.work, tx'.todo)
<1>1. RowsInOrder(requests, db, tx.pc, tx.work, tx.todo)
  BY OrderOfRows
<1>2. /\ db'.ledger = {} /\ db'.trades = db.trades /\ tx.pc = "idle" /\ tx' = tx
      /\ requests' = requests
  BY CreateWrites
<1>3. \A p : ArrivedFor(db'.ledger, p) = {}
  BY <1>2 DEF ArrivedFor
<1>4. ProcessedDeals(db') = {}
  BY <1>2 DEF ProcessedDeals
<1>5. ExitsKept(db')
  BY <1>1, <1>2, <1>3 DEF RowsInOrder, ExitsKept, ExitKept
<1> QED
  BY <1>1, <1>2, <1>4, <1>5 DEF RowsInOrder, NoneSkipped

LEMMA OrderStep ==
    ASSUME TypeOK, SyncInvariant, OrderInvariant, Next
    PROVE  OrderInvariant'
<1>1. CASE Terminal
  BY <1>1, TerminalKeepsOrder
<1>2. ASSUME ~Terminal PROVE UNCHANGED <<dealTime, clock, expired>>
  BY <1>2 DEF Next, ConnectorStep, ReadPositions, ReadDealsAndSend, Timeout, InstallToken, Lose,
              Server, Reject, BeginSync, UpsertOpenPositions, SkipProcessedDeal, CloseFromDeal,
              Commit, Abort, User, CreateConnection, RegenerateConnection, RevokeConnection,
              EditTrade, CloseTrade, SaveTrade, DeleteTrade, terminalVars
<1>3. CASE ~Terminal /\ InOrder
  <2>1. RowsInOrder(requests, db, tx.pc, tx.work, tx.todo)
    BY <1>3, OrderOfRows
  <2>2. CASE ConnectorStep \/ (\E r \in requests : Reject(r))
               \/ RegenerateConnection \/ RevokeConnection
    <3>1. db' = db /\ tx'.pc = tx.pc /\ tx'.work = tx.work /\ tx'.todo = tx.todo
      BY <2>2, QuietWrites
    <3>2. \A r \in requests' :
              (\E s \in requests : r.deals = s.deals) \/ r.deals = Executed \ expired
      <4>1. CASE ReadDealsAndSend
        BY <4>1 DEF ReadDealsAndSend
      <4>2. CASE Timeout
        BY <4>2 DEF Timeout, TypeOK, Request
      <4>3. CASE ~ReadDealsAndSend /\ ~Timeout
        BY <2>2, <4>3 DEF ConnectorStep, ReadPositions, InstallToken, Lose,
                  Reject, RegenerateConnection, RevokeConnection, connectorVars
      <4> QED
        BY <4>1, <4>2, <4>3
    <3>3. NoneSkipped(Executed, Executed)
      BY DEF NoneSkipped, Earlier
    <3>4. \A r \in requests' : NoneSkipped(r.deals, r.deals)
      <4>1. Executed \ expired = Executed
        BY <1>3 DEF InOrder
      <4>2. \A r \in requests : NoneSkipped(r.deals, r.deals)
        BY <2>1 DEF RowsInOrder
      <4> QED
        BY <3>2, <3>3, <4>1, <4>2
    <3>5. RowsInOrder(requests', db', tx'.pc, tx'.work, tx'.todo)
      BY <2>1, <3>1, <3>4 DEF RowsInOrder
    <3> QED
      BY <1>2, <1>3, <3>5, OrderFromRows
  <2>3. CASE Server /\ ~(\E r \in requests : Reject(r))
    BY <1>2, <1>3, <2>3, SyncKeepsOrder, OrderFromRows DEF Server
  <2>4. CASE CreateConnection
    BY <1>2, <1>3, <2>4, CreateKeepsOrder, OrderFromRows
  <2>5. ASSUME NEW p \in Positions, EditTrade(p) \/ CloseTrade(p) \/ DeleteTrade(p)
        PROVE  OrderInvariant'
    <3>1. ExitsKept(db) /\ \A d \in Deals : dealTime[d] <= clock
      BY <1>3 DEF OrderInvariant
    <3>2. RowsInOrder(requests', db', tx'.pc, tx'.work, tx'.todo)
      BY <2>1, <2>5, <3>1, UserKeepsExits DEF RowsInOrder
    <3> QED
      BY <1>2, <1>3, <3>2, OrderFromRows
  <2> QED
    BY <1>2, <1>3, <2>2, <2>3, <2>4, <2>5, OrderFromRows DEF Next, User
<1>4. CASE ~Terminal /\ ~InOrder
  BY <1>2, <1>4, OrderFromRows
<1> QED
  BY <1>1, <1>3, <1>4

\* A connector that lists the oldest deal first brings no deal before an older one, and
\* apply_sync keeps the exits in that order.
THEOREM OrderInvariantHolds == Spec => []OrderInvariant
<1>1. Init => OrderInvariant
  <2> SUFFICES ASSUME Init PROVE OrderInvariant
    OBVIOUS
  <2>1. /\ requests = {} /\ tx.pc = "idle" /\ ProcessedDeals(db) = {}
        /\ \A p \in Positions : ~HasTrade(db.trades, p)
        /\ \A d \in Deals : dealTime[d] = 0 /\ clock = 0
    BY DEF Init, NoTransaction, EmptyDatabase, ProcessedDeals, HasTrade
  <2> QED
    BY <2>1 DEF OrderInvariant, NoneSkipped, ExitsKept
<1>2. OrderInvariant /\ UNCHANGED vars => OrderInvariant'
  <2> SUFFICES ASSUME OrderInvariant, UNCHANGED vars PROVE OrderInvariant'
    OBVIOUS
  <2>1. InOrder => RowsInOrder(requests', db', tx'.pc, tx'.work, tx'.todo)
    BY OrderOfRows DEF vars
  <2> QED
    BY <2>1, OrderFromRows DEF vars
<1> QED
  BY <1>1, <1>2, OrderStep, TypeCorrect, SyncInvariantHolds, PTL DEF Spec

\* For the companion, as long as no deal has left its history window: the exit of a trade
\* whose position is fully closed is not before any closing deal of it, whatever the user
\* edits, closes, deletes or reconnects, and whatever is lost, retried or rolled back.
THEOREM ExitsAreOfLastDeal == Spec => [](InOrder => ExitIsLastDeal)
<1>1. OrderInvariant => (InOrder => ExitIsLastDeal)
  BY DEF OrderInvariant, ExitsKept, ExitKept, ExitIsLastDeal, IsClosed, HasTrade
<1> QED
  BY <1>1, OrderInvariantHolds, PTL

-----------------------------------------------------------------------------
(* Closing, when one request is under way at a time                        *)

\* The connector gives no request up that can still arrive, and the terminal does not trade
\* between its two reads.
OneAtATime == MaxLate = 0 /\ ~Gap

\* Not all closing deals of the position are among these.
Pending(p, deals) == ~(DealsOf(p) \subseteq deals)

\* The deals that the transaction in progress has processed or still has to.
UnderWay == IF tx.pc = "idle" THEN {} ELSE ProcessedDeals(tx.work) \cup tx.todo

\* A trade is not open when all deals of its position have arrived.
ArrivalKept(trade, ledger, p) ==
    /\ trade.status = "CLOSED" => trade.exit > 0
    /\ DealsOf(p) \subseteq ArrivedFor(ledger, p) => trade.status # "OPEN"

ArrivalsKept(base) ==
    \A p \in Positions : HasTrade(base.trades, p) => ArrivalKept(base.trades[p], base.ledger, p)

\* Who waits for what: at most one request, which the connector waits for, or a transaction
\* it waits for; and a position that is being read still has a deal to come.
LineInvariant ==
    /\ \A r \in requests : r.awaited /\ requests = {r}
    /\ requests # {} => connector.pc = "waiting"
    /\ tx.pc # "idle" /\ tx.awaited => requests = {} /\ connector.pc = "waiting"
    /\ connector.pc = "reading" => \A p \in connector.positions : Pending(p, Executed)

\* A position sent as open still has a deal to come after all that is known or under way.
ArrivalInvariant ==
    /\ \A r \in requests : \A p \in r.positions :
          Pending(p, r.deals \cup ProcessedDeals(db) \cup UnderWay)
    /\ ArrivalsKept(db)
    /\ tx.pc # "idle" => ArrivalsKept(tx.work) /\ \A p \in tx.positions : Pending(p, UnderWay)

LEMMA PendingOfFewer ==
    ASSUME NEW p, NEW deals, NEW fewer, Pending(p, deals), fewer \subseteq deals
    PROVE  Pending(p, fewer)
BY DEF Pending

LEMMA SameArrivals ==
    ASSUME NEW base, NEW other, other.ledger = base.ledger, other.trades = base.trades
    PROVE  ArrivalsKept(base) <=> ArrivalsKept(other)
BY DEF ArrivalsKept

LEMMA ArrivedAreProcessed ==
    ASSUME NEW base, NEW p
    PROVE  ArrivedFor(base.ledger, p) \subseteq ProcessedDeals(base)
BY DEF ArrivedFor, ProcessedDeals

\* All that is known or under way was executed.
LEMMA KnownIsExecuted ==
    ASSUME SyncInvariant
    PROVE  ProcessedDeals(db) \cup UnderWay \subseteq Executed
<1>1. \A base, conn : Sound(base, conn, Executed) => ProcessedDeals(base) \subseteq Executed
  BY DEF Sound, ProcessedDeals
<1> QED
  BY <1>1 DEF SyncInvariant, UnderWay

-----------------------------------------------------------------------------

LEMMA TimeoutFindsNoRequest ==
    ASSUME OneAtATime, LineInvariant, Timeout
    PROVE  requests = {}
<1>1. Abandoned = {}
  BY DEF Abandoned, LineInvariant
<1>2. Cardinality(Abandoned) = 0
  BY <1>1, FS_EmptySet
<1> QED
  BY <1>2 DEF Timeout, OneAtATime, LineInvariant

LEMMA LineStep ==
    ASSUME TypeOK, OneAtATime, LineInvariant, Next
    PROVE  LineInvariant'
<1>1. CASE Terminal
  <2>1. UNCHANGED <<connector, requests, tx>>
    BY <1>1 DEF Terminal, OpenPosition, ExecuteDeal, LeaveHistory, connectorVars
  <2>2. connector.pc = "reading" => dealTime' = dealTime
    BY <1>1 DEF Terminal, OpenPosition, ExecuteDeal, LeaveHistory, TerminalMoves, OneAtATime
  <2> QED
    BY <2>1, <2>2 DEF LineInvariant, Executed, Pending
<1>2. CASE ReadPositions
  <2>1. /\ UNCHANGED <<requests, tx, dealTime>> /\ connector.pc = "idle"
        /\ connector'.positions = {p \in Positions : BrokerOpen(p)}
    BY <1>2 DEF ReadPositions, terminalVars, TypeOK, Connector
  <2>2. requests = {} /\ (tx.pc = "idle" \/ ~tx.awaited)
    BY <2>1 DEF LineInvariant
  <2>3. \A p \in connector'.positions : Pending(p, Executed)'
    BY <2>1 DEF BrokerOpen, Pending, Executed
  <2> QED
    BY <2>1, <2>2, <2>3 DEF LineInvariant
<1>3. CASE ReadDealsAndSend
  <2>1. /\ connector.pc = "reading" /\ connector'.pc = "waiting" /\ tx' = tx
    BY <1>3 DEF ReadDealsAndSend, TypeOK, Connector
  <2>2. requests = {} /\ (tx.pc = "idle" \/ ~tx.awaited)
    BY <2>1 DEF LineInvariant
  <2> DEFINE posted == [token |-> connector.token, positions |-> connector.positions,
                        deals |-> Executed \ expired, awaited |-> TRUE]
  <2>3. requests' = {posted}
    BY <1>3, <2>2 DEF ReadDealsAndSend
  <2>4. posted.awaited
    OBVIOUS
  <2> HIDE DEF posted
  <2> QED
    BY <2>1, <2>2, <2>3, <2>4 DEF LineInvariant
<1>4. CASE Timeout
  <2>1. requests' = {}
    BY <1>4, TimeoutFindsNoRequest DEF Timeout
  <2>2. connector'.pc = "idle" /\ tx'.awaited = FALSE
    BY <1>4 DEF Timeout, TypeOK, Connector, Transaction
  <2> QED
    BY <2>1, <2>2 DEF LineInvariant
<1>5. CASE InstallToken
  BY <1>5 DEF InstallToken, TypeOK, Connector, LineInvariant, Executed, Pending, terminalVars
<1>6. ASSUME NEW r \in requests, Lose(r) PROVE LineInvariant'
  <2>1. requests' = {} /\ UNCHANGED <<connector, tx, dealTime>>
    BY <1>6 DEF Lose, LineInvariant, terminalVars
  <2> QED
    BY <2>1 DEF LineInvariant, Executed, Pending
<1>7. ASSUME NEW r \in requests, Reject(r) PROVE LineInvariant'
  <2>1. requests' = {} /\ UNCHANGED <<tx, dealTime>> /\ requests # {} /\ r.awaited
    BY <1>7 DEF Reject, LineInvariant, terminalVars
  <2>2. connector'.pc = "idle"
    BY <1>7, <2>1 DEF Reject, Respond, TypeOK, Connector
  <2>3. tx.pc = "idle" \/ ~tx.awaited
    BY <2>1 DEF LineInvariant
  <2> QED
    BY <2>1, <2>2, <2>3 DEF LineInvariant
<1>8. ASSUME NEW r \in requests, BeginSync(r) PROVE LineInvariant'
  <2>1. requests' = {} /\ connector.pc = "waiting" /\ connector' = connector
    BY <1>8 DEF BeginSync, LineInvariant
  <2> QED
    BY <2>1 DEF LineInvariant
<1>9. CASE UpsertOpenPositions \/ (\E d \in Deals : SkipProcessedDeal(d) \/ CloseFromDeal(d))
  <2>1. /\ UNCHANGED <<connector, requests, dealTime>>
        /\ tx'.awaited = tx.awaited /\ tx.pc # "idle"
    <3>1. UNCHANGED <<connector, requests, dealTime>>
      BY <1>9 DEF UpsertOpenPositions, SkipProcessedDeal, CloseFromDeal, terminalVars,
                  connectorVars
    <3> QED
      BY <1>9, <3>1, UpsertWrites, SkipWrites, CloseWrites
  <2> QED
    BY <2>1 DEF LineInvariant, Executed, Pending
<1>10. CASE Commit \/ Abort
  <2>1. /\ UNCHANGED <<requests, dealTime>> /\ tx'.pc = "idle" /\ tx.pc # "idle"
        /\ Respond(tx.awaited)
    BY <1>10 DEF Commit, Abort, NoTransaction, terminalVars
  <2>2. CASE tx.awaited
    <3>1. connector'.pc = "idle" /\ requests = {}
      BY <2>1, <2>2 DEF Respond, LineInvariant, TypeOK, Connector
    <3> QED
      BY <2>1, <3>1 DEF LineInvariant
  <2>3. CASE ~tx.awaited
    <3>1. connector' = connector
      BY <2>1, <2>3 DEF Respond
    <3> QED
      BY <2>1, <3>1 DEF LineInvariant, Executed, Pending
  <2> QED
    BY <2>2, <2>3
<1>11. CASE User
  <2>1. UNCHANGED <<connector, requests, tx, dealTime>>
    BY <1>11 DEF User, CreateConnection, RegenerateConnection, RevokeConnection,
              EditTrade, CloseTrade, SaveTrade, DeleteTrade, terminalVars, connectorVars
  <2> QED
    BY <2>1 DEF LineInvariant, Executed, Pending
<1> QED
  BY <1>1, <1>2, <1>3, <1>4, <1>5, <1>6, <1>7, <1>8, <1>9, <1>10, <1>11
     DEF Next, ConnectorStep, Server

-----------------------------------------------------------------------------

LEMMA UpsertKeepsArrivals ==
    ASSUME TypeOK, UpsertOpenPositions, ArrivalsKept(tx.work),
           \A p \in tx.positions : Pending(p, UnderWay)
    PROVE  /\ ArrivalsKept(tx'.work) /\ UNCHANGED <<requests, db>>
           /\ tx'.pc # "idle" /\ tx'.positions = tx.positions /\ UnderWay' = UnderWay
<1>1. /\ tx.work.ledger \in SUBSET ProcessedDeal
      /\ tx.work.trades \in [Positions -> Trade \cup {NoTrade}]
      /\ tx.positions \subseteq Positions /\ tx.pc = "positions"
      /\ tx'.work.ledger = tx.work.ledger /\ tx'.todo = tx.todo /\ tx'.pc = "deals"
  BY UpsertWrites DEF TypeOK, Transaction, Database
<1>2. ASSUME NEW p \in Positions, HasTrade(tx'.work.trades, p)
      PROVE  ArrivalKept(tx'.work.trades[p], tx.work.ledger, p)
  <2>1. CASE p \notin tx.positions
    <3>1. tx'.work.trades[p] = tx.work.trades[p]
      BY <2>1, UpsertWrites
    <3> QED
      BY <1>2, <3>1 DEF ArrivalsKept, HasTrade
  <2>2. CASE p \in tx.positions
    <3> DEFINE old == tx.work.trades[p]
               pnl == Economics(tx.work.ledger, LinkOf(old, p))
               new == tx'.work.trades[p]
    <3>1. new = Upserted(old, pnl)
      BY <2>2, UpsertWrites
    <3>2. old \in Trade \cup {NoTrade} /\ pnl \in SUBSET Entry
      BY <1>1, EconomicsType
    <3>3. new.status = "OPEN"
      <4> HIDE DEF pnl, old, new
      <4> QED
        BY <3>1, <3>2, UpsertedIs
    <3>4. ~(DealsOf(p) \subseteq ArrivedFor(tx.work.ledger, p))
      BY <1>1, <2>2, ArrivedAreProcessed DEF Pending, UnderWay
    <3>5. ArrivalKept(new, tx.work.ledger, p)
      <4> HIDE DEF pnl, new
      <4> QED
        BY <3>3, <3>4 DEF ArrivalKept
    <3> QED
      BY <3>5
  <2> QED
    BY <2>1, <2>2
<1>3. UnderWay' = UnderWay
  BY <1>1 DEF UnderWay, ProcessedDeals
<1> QED
  BY <1>1, <1>2, <1>3, UpsertWrites DEF ArrivalsKept, UpsertOpenPositions, connectorVars

LEMMA CloseKeepsArrivals ==
    ASSUME TypeOK, SyncInvariant, NEW d \in Deals, CloseFromDeal(d), ArrivalsKept(tx.work),
           \A p \in tx.positions : Pending(p, UnderWay)
    PROVE  /\ ArrivalsKept(tx'.work) /\ UNCHANGED <<requests, db>>
           /\ tx'.pc # "idle" /\ tx'.positions = tx.positions /\ UnderWay' = UnderWay
<1> DEFINE p      == PosOf[d]
           old    == tx.work.trades[p]
           trade  == IF old = NoTrade THEN NewTrade ELSE old
           row    == [conn |-> tx.conn, deal |-> d, trade |-> p]
           ledger == tx.work.ledger \cup {row}
           new    == tx'.work.trades[p]
<1>1. /\ tx'.work.ledger = ledger
      /\ \A q \in Positions \ {p} : tx'.work.trades[q] = tx.work.trades[q]
      /\ new = Applied(trade, Economics(ledger, p), d)
      /\ p \in Positions /\ trade \in Trade
      /\ tx.pc = "deals" /\ tx'.pc = "deals"
      /\ tx'.positions = tx.positions /\ tx'.todo = tx.todo \ {d}
  BY CloseWrites
<1>2. row.deal = d /\ row.trade = p
  OBVIOUS
<1>3. ProcessedDeals(tx'.work) = ProcessedDeals(tx.work) \cup {d}
  <2>1. \A r \in ledger : r = row \/ r \in tx.work.ledger
    OBVIOUS
  <2>2. row \in ledger /\ tx.work.ledger \subseteq ledger
    OBVIOUS
  <2> HIDE DEF row, ledger
  <2> QED
    BY <1>1, <1>2, <2>1, <2>2 DEF ProcessedDeals
<1>4. \A q \in Positions : q # p => ArrivedFor(ledger, q) = ArrivedFor(tx.work.ledger, q)
  <2>1. \A q \in Positions : q # p =>
            {s \in ledger : s.trade = q} = {s \in tx.work.ledger : s.trade = q}
    BY <1>2
  <2> QED
    BY <2>1 DEF ArrivedFor
<1>5. d \in tx.todo /\ d \in Executed /\ dealTime[d] > 0
  BY DEF CloseFromDeal, NextInPayload, SyncInvariant, Executed
<1>6. UnderWay' = UnderWay /\ UnderWay = ProcessedDeals(tx'.work) \cup tx'.todo
  BY <1>1, <1>3, <1>5 DEF UnderWay
<1>7. ASSUME NEW q \in Positions, q # p, HasTrade(tx'.work.trades, q)
      PROVE  ArrivalKept(tx'.work.trades[q], ledger, q)
  <2>1. tx'.work.trades[q] = tx.work.trades[q]
    BY <1>1, <1>7
  <2>2. ArrivalKept(tx.work.trades[q], tx.work.ledger, q)
    BY <1>7, <2>1 DEF HasTrade, ArrivalsKept
  <2> HIDE DEF ledger
  <2> QED
    BY <1>4, <1>7, <2>1, <2>2 DEF ArrivalKept
<1>8. ArrivalKept(new, ledger, p)
  <2>1. CASE trade.status = "CLOSED" /\ trade.deal = d
    <3>1. new = trade
      BY <1>1, <2>1 DEF Applied
    <3>2. old # NoTrade
      BY <2>1 DEF NewTrade
    <3>3. ArrivalKept(trade, tx.work.ledger, p)
      BY <1>1, <3>2 DEF ArrivalsKept, HasTrade
    <3> HIDE DEF trade, ledger, new
    <3> QED
      BY <2>1, <3>1, <3>3 DEF ArrivalKept
  <2>2. CASE ~(trade.status = "CLOSED" /\ trade.deal = d) /\ p \in tx.positions
    <3>1. new.status = "OPEN"
      BY <1>1, <2>2 DEF Applied, PartialOpen
    <3>2. ArrivedFor(ledger, p) \subseteq UnderWay
      <4> HIDE DEF ledger
      <4> QED
        BY <1>1, <1>6, ArrivedAreProcessed
    <3> HIDE DEF new, ledger
    <3> QED
      BY <2>2, <3>1, <3>2 DEF ArrivalKept, Pending
  <2>3. CASE ~(trade.status = "CLOSED" /\ trade.deal = d) /\ p \notin tx.positions
    <3>1. new.status = "CLOSED" /\ new.exit = dealTime[d]
      BY <1>1, <2>3 DEF Applied, Closed
    <3> HIDE DEF new, ledger
    <3> QED
      BY <1>5, <3>1 DEF ArrivalKept
  <2> QED
    BY <2>1, <2>2, <2>3
<1>9. ArrivalsKept(tx'.work)
  <2> HIDE DEF ledger
  <2> QED
    BY <1>1, <1>7, <1>8 DEF ArrivalsKept
<1> QED
  BY <1>1, <1>6, <1>9 DEF CloseFromDeal, connectorVars

\* A save either gives the trade an exit or leaves its status as it was.
LEMMA UserKeepsArrivals ==
    ASSUME TypeOK, NEW p \in Positions, ArrivalsKept(db),
           EditTrade(p) \/ CloseTrade(p) \/ DeleteTrade(p)
    PROVE  /\ ArrivalsKept(db') /\ ProcessedDeals(db') = ProcessedDeals(db)
           /\ UNCHANGED <<tx, requests>> /\ tx.pc = "idle"
<1>1. /\ db.trades \in [Positions -> Trade \cup {NoTrade}] /\ db \in Database
      /\ db.ledger \in SUBSET ProcessedDeal /\ clock \in Nat
  BY DEF TypeOK, Database
<1>2. CASE EditTrade(p) \/ CloseTrade(p)
  <2>1. PICK exit \in {db.trades[p].exit, clock + 1} :
               db.trades[p] # NoTrade /\ SaveTrade(p, Recomputed(db.trades[p], exit))
    BY <1>2 DEF EditTrade, CloseTrade
  <2> DEFINE new == Recomputed(db.trades[p], exit)
  <2>2. /\ db.trades[p] \in Trade /\ exit \in Nat
        /\ ArrivalKept(db.trades[p], db.ledger, p)
    BY <1>1, <2>1 DEF Trade, ArrivalsKept, HasTrade
  <2>3. /\ new.exit = exit /\ new.status = IF exit > 0 THEN "CLOSED" ELSE "OPEN"
        /\ db.trades[p].status \in {"OPEN", "CLOSED"}
    BY <2>2 DEF Recomputed, Trade
  <2>4. ArrivalKept(new, db.ledger, p)
    <3> HIDE DEF new
    <3>1. exit > 0 \/ exit = db.trades[p].exit
      BY <1>1, <2>1
    <3> QED
      BY <2>2, <2>3, <3>1 DEF ArrivalKept
  <2>5. db'.trades = [db.trades EXCEPT ![p] = new] /\ db'.ledger = db.ledger
    <3> HIDE DEF new
    <3>1. PICK balance : db' = [db EXCEPT !.trades = [db.trades EXCEPT ![p] = new],
                                          !.balance = balance]
      BY <2>1 DEF SaveTrade, new
    <3> QED
      BY <1>1, <3>1 DEF Database
  <2>6. ArrivalsKept(db')
    <3> HIDE DEF new
    <3> QED
      BY <1>1, <2>4, <2>5 DEF ArrivalsKept, HasTrade
  <2> QED
    BY <2>1, <2>5, <2>6 DEF SaveTrade, connectorVars, ProcessedDeals
<1>3. CASE DeleteTrade(p)
  <2> DEFINE unlinked(r) == IF r.trade = p THEN [r EXCEPT !.trade = NoPosition] ELSE r
             ledger == {unlinked(r) : r \in db.ledger}
  <2>1. db'.trades = [db.trades EXCEPT ![p] = NoTrade] /\ db'.ledger = ledger
    BY <1>1, <1>3 DEF DeleteTrade, Database
  <2>2. \A r \in db.ledger : /\ unlinked(r).deal = r.deal
                             /\ r.trade = p => unlinked(r).trade = NoPosition
                             /\ r.trade # p => unlinked(r).trade = r.trade
    BY <1>1 DEF ProcessedDeal
  <2>3. \A q \in Positions : q # p => ArrivedFor(ledger, q) = ArrivedFor(db.ledger, q)
    <3> HIDE DEF unlinked
    <3> QED
      BY <2>2 DEF ArrivedFor
  <2>4. ProcessedDeals(db') = ProcessedDeals(db)
    <3> HIDE DEF unlinked
    <3> QED
      BY <2>1, <2>2 DEF ProcessedDeals
  <2>5. ArrivalsKept(db')
    <3> HIDE DEF ledger
    <3>1. ASSUME NEW q \in Positions, HasTrade(db'.trades, q)
          PROVE  ArrivalKept(db'.trades[q], db'.ledger, q)
      <4>1. q # p /\ db'.trades[q] = db.trades[q]
        BY <1>1, <2>1, <3>1 DEF HasTrade
      <4>2. ArrivalKept(db.trades[q], db.ledger, q)
        BY <3>1, <4>1 DEF ArrivalsKept, HasTrade
      <4> QED
        BY <2>1, <2>3, <4>1, <4>2 DEF ArrivalKept
    <3> QED
      BY <3>1 DEF ArrivalsKept
  <2> QED
    BY <1>3, <2>4, <2>5 DEF DeleteTrade, connectorVars
<1> QED
  BY <1>2, <1>3

LEMMA ArrivalStep ==
    ASSUME TypeOK, SyncInvariant, LineInvariant, ArrivalInvariant, OneAtATime, Next
    PROVE  ArrivalInvariant'
<1>1. CASE Terminal \/ ConnectorStep \/ (\E r \in requests : Reject(r))
             \/ RegenerateConnection \/ RevokeConnection
  <2>1. /\ db' = db /\ tx'.pc = tx.pc /\ tx'.work = tx.work /\ tx'.todo = tx.todo
        /\ tx'.positions = tx.positions
    BY <1>1, QuietWrites
  <2>2. UnderWay' = UnderWay
    BY <2>1 DEF UnderWay, ProcessedDeals
  <2>3. ASSUME NEW r \in requests', NEW p \in r.positions
        PROVE  Pending(p, r.deals \cup ProcessedDeals(db) \cup UnderWay)
    <3>1. CASE r \in requests
      BY <2>3, <3>1 DEF ArrivalInvariant
    <3>2. CASE ReadDealsAndSend /\ r \notin requests
      <4>1. /\ connector.pc = "reading" /\ r.positions = connector.positions
            /\ r.deals = Executed \ expired
        BY <2>3, <3>2 DEF ReadDealsAndSend
      <4>2. Pending(p, Executed)
        BY <2>3, <4>1 DEF LineInvariant
      <4>3. r.deals \cup ProcessedDeals(db) \cup UnderWay \subseteq Executed
        BY <4>1, KnownIsExecuted
      <4> QED
        BY <4>2, <4>3, PendingOfFewer
    <3>3. CASE ~ReadDealsAndSend /\ r \notin requests
      <4>1. CASE Timeout
        BY <3>3, <4>1, TimeoutFindsNoRequest, <2>3 DEF Timeout
      <4>2. CASE ~Timeout
        BY <1>1, <2>3, <3>3, <4>2
           DEF Terminal, OpenPosition, ExecuteDeal, LeaveHistory, ConnectorStep,
               ReadPositions, InstallToken, Lose, Reject, RegenerateConnection,
               RevokeConnection, connectorVars
      <4> QED
        BY <4>1, <4>2
    <3> QED
      BY <3>1, <3>2, <3>3
  <2>4. \A p, deals : Pending(p, deals)' <=> Pending(p, deals)
    BY DEF Pending
  <2> QED
    BY <2>1, <2>2, <2>3 DEF ArrivalInvariant, ArrivalsKept, Pending, ProcessedDeals
<1>2. ASSUME NEW r \in requests, BeginSync(r) PROVE ArrivalInvariant'
  <2>1. /\ db' = db /\ tx'.todo = r.deals /\ tx'.positions = r.positions
        /\ tx'.work.ledger = db.ledger /\ tx'.work.trades = db.trades
        /\ tx.pc = "idle" /\ tx'.pc = "positions"
    BY <1>2, BeginWrites
  <2>2. requests' = {}
    BY <1>2 DEF BeginSync, LineInvariant
  <2>3. UnderWay' = ProcessedDeals(db) \cup r.deals
    BY <2>1 DEF UnderWay, ProcessedDeals
  <2>4. ArrivalsKept(tx'.work)
    BY <2>1, SameArrivals DEF ArrivalInvariant
  <2>5. ASSUME NEW p \in r.positions PROVE Pending(p, UnderWay')
    <3>1. Pending(p, r.deals \cup ProcessedDeals(db) \cup UnderWay)
      BY <2>5 DEF ArrivalInvariant
    <3>2. UnderWay' \subseteq r.deals \cup ProcessedDeals(db) \cup UnderWay
      BY <2>3
    <3> QED
      BY <3>1, <3>2, PendingOfFewer
  <2> QED
    BY <2>1, <2>2, <2>4, <2>5 DEF ArrivalInvariant, ArrivalsKept, Pending
<1>3. CASE UpsertOpenPositions \/ (\E d \in Deals : CloseFromDeal(d))
  <2>1. tx.pc # "idle"
    BY <1>3 DEF UpsertOpenPositions, CloseFromDeal
  <2>2. ArrivalsKept(tx.work) /\ \A p \in tx.positions : Pending(p, UnderWay)
    BY <2>1 DEF ArrivalInvariant
  <2>3. /\ ArrivalsKept(tx'.work) /\ UNCHANGED <<requests, db>>
        /\ tx'.pc # "idle" /\ tx'.positions = tx.positions /\ UnderWay' = UnderWay
    BY <1>3, <2>2, UpsertKeepsArrivals, CloseKeepsArrivals
  <2> QED
    BY <2>2, <2>3 DEF ArrivalInvariant, ArrivalsKept, Pending, ProcessedDeals
<1>4. ASSUME NEW d \in Deals, SkipProcessedDeal(d) PROVE ArrivalInvariant'
  <2>1. /\ db' = db /\ tx'.todo = tx.todo \ {d} /\ tx.pc = "deals" /\ tx'.pc = "deals"
        /\ tx'.work = tx.work /\ requests' = requests /\ tx'.positions = tx.positions
    BY <1>4, SkipWrites DEF SkipProcessedDeal, connectorVars
  <2>2. d \in ProcessedDeals(tx.work)
    BY <1>4 DEF SkipProcessedDeal, Processed, ProcessedDeals
  <2>3. UnderWay' = UnderWay
    BY <2>1, <2>2 DEF UnderWay, ProcessedDeals
  <2> QED
    BY <2>1, <2>3 DEF ArrivalInvariant, ArrivalsKept, Pending, ProcessedDeals
<1>5. CASE Commit
  <2>1. /\ tx'.pc = "idle" /\ requests' = requests /\ tx.pc = "deals"
        /\ db'.ledger = tx.work.ledger /\ db'.trades = tx.work.trades
    BY <1>5, CommitPublishes
  <2>2. ProcessedDeals(db') \subseteq UnderWay /\ UnderWay' = {} /\ ArrivalsKept(db')
    BY <2>1, SameArrivals DEF UnderWay, ProcessedDeals, ArrivalInvariant
  <2>3. ASSUME NEW r \in requests, NEW p \in r.positions
        PROVE  Pending(p, r.deals \cup ProcessedDeals(db') \cup UnderWay')
    <3>1. Pending(p, r.deals \cup ProcessedDeals(db) \cup UnderWay)
      BY <2>3 DEF ArrivalInvariant
    <3>2. r.deals \cup ProcessedDeals(db') \cup UnderWay'
              \subseteq r.deals \cup ProcessedDeals(db) \cup UnderWay
      BY <2>2
    <3> QED
      BY <3>1, <3>2, PendingOfFewer
  <2> QED
    BY <2>1, <2>2, <2>3 DEF ArrivalInvariant, ArrivalsKept, Pending, ProcessedDeals
<1>6. CASE Abort
  <2>1. db' = db /\ requests' = requests /\ tx'.pc = "idle" /\ UnderWay' = {}
    BY <1>6, AbortWrites DEF UnderWay
  <2>2. ASSUME NEW r \in requests, NEW p \in r.positions
        PROVE  Pending(p, r.deals \cup ProcessedDeals(db) \cup UnderWay')
    <3>1. Pending(p, r.deals \cup ProcessedDeals(db) \cup UnderWay)
      BY <2>2 DEF ArrivalInvariant
    <3>2. r.deals \cup ProcessedDeals(db) \cup UnderWay'
              \subseteq r.deals \cup ProcessedDeals(db) \cup UnderWay
      BY <2>1
    <3> QED
      BY <3>1, <3>2, PendingOfFewer
  <2> QED
    BY <2>1, <2>2 DEF ArrivalInvariant, ArrivalsKept, Pending, ProcessedDeals
<1>7. CASE CreateConnection
  <2>1. /\ db'.ledger = {} /\ db'.trades = db.trades /\ tx.pc = "idle" /\ tx' = tx
        /\ requests' = requests
    BY <1>7, CreateWrites
  <2>2. ProcessedDeals(db') = {} /\ \A p : ArrivedFor(db'.ledger, p) = {}
    BY <2>1 DEF ProcessedDeals, ArrivedFor
  <2>3. ArrivalsKept(db')
    BY <2>1, <2>2 DEF ArrivalInvariant, ArrivalsKept, ArrivalKept
  <2>4. UnderWay' = {}
    BY <2>1 DEF UnderWay
  <2>5. ASSUME NEW r \in requests, NEW p \in r.positions
        PROVE  Pending(p, r.deals \cup ProcessedDeals(db') \cup UnderWay')
    <3>1. Pending(p, r.deals \cup ProcessedDeals(db) \cup UnderWay)
      BY <2>5 DEF ArrivalInvariant
    <3>2. r.deals \cup ProcessedDeals(db') \cup UnderWay'
              \subseteq r.deals \cup ProcessedDeals(db) \cup UnderWay
      BY <2>2, <2>4
    <3> QED
      BY <3>1, <3>2, PendingOfFewer
  <2> QED
    BY <2>1, <2>3, <2>5 DEF ArrivalInvariant, ArrivalsKept, Pending, ProcessedDeals
<1>8. ASSUME NEW p \in Positions, EditTrade(p) \/ CloseTrade(p) \/ DeleteTrade(p)
      PROVE  ArrivalInvariant'
  <2>1. ArrivalsKept(db)
    BY DEF ArrivalInvariant
  <2>2. /\ ArrivalsKept(db') /\ ProcessedDeals(db') = ProcessedDeals(db)
        /\ UNCHANGED <<tx, requests>> /\ tx.pc = "idle"
    BY <1>8, <2>1, UserKeepsArrivals
  <2>3. UnderWay' = UnderWay
    BY <2>2 DEF UnderWay
  <2>4. \A r \in requests : \A q \in r.positions :
            Pending(q, r.deals \cup ProcessedDeals(db') \cup UnderWay')
    BY <2>2, <2>3 DEF ArrivalInvariant
  <2> QED
    BY <2>2, <2>4 DEF ArrivalInvariant, ArrivalsKept, Pending, ProcessedDeals
<1> QED
  BY <1>1, <1>2, <1>3, <1>4, <1>5, <1>6, <1>7, <1>8 DEF Next, Server, User

\* The queue of at most one request, and what its snapshot may claim.
THEOREM ArrivalInvariantHolds ==
    ASSUME OneAtATime
    PROVE  Spec => [](LineInvariant /\ ArrivalInvariant)
<1>1. Init => LineInvariant /\ ArrivalInvariant
  <2> SUFFICES ASSUME Init PROVE LineInvariant /\ ArrivalInvariant
    OBVIOUS
  <2>1. /\ requests = {} /\ tx.pc = "idle" /\ connector.pc = "idle"
        /\ \A p \in Positions : ~HasTrade(db.trades, p)
    BY DEF Init, NoTransaction, EmptyDatabase, HasTrade
  <2> QED
    BY <2>1 DEF LineInvariant, ArrivalInvariant, ArrivalsKept
<1>2. ASSUME LineInvariant, ArrivalInvariant, UNCHANGED vars
      PROVE  LineInvariant' /\ ArrivalInvariant'
  <2>1. UNCHANGED <<dealTime, requests, tx, db, connector>>
    BY <1>2 DEF vars
  <2> QED
    BY <1>2, <2>1 DEF LineInvariant, ArrivalInvariant, ArrivalsKept, Pending,
                      ProcessedDeals, UnderWay, Executed
<1>3. ASSUME TypeOK, SyncInvariant, LineInvariant, ArrivalInvariant, Next
      PROVE  LineInvariant' /\ ArrivalInvariant'
  BY <1>3, LineStep, ArrivalStep
<1>4. TypeOK /\ SyncInvariant /\ LineInvariant /\ ArrivalInvariant /\ [Next]_vars
          => (LineInvariant /\ ArrivalInvariant)'
  BY <1>2, <1>3
<1> QED
  BY <1>1, <1>4, TypeCorrect, SyncInvariantHolds, PTL DEF Spec

\* When no request that was given up is still on its way, and the terminal does not trade
\* between the connector's two reads: a trade whose position is missing from the snapshot
\* and whose closing deals have all arrived is not open any more at the end of the sync,
\* whatever the user edits, deletes or reconnects and whatever is lost or rolled back.
THEOREM ArrivedDealsClose ==
    ASSUME OneAtATime
    PROVE  Spec => []ClosingDealClosesTrade
<1>1. TypeOK /\ ArrivalInvariant => ClosingDealClosesTrade
  BY DEF TypeOK, ArrivalInvariant, ArrivalsKept, ArrivalKept, ClosingDealClosesTrade, IsOpen
<1> QED
  BY <1>1, ArrivalInvariantHolds, TypeCorrect, PTL
============================================================================
