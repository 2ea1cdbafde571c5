-------------------------- MODULE Mt5SyncRaceProofs --------------------------
(***************************************************************************)
(* Theorems about Mt5SyncRace for any number of sessions, positions, deals *)
(* and faults, and their proofs.                                           *)
(***************************************************************************)
EXTENDS Mt5SyncRace, TLAPS

USE PosOfAssumption, SentinelAssumption, SessionsAssumption, FaultsAssumption

Trade == Sync({})!Trade

-----------------------------------------------------------------------------
(* Trades and sums                                                         *)

\* A trade row, field by field.
LEMMA TradeFields ==
    Trade = [status : {"OPEN", "CLOSED"}, pnl : Money, deal : Deals \cup {NoDeal}, exit : Nat]
BY DEF Trade, Money, Sync!Trade

LEMMA RowType == Row = Trade \cup {NoTrade} /\ NoTrade \notin Trade
BY NoTradeAssumption DEF Row, Trade

\* The economics of a trade are ledger entries.
LEMMA EconomicsType ==
    ASSUME NEW ledger \in SUBSET LedgerRow, NEW p
    PROVE  Economics(ledger, p) \in Money
<1>1. ASSUME NEW r \in ledger
      PROVE  [conn |-> r.conn, deal |-> r.deal] \in Sync({})!Entry
  BY DEF LedgerRow, Sync!Entry
<1> QED
  BY <1>1 DEF Economics, Sync!Economics, Money

\* No deal is counted twice where no deal has two rows.
LEMMA EconomicsCountsOnce ==
    ASSUME NEW ledger, NEW p,
           \A r1, r2 \in ledger : r1.deal = r2.deal => r1 = r2
    PROVE  CountsOnce(Economics(ledger, p))
BY DEF CountsOnce, Sync!CountsOnce, Economics, Sync!Economics

\* The deals of a trade's economics have rows.
LEMMA EconomicsAreKnown ==
    ASSUME NEW ledger, NEW p, NEW e \in Economics(ledger, p)
    PROVE  Knows(ledger, e.deal)
BY DEF Economics, Sync!Economics, Knows

\* What is made of some rows is made of more.
LEMMA MoreRows ==
    ASSUME NEW ledger, NEW more, ledger \subseteq more, NEW p
    PROVE  /\ Economics(ledger, p) \subseteq Economics(more, p)
           /\ \A d : Knows(ledger, d) => Knows(more, d)
           /\ \A row : MadeOf(ledger, p, row) => MadeOf(more, p, row)
<1>1. Economics(ledger, p) \subseteq Economics(more, p)
  BY DEF Economics, Sync!Economics
<1>2. \A d : Knows(ledger, d) => Knows(more, d)
  BY DEF Knows
<1> QED
  BY <1>1, <1>2 DEF MadeOf

\* A P&L made of rows counts no deal twice where no deal has two rows.
LEMMA PartCountsOnce ==
    ASSUME NEW ledger, NEW p, NEW entries, entries \subseteq Economics(ledger, p),
           \A r1, r2 \in ledger : r1.deal = r2.deal => r1 = r2
    PROVE  CountsOnce(entries)
<1>1. CountsOnce(Economics(ledger, p))
  BY EconomicsCountsOnce
<1> QED
  BY <1>1 DEF CountsOnce, Sync!CountsOnce

LEMMA NewTradeType == Sync({})!NewTrade \in Trade /\ Sync({})!NewTrade.pnl = {}
                      /\ Sync({})!NewTrade.status = "OPEN" /\ Sync({})!NewTrade.deal = NoDeal
BY TradeFields DEF Sync!NewTrade, Money

\* A position of the snapshot leaves an open trade with the P&L it finds, if it finds one.
LEMMA UpsertedIs ==
    ASSUME NEW row \in Row, NEW pnl \in Money
    PROVE  LET new == Sync({})!Upserted(row, pnl) IN
           /\ new \in Trade
           /\ new.status = "OPEN"
           /\ new.pnl = IF pnl # {} \/ row = NoTrade THEN pnl ELSE row.pnl
           /\ new.deal = IF row = NoTrade THEN NoDeal ELSE row.deal
<1> DEFINE base == IF row = NoTrade THEN Sync({})!NewTrade ELSE row
           new == Sync({})!Upserted(row, pnl)
<1>1. /\ base \in Trade
      /\ base.pnl = IF row = NoTrade THEN {} ELSE row.pnl
      /\ base.deal = IF row = NoTrade THEN NoDeal ELSE row.deal
  BY NewTradeType, RowType
<1>2. new = IF pnl # {} THEN Sync({})!PartialOpen(base, pnl, base.deal)
                        ELSE [base EXCEPT !.status = "OPEN"]
  BY DEF Sync!Upserted
<1> HIDE DEF base
<1>3. CASE pnl # {}
  <2>1. new = [status |-> "OPEN", pnl |-> pnl, deal |-> base.deal, exit |-> 0]
    BY <1>2, <1>3 DEF Sync!PartialOpen
  <2>2. base.deal \in Deals \cup {NoDeal}
    BY <1>1, TradeFields
  <2> HIDE DEF new
  <2>3. new \in Trade /\ new.status = "OPEN" /\ new.pnl = pnl /\ new.deal = base.deal
    BY <2>1, <2>2, TradeFields
  <2> QED
    BY <1>1, <1>3, <2>3 DEF new
<1>4. CASE pnl = {}
  <2>1. new = [base EXCEPT !.status = "OPEN"]
    BY <1>2, <1>4
  <2> HIDE DEF new
  <2>2. new \in Trade /\ new.status = "OPEN" /\ new.pnl = base.pnl /\ new.deal = base.deal
    BY <1>1, <2>1, TradeFields
  <2> QED
    BY <1>1, <1>4, <2>2 DEF new
<1> QED
  BY <1>3, <1>4

\* A deal that is not yet the trade's own leaves it open or closed, with all its economics.
LEMMA AppliedIs ==
    ASSUME dealTime \in [Deals -> Nat],
           NEW ids, NEW trade \in Trade, NEW pnl \in Money, NEW d \in Deals, trade.deal # d
    PROVE  LET new == Sync(ids)!Applied(trade, pnl, d) IN
           new \in Trade /\ new.pnl = pnl /\ new.deal = d
<1> DEFINE new == Sync(ids)!Applied(trade, pnl, d)
<1>1. new = IF PosOf[d] \in ids THEN [status |-> "OPEN", pnl |-> pnl, deal |-> d, exit |-> 0]
            ELSE [status |-> "CLOSED", pnl |-> pnl, deal |-> d, exit |-> dealTime[d]]
  BY DEF Sync!Applied, Sync!PartialOpen, Sync!Closed
<1> HIDE DEF new
<1> QED
  BY <1>1, TradeFields DEF new

\* An UPDATE writes what differs from the row as read and keeps the rest of the row as is.
LEMMA SavedIs ==
    ASSUME NEW now \in Trade, NEW read \in Trade, NEW new \in Trade
    PROVE  /\ Saved(now, read, new) \in Trade
           /\ Saved(now, read, new).status \in {now.status, new.status}
           /\ new.pnl # read.pnl => Saved(now, read, new).pnl = new.pnl
           /\ new.pnl = read.pnl => Saved(now, read, new).pnl = now.pnl
           /\ new.deal # read.deal => Saved(now, read, new).deal = new.deal
           /\ new.deal = read.deal => Saved(now, read, new).deal = now.deal
<1> DEFINE saved == [f \in DOMAIN new |-> IF new[f] # read[f] THEN new[f] ELSE now[f]]
<1>1. Saved(now, read, new) = saved
  BY RowType DEF Saved
<1>2. DOMAIN new = {"status", "pnl", "deal", "exit"}
  BY TradeFields
<1>3. saved = [status |-> IF new.status # read.status THEN new.status ELSE now.status,
               pnl    |-> IF new.pnl # read.pnl THEN new.pnl ELSE now.pnl,
               deal   |-> IF new.deal # read.deal THEN new.deal ELSE now.deal,
               exit   |-> IF new.exit # read.exit THEN new.exit ELSE now.exit]
  BY <1>2
<1> HIDE DEF saved
<1> QED
  BY <1>1, <1>3, TradeFields

-----------------------------------------------------------------------------
(* Steps of one session                                                    *)

\* A session's own step, which commits nothing, concerns no other session.
LEMMA OwnStep ==
    ASSUME RowsAreSound, NEW s \in Sessions, NEW new \in Session,
           UNCHANGED <<opened, dealTime, clock, db>>,
           faults' \in 0 .. MaxFaults,
           session' = [session EXCEPT ![s] = new],
           lock' = lock \/ (lock \in {s, Nobody} /\ lock' \in {s, Nobody}),
           SessionIsSound(new, lock' = s)
    PROVE  RowsAreSound'
<1>1. TypeOK'
  BY DEF RowsAreSound, TypeOK
<1>2. Executed' = Executed
  BY DEF Executed
<1>3. Sound(db, {})'
  BY <1>2 DEF RowsAreSound, RaceInvariant, Sound
<1>4. ASSUME NEW state, NEW holds PROVE SessionIsSound(state, holds)' = SessionIsSound(state, holds)
  BY <1>2 DEF SessionIsSound, Sound, Extends, Whole
<1>5. ASSUME NEW t \in Sessions PROVE SessionIsSound(session'[t], lock' = t)
  <2>1. CASE t = s
    BY <2>1 DEF RowsAreSound, TypeOK
  <2>2. CASE t # s
    <3>1. session'[t] = session[t] /\ (lock' = t <=> lock = t)
      BY <2>2 DEF RowsAreSound, TypeOK
    <3> QED
      BY <3>1 DEF RowsAreSound, RaceInvariant
  <2> QED
    BY <2>1, <2>2
<1> QED
  BY <1>1, <1>3, <1>4, <1>5 DEF RowsAreSound, RaceInvariant

\* What holds of a session that is about to step.
LEMMA OwnState ==
    ASSUME RowsAreSound, NEW s \in Sessions
    PROVE  /\ session[s] \in Session
           /\ SessionIsSound(session[s], lock = s)
           /\ db \in Database /\ Sound(db, {})
           /\ View(s) \in Database
           /\ View(s) = IF lock = s THEN session[s].work ELSE db
           /\ \E todo : Sound(View(s), todo)
           /\ Extends(db, View(s)) /\ Whole(db, View(s))
           /\ session[s].upserts # {} => View(s).ledger = db.ledger
<1>1. /\ session[s] \in Session /\ SessionIsSound(session[s], lock = s)
      /\ db \in Database /\ Sound(db, {})
  BY DEF RowsAreSound, TypeOK, RaceInvariant
<1>2. View(s) = IF lock = s THEN session[s].work ELSE db
  BY DEF View
<1>3. Extends(db, db) /\ Whole(db, db)
  BY DEF Extends, Whole
<1>4. lock = s => /\ Sound(session[s].work, session[s].deals)
                  /\ Extends(db, session[s].work) /\ Whole(db, session[s].work)
                  /\ session[s].upserts # {} => session[s].work.ledger = db.ledger
  BY <1>1 DEF SessionIsSound
<1>5. session[s].work \in Database
  BY <1>1 DEF Session
<1> QED
  BY <1>1, <1>2, <1>3, <1>4, <1>5

LEMMA IdleType == Idle \in Session /\ SessionIsSound(Idle, FALSE)
<1>1. {} \in Money /\ EmptyDatabase \in Database /\ NothingRead \in Read
  BY DEF Money, EmptyDatabase, Database, NothingRead, Read, Row
<1>2. Idle \in Session
  BY <1>1 DEF Idle, Session, EmptyDatabase, Database
<1> QED
  BY <1>2 DEF Idle, SessionIsSound, EmptyDatabase, CountsOnce, Sync!CountsOnce

\* A session that ends without a commit leaves nothing behind.
LEMMA EndStep ==
    ASSUME RowsAreSound, NEW s \in Sessions,
           UNCHANGED <<opened, dealTime, clock, db>>,
           faults' \in 0 .. MaxFaults,
           session' = [session EXCEPT ![s] = Idle],
           lock' = IF lock = s THEN Nobody ELSE lock
    PROVE  RowsAreSound'
<1>1. lock' # s
  OBVIOUS
<1> QED
  BY <1>1, IdleType, OwnStep

LEMMA ArriveStep ==
    ASSUME RowsAreSound, NEW s \in Sessions, Arrive(s) PROVE RowsAreSound'
<1> DEFINE new == [Idle EXCEPT !.pc = "arrived", !.open_ids = StillOpen,
                               !.upserts = StillOpen, !.deals = Executed]
<1>1. new \in Session
  BY IdleType DEF Session, Executed, StillOpen, RowsAreSound, TypeOK
<1>2. lock # s
  BY OwnState DEF Arrive, SessionIsSound
<1>3. SessionIsSound(new, FALSE)
  BY IdleType DEF SessionIsSound, Idle
<1> HIDE DEF new
<1> QED
  BY <1>1, <1>2, <1>3, OwnStep DEF Arrive, RowsAreSound, TypeOK, new

LEMMA LoadAccountStep ==
    ASSUME RowsAreSound, NEW s \in Sessions, LoadAccount(s) PROVE RowsAreSound'
<1>1. PICK pc \in {"bars", "sources"} :
          session' = [session EXCEPT ![s].pc = pc, ![s].loaded = db.balance]
  BY DEF LoadAccount
<1> DEFINE new == [session[s] EXCEPT !.pc = pc, !.loaded = db.balance]
<1>2. session' = [session EXCEPT ![s] = new]
  BY <1>1 DEF RowsAreSound, TypeOK
<1>3. new \in Session
  <2>1. session[s] \in Session /\ db.balance \in [Positions -> Money]
    BY OwnState DEF Database
  <2> QED
    BY <2>1 DEF Session
<1>4. lock # s
  BY OwnState DEF LoadAccount, SessionIsSound
<1>5. SessionIsSound(new, FALSE)
  BY <1>4, OwnState DEF SessionIsSound, Session
<1> HIDE DEF new
<1> QED
  BY <1>2, <1>3, <1>4, <1>5, OwnStep DEF LoadAccount, RowsAreSound, TypeOK

LEMMA StoreBarsStep ==
    ASSUME RowsAreSound, NEW s \in Sessions, StoreBars(s) PROVE RowsAreSound'
<1> DEFINE new == [session[s] EXCEPT !.pc = "sources", !.work = db]
<1>1. session' = [session EXCEPT ![s] = new]
  BY DEF StoreBars, RowsAreSound, TypeOK
<1>2. session[s] \in Session /\ db \in Database
  BY OwnState
<1>3. new \in Session
  BY <1>2 DEF Session
<1>4. lock = Nobody /\ lock # s /\ lock' = s
  BY DEF StoreBars
<1>5. new.deals = session[s].deals /\ new.fresh = session[s].fresh /\ new.sum = session[s].sum
      /\ new.pc = "sources" /\ new.work = db
  BY <1>2 DEF Session
<1>6. Sound(db, new.deals) /\ Extends(db, db) /\ Whole(db, db)
  BY OwnState DEF Sound, Extends, Whole
<1> HIDE DEF new
<1>7. SessionIsSound(new, TRUE)
  BY <1>4, <1>5, <1>6, OwnState DEF SessionIsSound
<1> QED
  BY <1>1, <1>3, <1>4, <1>7, OwnStep DEF StoreBars, RowsAreSound, TypeOK

LEMMA ReadSourcesStep ==
    ASSUME RowsAreSound, NEW s \in Sessions, ReadSources(s) PROVE RowsAreSound'
<1> DEFINE new == [session[s] EXCEPT !.pc = "apply", !.fresh = session[s].deals \ View(s).source]
<1>1. session' = [session EXCEPT ![s] = new]
  BY DEF ReadSources, RowsAreSound, TypeOK
<1>2. session[s] \in Session /\ SessionIsSound(session[s], lock = s)
  BY OwnState
<1>3. new \in Session
  BY <1>2 DEF Session
<1>4. new.deals = session[s].deals /\ new.fresh \subseteq new.deals /\ new.sum = session[s].sum
      /\ new.pc = "apply" /\ new.work = session[s].work /\ new.upserts = session[s].upserts
  BY <1>2 DEF Session
<1>6. session[s].pc = "sources"
  BY DEF ReadSources
<1> HIDE DEF new
<1>5. SessionIsSound(new, lock = s)
  BY <1>2, <1>4, <1>6 DEF SessionIsSound
<1> QED
  BY <1>1, <1>3, <1>5, OwnStep DEF ReadSources, RowsAreSound, TypeOK

\* A session that has read something more, and goes on to `pc`.
Reads(state, pc, read) == [state EXCEPT !.pc = pc, !.read = read]

LEMMA ReadStep ==
    ASSUME RowsAreSound, NEW s \in Sessions, session[s].pc \in {"apply", "rate", "deal"},
           UNCHANGED <<opened, dealTime, clock, db, lock, faults>>,
           NEW pc \in {"rate", "deal", "flush"}, NEW read \in Read,
           session' = [session EXCEPT ![s] = Reads(session[s], pc, read)],
           ReadIsUsable(read, session[s], View(s)),
           pc = "rate" => read.deal = NoDeal,
           pc = "deal" => read.deal # NoDeal
    PROVE  RowsAreSound'
<1> DEFINE new == Reads(session[s], pc, read)
<1>1. /\ session[s] \in Session /\ SessionIsSound(session[s], lock = s)
      /\ View(s) = IF lock = s THEN session[s].work ELSE db
  BY OwnState
<1>2. new \in Session
  BY <1>1 DEF Session, Reads
<1>3. /\ new.deals = session[s].deals /\ new.fresh = session[s].fresh /\ new.sum = session[s].sum
      /\ new.upserts = session[s].upserts /\ new.work = session[s].work
      /\ new.pc = pc /\ new.read = read
  BY <1>1 DEF Session, Reads
<1>4. session' = [session EXCEPT ![s] = new]
  OBVIOUS
<1> HIDE DEF new
<1>5. ReadIsUsable(read, new, View(s))
  BY <1>3 DEF ReadIsUsable
<1>6. SessionIsSound(new, lock = s)
  BY <1>1, <1>3, <1>5 DEF SessionIsSound
<1> QED
  BY <1>2, <1>4, <1>6, OwnStep DEF RowsAreSound, TypeOK

\* A trade that is read is made of the rows the session sees.
LEMMA TradeRead ==
    ASSUME RowsAreSound, NEW s \in Sessions, NEW p \in Positions
    PROVE  /\ View(s).trades[p] \in Row
           /\ View(s).trades[p] # NoTrade => MadeOf(View(s).ledger, p, View(s).trades[p])
<1>1. View(s) \in Database
  BY OwnState
<1>2. PICK todo : Sound(View(s), todo)
  BY OwnState
<1> QED
  BY <1>1, <1>2 DEF Database, Sound

LEMMA FindPositionStep ==
    ASSUME RowsAreSound, NEW s \in Sessions, NEW p \in Positions, FindPosition(s, p)
    PROVE  RowsAreSound'
<1> DEFINE row == View(s).trades[p]
           read == [position |-> p, deal |-> NoDeal, row |-> row, pnl |-> {}]
<1>1. session' = [session EXCEPT ![s] = Reads(session[s], "rate", read)]
  BY DEF FindPosition, Reads, RowsAreSound, TypeOK
<1>2. /\ session[s].pc = "apply" /\ p \in session[s].upserts
      /\ UNCHANGED <<opened, dealTime, clock, db, lock, faults>>
  BY DEF FindPosition
<1>3. /\ row \in Row
      /\ row # NoTrade => MadeOf(View(s).ledger, p, row)
  BY TradeRead
<1>4. read \in Read
  BY <1>3 DEF Read, Money
<1>5. read.position = p /\ read.deal = NoDeal /\ read.row = row /\ read.pnl = {}
  OBVIOUS
<1> HIDE DEF read
<1>6. ReadIsUsable(read, session[s], View(s))
  BY <1>2, <1>3, <1>5 DEF ReadIsUsable
<1> QED
  BY <1>1, <1>2, <1>4, <1>5, <1>6, ReadStep

\* Without a trade there are no rows to add up, and the rows of a trade are its position's.
LEMMA ReadEconomicsStep ==
    ASSUME RowsAreSound, NEW s \in Sessions, ReadEconomics(s) PROVE RowsAreSound'
<1> DEFINE old == session[s].read
           pnl == Economics(View(s).ledger, Sync({})!LinkOf(old.row, old.position))
           read == [old EXCEPT !.pnl = pnl]
<1>1. /\ session[s] \in Session /\ SessionIsSound(session[s], lock = s)
      /\ View(s) \in Database
      /\ View(s) = IF lock = s THEN session[s].work ELSE db
  BY OwnState
<1>2. /\ session[s].pc = "rate"
      /\ UNCHANGED <<opened, dealTime, clock, db, lock, faults>>
      /\ session' = [session EXCEPT ![s].pc = "flush", ![s].read.pnl = pnl]
  BY DEF ReadEconomics
<1>3. old \in Read /\ pnl \in Money
  BY <1>1, EconomicsType DEF Session, Database
<1>4. ReadIsUsable(old, session[s], View(s)) /\ old.deal = NoDeal
  BY <1>1, <1>2 DEF SessionIsSound
<1>5. pnl = IF old.row = NoTrade THEN {} ELSE Economics(View(s).ledger, old.position)
  <2>1. CASE old.row = NoTrade
    <3>1. \A r \in View(s).ledger : r.trade # NoPosition
      BY <1>1 DEF Database, LedgerRow
    <3> QED
      BY <2>1, <3>1 DEF Sync!LinkOf, Economics, Sync!Economics
  <2>2. CASE old.row # NoTrade
    BY <2>2 DEF Sync!LinkOf
  <2> QED
    BY <2>1, <2>2
<1> HIDE DEF pnl
<1>6. /\ read \in Read /\ read.position = old.position /\ read.deal = old.deal
      /\ read.row = old.row /\ read.pnl = pnl
  BY <1>3 DEF Read
<1>7. session' = [session EXCEPT ![s] = Reads(session[s], "flush", read)]
  BY <1>2 DEF Reads, RowsAreSound, TypeOK
<1> HIDE DEF read, old
<1>8. ReadIsUsable(read, session[s], View(s))
  BY <1>4, <1>5, <1>6 DEF ReadIsUsable
<1> QED
  BY <1>2, <1>6, <1>7, <1>8, ReadStep

LEMMA TakeDealStep ==
    ASSUME RowsAreSound, NEW s \in Sessions, NEW d \in Deals, TakeDeal(s, d)
    PROVE  RowsAreSound'
<1> DEFINE read == [position |-> PosOf[d], deal |-> d, row |-> NoTrade, pnl |-> {}]
<1>1. session' = [session EXCEPT ![s] = Reads(session[s], "deal", read)]
  BY DEF TakeDeal, Reads, RowsAreSound, TypeOK
<1>2. /\ session[s].pc = "apply" /\ session[s].upserts = {} /\ d \in session[s].deals
      /\ UNCHANGED <<opened, dealTime, clock, db, lock, faults>>
  BY DEF TakeDeal, InDealsLoop
<1>3. read \in Read
  BY DEF Read, Money, Row
<1>4. read.position = PosOf[d] /\ read.deal = d /\ read.row = NoTrade /\ read.pnl = {} /\ d # NoDeal
      /\ PosOf[d] \in Positions
  OBVIOUS
<1> HIDE DEF read
<1>5. ReadIsUsable(read, session[s], View(s))
  BY <1>2, <1>4 DEF ReadIsUsable
<1> QED
  BY <1>1, <1>2, <1>3, <1>4, <1>5, ReadStep

LEMMA FindDealStep ==
    ASSUME RowsAreSound, NEW s \in Sessions, FindDeal(s) PROVE RowsAreSound'
<1> DEFINE old == session[s].read
           row == View(s).trades[old.position]
           read == [old EXCEPT !.row = row]
<1>1. /\ session[s] \in Session /\ SessionIsSound(session[s], lock = s)
      /\ View(s) = IF lock = s THEN session[s].work ELSE db
  BY OwnState
<1>2. /\ session[s].pc = "deal"
      /\ UNCHANGED <<opened, dealTime, clock, db, lock, faults>>
      /\ session' = [session EXCEPT ![s].pc = "flush", ![s].read.row = row]
  BY DEF FindDeal
<1>3. old \in Read
  BY <1>1 DEF Session
<1>4. ReadIsUsable(old, session[s], View(s)) /\ old.deal # NoDeal
  BY <1>1, <1>2 DEF SessionIsSound
<1>5. /\ row \in Row
      /\ row # NoTrade => MadeOf(View(s).ledger, old.position, row)
  BY <1>4, TradeRead DEF ReadIsUsable
<1>6. row # NoTrade => View(s).trades[old.position] # NoTrade
  OBVIOUS
<1> HIDE DEF row
<1>7. /\ read \in Read /\ read.position = old.position /\ read.deal = old.deal
      /\ read.row = row /\ read.pnl = old.pnl
  BY <1>3, <1>5 DEF Read
<1>8. session' = [session EXCEPT ![s] = Reads(session[s], "flush", read)]
  BY <1>2 DEF Reads, RowsAreSound, TypeOK
<1> HIDE DEF read, old
<1>9. ReadIsUsable(read, session[s], View(s))
  BY <1>4, <1>5, <1>6, <1>7 DEF ReadIsUsable
<1> QED
  BY <1>2, <1>7, <1>8, <1>9, ReadStep

LEMMA SkipDealStep ==
    ASSUME RowsAreSound, NEW s \in Sessions, NEW d \in Deals, SkipDeal(s, d)
    PROVE  RowsAreSound'
<1> DEFINE new == [session[s] EXCEPT !.deals = @ \ {d}]
<1>1. session' = [session EXCEPT ![s] = new]
  BY DEF SkipDeal, RowsAreSound, TypeOK
<1>2. /\ session[s] \in Session /\ SessionIsSound(session[s], lock = s)
      /\ View(s) = IF lock = s THEN session[s].work ELSE db
      /\ Knows(View(s).ledger, d) /\ session[s].pc = "apply"
  BY OwnState DEF SkipDeal, InDealsLoop
<1>3. new \in Session
  BY <1>2 DEF Session
<1>4. new.deals = session[s].deals \ {d} /\ new.fresh = session[s].fresh
      /\ new.sum = session[s].sum /\ new.pc = "apply" /\ new.work = session[s].work
      /\ new.upserts = session[s].upserts
  BY <1>2 DEF Session
<1> HIDE DEF new
<1>5. lock = s => Sound(new.work, new.deals)
  BY <1>2, <1>4 DEF SessionIsSound, Sound
<1>6. SessionIsSound(new, lock = s)
  BY <1>2, <1>4, <1>5 DEF SessionIsSound
<1> QED
  BY <1>1, <1>3, <1>6, OwnStep DEF SkipDeal, RowsAreSound, TypeOK

\* The sum counts the P&L of each trade, in which no deal is counted twice.
LEMMA BalanceOfCountsOnce ==
    ASSUME NEW base \in Database, NEW todo, Sound(base, todo), NEW p \in Positions
    PROVE  /\ BalanceOf(base.trades) \in [Positions -> Money]
           /\ CountsOnce(BalanceOf(base.trades)[p])
<1>1. ASSUME NEW q \in Positions, base.trades[q] # NoTrade
      PROVE  base.trades[q].pnl \in Money /\ CountsOnce(base.trades[q].pnl)
  <2>1. base.trades[q].pnl \in Money
    BY <1>1, RowType, TradeFields DEF Database
  <2>2. base.trades[q].pnl \subseteq Economics(base.ledger, q)
    BY <1>1 DEF Sound, MadeOf
  <2>3. CountsOnce(base.trades[q].pnl)
    BY <2>2, PartCountsOnce DEF Sound
  <2> QED
    BY <2>1, <2>3
<1>2. {} \in Money /\ CountsOnce({})
  BY DEF Money, CountsOnce, Sync!CountsOnce
<1> QED
  BY <1>1, <1>2 DEF BalanceOf, Sync!BalanceOf

LEMMA RefreshStep ==
    ASSUME RowsAreSound, NEW s \in Sessions, Refresh(s) PROVE RowsAreSound'
<1> DEFINE sum == BalanceOf(View(s).trades)
           new == [session[s] EXCEPT !.pc = "commit", !.sum = sum]
<1>1. session' = [session EXCEPT ![s] = new]
  BY DEF Refresh, RowsAreSound, TypeOK
<1>2. /\ session[s] \in Session /\ SessionIsSound(session[s], lock = s)
      /\ View(s) \in Database /\ session[s].deals = {}
  BY OwnState DEF Refresh
<1>3. PICK todo : Sound(View(s), todo)
  BY OwnState
<1>4. \A p \in Positions : CountsOnce(sum[p])
  BY <1>2, <1>3, BalanceOfCountsOnce
<1>5. sum \in [Positions -> Money]
  <2>1. CASE Positions = {}
    BY <2>1 DEF BalanceOf, Sync!BalanceOf
  <2>2. CASE Positions # {}
    BY <1>2, <1>3, <2>2, BalanceOfCountsOnce
  <2> QED
    BY <2>1, <2>2
<1> HIDE DEF sum
<1>6. new \in Session
  BY <1>2, <1>5 DEF Session
<1>7. new.deals = session[s].deals /\ new.fresh = session[s].fresh
      /\ new.sum = sum /\ new.pc = "commit" /\ new.work = session[s].work
      /\ new.upserts = session[s].upserts
  BY <1>2 DEF Session
<1> HIDE DEF new
<1>8. SessionIsSound(new, lock = s)
  BY <1>2, <1>4, <1>7 DEF SessionIsSound
<1> QED
  BY <1>1, <1>6, <1>8, OwnStep DEF Refresh, RowsAreSound, TypeOK

-----------------------------------------------------------------------------
(* Flushes                                                                 *)

\* The rows after a flush, and the session after it.
Written(view, fresh, ledger, p, row) ==
    [view EXCEPT !.source = view.source \cup fresh, !.ledger = ledger, !.trades[p] = row]
AfterFlush(state, upserts, left, work) ==
    [state EXCEPT !.pc = "apply", !.upserts = upserts, !.deals = left,
                  !.read = NothingRead, !.work = work]

\* A flush writes one trade of the rows it sees, and rows of new deals of that trade, in which
\* case it has all its economics; the deals `left` of those `todo` are still to apply.
IsFlush(view, todo, left, fresh, ledger, p, row) ==
    /\ view \in Database /\ p \in Positions /\ row \in Trade
    /\ ledger \in SUBSET LedgerRow /\ fresh \in SUBSET Deals
    /\ Sound(view, todo)
    /\ view.ledger \subseteq ledger
    /\ \A r \in ledger \ view.ledger :
           r.trade = p /\ p = PosOf[r.deal] /\ r.deal \in Executed
    /\ \A r1, r2 \in ledger : r1.deal = r2.deal => r1 = r2
    /\ MadeOf(ledger, p, row)
    /\ \A r \in ledger \ view.ledger : row.pnl = Economics(ledger, p)
    /\ row.status = "CLOSED" /\ ~IsClosed(view.trades, p) =>
           \E r \in ledger \ view.ledger : r.trade = p
    /\ \A d \in todo \cup fresh : d \in left \/ Knows(ledger, d)

\* The rows stay sound, and extend whatever the old ones extend.
LEMMA WrittenIsSound ==
    ASSUME NEW view, NEW todo, NEW left, NEW fresh, NEW ledger, NEW p, NEW row,
           IsFlush(view, todo, left, fresh, ledger, p, row)
    PROVE  LET work == Written(view, fresh, ledger, p, row)
           IN  /\ work \in Database
               /\ Sound(work, left)
               /\ \A base \in Database : Extends(base, view) => Extends(base, work)
               /\ \A base \in Database :
                     Whole(base, view) /\ (ledger = view.ledger => base.ledger = view.ledger) =>
                        Whole(base, work)
<1> DEFINE work == Written(view, fresh, ledger, p, row)
<1>0. /\ view \in Database /\ p \in Positions /\ row \in Trade
      /\ ledger \in SUBSET LedgerRow /\ fresh \in SUBSET Deals
      /\ Sound(view, todo)
  BY DEF IsFlush
<1>1. /\ work.source = view.source \cup fresh
      /\ work.ledger = ledger
      /\ work.trades = [view.trades EXCEPT ![p] = row]
      /\ work.balance = view.balance
      /\ work \in Database
  BY <1>0, RowType DEF Database, Written
<1> HIDE DEF work
<1> USE <1>0 DEF IsFlush
<1>2. /\ \A q \in Positions : work.trades[q] = IF q = p THEN row ELSE view.trades[q]
      /\ row # NoTrade
  BY <1>1, RowType DEF Database
<1>3. ASSUME NEW r \in work.ledger
      PROVE  r.deal \in Executed /\ r.trade = PosOf[r.deal] /\ work.trades[r.trade] # NoTrade
  <2>1. CASE r \in view.ledger
    <3>1. r.deal \in Executed /\ r.trade = PosOf[r.deal] /\ view.trades[r.trade] # NoTrade
      BY <2>1 DEF Sound
    <3>2. r.trade \in Positions
      BY <1>1, <1>3 DEF LedgerRow
    <3> QED
      BY <1>2, <3>1, <3>2
  <2>2. CASE r \notin view.ledger
    BY <1>1, <1>2, <1>3, <2>2
  <2> QED
    BY <2>1, <2>2
<1>4. ASSUME NEW q \in Positions, q # p PROVE Economics(ledger, q) = Economics(view.ledger, q)
  <2>1. {r \in ledger : r.trade = q} = {r \in view.ledger : r.trade = q}
    BY <1>4
  <2> QED
    BY <2>1 DEF Economics, Sync!Economics
<1>5. ASSUME NEW q \in Positions, work.trades[q] # NoTrade
      PROVE  MadeOf(work.ledger, q, work.trades[q])
  <2>1. CASE q = p
    BY <1>1, <1>2, <2>1
  <2>2. CASE q # p
    <3>1. work.trades[q] = view.trades[q]
      BY <1>2, <2>2
    <3>2. MadeOf(view.ledger, q, view.trades[q])
      BY <1>5, <3>1 DEF Sound
    <3> QED
      BY <1>1, <3>1, <3>2, MoreRows
  <2> QED
    BY <2>1, <2>2
<1>6. ASSUME NEW d \in work.source PROVE d \in left \/ Knows(work.ledger, d)
  <2>1. d \in fresh \/ d \in todo \/ Knows(view.ledger, d)
    BY <1>1, <1>6 DEF Sound
  <2> QED
    BY <1>1, <2>1 DEF Knows
<1>7. Sound(work, left)
  BY <1>1, <1>3, <1>5, <1>6 DEF Sound
<1>8. ASSUME NEW base \in Database, Extends(base, view) PROVE Extends(base, work)
  <2>1. base.ledger \subseteq work.ledger
    BY <1>1, <1>8 DEF Extends
  <2>2. \A q \in Positions : base.trades[q] # NoTrade => work.trades[q] # NoTrade
    BY <1>2, <1>8 DEF Extends
  <2>3. ASSUME NEW q \in Positions, IsClosed(work.trades, q), ~IsClosed(base.trades, q)
        PROVE  \E r \in work.ledger \ base.ledger : r.trade = q
    <3>1. CASE q # p \/ IsClosed(view.trades, p)
      <4>1. IsClosed(view.trades, q)
        BY <1>2, <2>3, <3>1 DEF IsClosed, Sync!IsClosed, Sync!HasTrade
      <4>2. PICK r \in view.ledger \ base.ledger : r.trade = q
        BY <1>8, <2>3, <4>1 DEF Extends
      <4> QED
        BY <1>1, <4>2
    <3>2. CASE q = p /\ ~IsClosed(view.trades, p)
      <4>1. row.status = "CLOSED"
        BY <1>2, <2>3, <3>2 DEF IsClosed, Sync!IsClosed
      <4>2. PICK r \in ledger \ view.ledger : r.trade = p
        BY <3>2, <4>1
      <4>3. r \notin base.ledger
        BY <1>8, <4>2 DEF Extends
      <4> QED
        BY <1>1, <3>2, <4>2, <4>3
    <3> QED
      BY <3>1, <3>2
  <2> QED
    BY <2>1, <2>2, <2>3 DEF Extends
<1>9. ASSUME NEW base \in Database, Whole(base, view),
             ledger = view.ledger => base.ledger = view.ledger,
             NEW r \in work.ledger \ base.ledger
      PROVE  work.trades[r.trade].pnl = Economics(work.ledger, r.trade)
  <2>1. r.trade \in Positions
    BY <1>1, <1>9 DEF LedgerRow
  <2>2. PICK fact \in ledger : fact \notin view.ledger
    BY <1>1, <1>9
  <2>3. CASE r.trade = p
    BY <1>1, <1>2, <2>2, <2>3
  <2>4. CASE r.trade # p
    <3>1. r \in view.ledger \ base.ledger
      BY <1>1, <1>9, <2>4
    <3>2. view.trades[r.trade].pnl = Economics(view.ledger, r.trade)
      BY <1>9, <3>1 DEF Whole
    <3> QED
      BY <1>1, <1>2, <1>4, <2>1, <2>4, <3>2
  <2> QED
    BY <2>3, <2>4
<1>10. \A base \in Database :
          Whole(base, view) /\ (ledger = view.ledger => base.ledger = view.ledger) =>
             Whole(base, work)
  BY <1>9 DEF Whole
<1> QED
  BY <1>1, <1>7, <1>8, <1>10 DEF work

\* What a session sees is sound but for the deals it still has to apply.
LEMMA ViewIsSound ==
    ASSUME RowsAreSound, NEW s \in Sessions
    PROVE  Sound(View(s), session[s].deals)
<1>1. CASE lock = s
  BY <1>1, OwnState DEF SessionIsSound
<1>2. CASE lock # s
  <2>1. Sound(db, {}) /\ View(s) = db
    BY <1>2, OwnState
  <2> QED
    BY <2>1 DEF Sound
<1> QED
  BY <1>1, <1>2

\* A flush that has written `work` and leaves the deals `left` to apply.
LEMMA FlushedStep ==
    ASSUME RowsAreSound, NEW s \in Sessions,
           session[s].pc = "flush", CanFlush(s), lock' = s,
           UNCHANGED <<opened, dealTime, clock, db, faults>>,
           NEW work \in Database, NEW left \in SUBSET session[s].deals,
           NEW upserts \in SUBSET Positions,
           Sound(work, left), Extends(db, work), Whole(db, work),
           upserts # {} => work.ledger = db.ledger,
           \A d \in session[s].fresh : d \in work.source,
           session' = [session EXCEPT ![s] = AfterFlush(session[s], upserts, left, work)]
    PROVE  RowsAreSound'
<1> DEFINE new == AfterFlush(session[s], upserts, left, work)
<1>1. session' = [session EXCEPT ![s] = new]
  OBVIOUS
<1>2. session[s] \in Session /\ SessionIsSound(session[s], lock = s)
  BY OwnState
<1>3. NothingRead \in Read
  BY DEF NothingRead, Read, Money, Row
<1>4. new \in Session
  BY <1>2, <1>3 DEF Session, AfterFlush
<1>5. new.deals = left /\ new.fresh = session[s].fresh /\ new.sum = session[s].sum
      /\ new.pc = "apply" /\ new.work = work /\ new.upserts = upserts
  BY <1>2 DEF Session, AfterFlush
<1> HIDE DEF new
<1>6. \A d \in new.fresh : d \in new.deals \/ Knows(work.ledger, d)
  BY <1>5 DEF Sound
<1>7. SessionIsSound(new, TRUE)
  BY <1>2, <1>5, <1>6 DEF SessionIsSound
<1> QED
  BY <1>1, <1>4, <1>7, OwnStep DEF RowsAreSound, TypeOK, CanFlush

\* Without a conflict, the trade read is there as it was, or as others have written it since.
LEMMA ReadWithoutConflict ==
    ASSUME RowsAreSound, NEW s \in Sessions, session[s].pc = "flush", ~Conflict(s)
    PROVE  LET read == session[s].read
               p    == read.position
           IN  /\ session[s] \in Session /\ read \in Read /\ p \in Positions
               /\ View(s).trades[p] \in Row
               /\ read.row = NoTrade <=> View(s).trades[p] = NoTrade
               /\ read.deal # NoDeal => ~Knows(View(s).ledger, read.deal)
               /\ ReadIsUsable(read, session[s], View(s))
<1>1. /\ session[s] \in Session /\ SessionIsSound(session[s], lock = s)
      /\ View(s) \in Database
      /\ View(s) = IF lock = s THEN session[s].work ELSE db
  BY OwnState
<1>2. ReadIsUsable(session[s].read, session[s], View(s)) /\ session[s].read \in Read
  BY <1>1 DEF SessionIsSound, Session
<1>3. session[s].read.position \in Positions /\ session[s].read.position # NoPosition
  BY <1>2 DEF ReadIsUsable
<1>4. View(s).trades[session[s].read.position] \in Row
  BY <1>1, <1>3 DEF Database
<1> QED
  BY <1>1, <1>2, <1>3, <1>4 DEF Conflict, ReadIsUsable

LEMMA FlushPositionStep ==
    ASSUME RowsAreSound, NEW s \in Sessions, FlushPosition(s) PROVE RowsAreSound'
<1> DEFINE read == session[s].read
           p    == read.position
           now  == View(s).trades[p]
           new  == Sync({})!Upserted(read.row, read.pnl)
           row  == Saved(now, read.row, new)
           work == [Flushed(s) EXCEPT !.trades[p] = row]
<1>1. /\ session[s].pc = "flush" /\ read.deal = NoDeal /\ CanFlush(s) /\ ~Conflict(s)
      /\ lock' = s /\ UNCHANGED <<opened, dealTime, clock, db, faults>>
      /\ session' = [session EXCEPT
                       ![s].pc = "apply", ![s].upserts = @ \ {p}, ![s].read = NothingRead,
                       ![s].work = [Flushed(s) EXCEPT !.trades[p] = Saved(@, read.row, new)]]
  BY DEF FlushPosition
<1>2. /\ session[s] \in Session /\ read \in Read /\ p \in Positions /\ now \in Row
      /\ read.row = NoTrade <=> now = NoTrade
      /\ ReadIsUsable(read, session[s], View(s))
  BY <1>1, ReadWithoutConflict
<1>3. /\ View(s) \in Database /\ Extends(db, View(s)) /\ Whole(db, View(s)) /\ db \in Database
      /\ Sound(View(s), session[s].deals)
      /\ session[s].upserts # {} => View(s).ledger = db.ledger
  BY OwnState, ViewIsSound
<1>4. /\ read.row \in Row /\ read.pnl \in Money /\ p \in session[s].upserts
      /\ read.row = NoTrade => read.pnl = {}
      /\ read.row # NoTrade => MadeOf(View(s).ledger, p, read.row)
      /\ read.pnl \subseteq Economics(View(s).ledger, p)
  BY <1>1, <1>2 DEF Read, ReadIsUsable
<1>5. /\ new \in Trade /\ new.status = "OPEN"
      /\ new.pnl = IF read.pnl # {} \/ read.row = NoTrade THEN read.pnl ELSE read.row.pnl
      /\ new.deal = IF read.row = NoTrade THEN NoDeal ELSE read.row.deal
  BY <1>4, UpsertedIs
<1> HIDE DEF new
<1>6. /\ row \in Trade
      /\ MadeOf(View(s).ledger, p, row)
      /\ row.status = "CLOSED" => IsClosed(View(s).trades, p)
  <2>1. CASE read.row = NoTrade
    <3>1. row = new
      BY <2>1 DEF Saved
    <3> QED
      BY <1>4, <1>5, <2>1, <3>1 DEF MadeOf
  <2>2. CASE read.row # NoTrade
    <3>1. now \in Trade /\ read.row \in Trade /\ now # NoTrade
      BY <1>2, <1>4, <2>2, RowType
    <3>2. /\ row \in Trade /\ row.status \in {now.status, "OPEN"}
          /\ row.pnl \in {now.pnl, new.pnl} /\ row.deal = now.deal
      BY <1>5, <2>2, <3>1, SavedIs
    <3> HIDE DEF row
    <3>3. MadeOf(View(s).ledger, p, now)
      BY <1>2, <1>3, <3>1 DEF Sound
    <3>4. new.pnl \subseteq Economics(View(s).ledger, p)
      BY <1>4, <1>5, <2>2 DEF MadeOf
    <3>5. MadeOf(View(s).ledger, p, row)
      BY <3>2, <3>3, <3>4 DEF MadeOf
    <3>6. row.status = "CLOSED" => now.status = "CLOSED"
      BY <3>2
    <3> QED
      BY <3>1, <3>2, <3>5, <3>6 DEF IsClosed, Sync!IsClosed, Sync!HasTrade
  <2> QED
    BY <2>1, <2>2
<1>7. session[s].fresh \in SUBSET Deals /\ session[s].deals \in SUBSET Deals
      /\ session[s].upserts \in SUBSET Positions
  BY <1>2 DEF Session
<1>8. \A d \in session[s].deals \cup session[s].fresh :
          d \in session[s].deals \/ Knows(View(s).ledger, d)
  BY OwnState DEF SessionIsSound
<1>9. /\ work = Written(View(s), session[s].fresh, View(s).ledger, p, row)
      /\ work.source = View(s).source \cup session[s].fresh
  BY <1>2, <1>3 DEF Flushed, Database, Written
<1>10. \A r1, r2 \in View(s).ledger : r1.deal = r2.deal => r1 = r2
  BY <1>3 DEF Sound
<1>11. View(s).ledger \in SUBSET LedgerRow
  BY <1>3 DEF Database
<1>12. session' = [session EXCEPT ![s] = AfterFlush(session[s], session[s].upserts \ {p},
                                                    session[s].deals, work)]
  <2>1. work = [Flushed(s) EXCEPT !.trades[p] = Saved(@, read.row, new)]
    BY <1>2, <1>3 DEF Flushed, Database
  <2>2. session \in [Sessions -> Session]
    BY DEF RowsAreSound, TypeOK
  <2> HIDE DEF work
  <2>3. session' = [session EXCEPT ![s] = [session[s] EXCEPT
                      !.pc = "apply", !.upserts = session[s].upserts \ {p},
                      !.read = NothingRead, !.work = work]]
    BY <1>1, <2>1, <2>2
  <2>4. [session[s] EXCEPT !.pc = "apply", !.upserts = session[s].upserts \ {p},
                           !.read = NothingRead, !.work = work]
        = AfterFlush(session[s], session[s].upserts \ {p}, session[s].deals, work)
    BY <1>2 DEF Session, AfterFlush
  <2> QED
    BY <2>3, <2>4
<1> HIDE DEF work, row
<1>13. /\ work \in Database /\ Sound(work, session[s].deals)
       /\ Extends(db, work) /\ Whole(db, work)
  <2>0. db.ledger = View(s).ledger
    BY <1>3, <1>4
  <2>1. \A r \in View(s).ledger \ View(s).ledger :
            r.trade = p /\ p = PosOf[r.deal] /\ r.deal \in Executed
    OBVIOUS
  <2>2. View(s).ledger \subseteq View(s).ledger
    OBVIOUS
  <2>3. row.status = "CLOSED" /\ ~IsClosed(View(s).trades, p) =>
            \E r \in View(s).ledger \ View(s).ledger : r.trade = p
    BY <1>6
  <2>4. IsFlush(View(s), session[s].deals, session[s].deals, session[s].fresh,
                View(s).ledger, p, row)
    BY <1>2, <1>3, <1>6, <1>7, <1>8, <1>10, <1>11, <2>1, <2>2, <2>3 DEF IsFlush
  <2> HIDE DEF p
  <2> QED
    BY <1>3, <1>9, <2>0, <2>4, WrittenIsSound
<1>16. work.ledger = db.ledger
  <2>1. work.ledger = View(s).ledger
    BY <1>3, <1>9, <1>12 DEF Written, Database
  <2> QED
    BY <1>3, <1>4, <2>1
<1>14. \A d \in session[s].fresh : d \in work.source
  BY <1>9
<1>15. session[s].upserts \ {p} \in SUBSET Positions
       /\ session[s].deals \in SUBSET session[s].deals
  BY <1>7
<1> HIDE DEF p, read
<1> QED
  BY <1>1, <1>12, <1>13, <1>14, <1>15, <1>16, FlushedStep

LEMMA FlushDealStep ==
    ASSUME RowsAreSound, NEW s \in Sessions, FlushDeal(s) PROVE RowsAreSound'
<1> DEFINE read   == session[s].read
           p      == read.position
           d      == read.deal
           fact   == [conn |-> s, deal |-> d, trade |-> p]
           ledger == View(s).ledger \cup {fact}
           now    == View(s).trades[p]
           old    == IF read.row = NoTrade THEN Sync({})!NewTrade ELSE read.row
           new    == Sync(session[s].open_ids)!Applied(old, Economics(ledger, p), d)
           row    == Saved(now, read.row, new)
           work   == [Flushed(s) EXCEPT !.ledger = ledger, !.trades[p] = row]
<1>1. /\ session[s].pc = "flush" /\ d # NoDeal /\ CanFlush(s) /\ ~Conflict(s)
      /\ lock' = s /\ UNCHANGED <<opened, dealTime, clock, db, faults>>
      /\ session' = [session EXCEPT
                       ![s].pc = "apply", ![s].deals = @ \ {d}, ![s].read = NothingRead,
                       ![s].work = [Flushed(s) EXCEPT !.ledger = ledger,
                                                      !.trades[p] = Saved(@, read.row, new)]]
  BY DEF FlushDeal
<1>2. /\ session[s] \in Session /\ read \in Read /\ p \in Positions /\ now \in Row
      /\ read.row = NoTrade <=> now = NoTrade
      /\ ~Knows(View(s).ledger, d)
      /\ ReadIsUsable(read, session[s], View(s))
  BY <1>1, ReadWithoutConflict
<1>3. /\ View(s) \in Database /\ Extends(db, View(s)) /\ Whole(db, View(s)) /\ db \in Database
      /\ Sound(View(s), session[s].deals)
      /\ session[s].upserts # {} => View(s).ledger = db.ledger
  BY OwnState, ViewIsSound
<1>4. /\ session[s].fresh \in SUBSET Deals /\ session[s].deals \in SUBSET Deals
      /\ session[s].upserts \in SUBSET Positions
      /\ session[s].deals \subseteq Executed
  BY <1>2, OwnState DEF Session, SessionIsSound
<1>5. /\ read.row \in Row
      /\ d \in session[s].deals /\ d \in Deals /\ d \in Executed /\ p = PosOf[d]
      /\ session[s].upserts = {}
      /\ read.row # NoTrade => read.row.deal # d /\ \A e \in read.row.pnl : e.deal # d
  <2>1. /\ read.row \in Row
        /\ d \in session[s].deals /\ d \in Deals /\ d \in Executed /\ p = PosOf[d]
        /\ session[s].upserts = {}
        /\ read.row # NoTrade => MadeOf(View(s).ledger, p, read.row)
    BY <1>1, <1>2, <1>4 DEF Read, ReadIsUsable
  <2>2. read.row # NoTrade => read.row.deal # d /\ \A e \in read.row.pnl : e.deal # d
    BY <1>1, <1>2, <2>1, EconomicsAreKnown DEF MadeOf
  <2> QED
    BY <2>1, <2>2
<1>6. /\ fact \in LedgerRow /\ fact.deal = d /\ fact.trade = p
      /\ ledger \in SUBSET LedgerRow /\ View(s).ledger \subseteq ledger
  BY <1>2, <1>3, <1>5 DEF LedgerRow, Database
<1> HIDE DEF fact
<1>7. \A r1, r2 \in ledger : r1.deal = r2.deal => r1 = r2
  BY <1>2, <1>3, <1>6 DEF Sound, Knows
<1>8. old \in Trade /\ old.deal # d
  BY <1>5, NewTradeType, RowType
<1>9. dealTime \in [Deals -> Nat]
  BY DEF RowsAreSound, TypeOK
<1>10. Economics(ledger, p) \in Money
  BY <1>6, EconomicsType
<1>11. new \in Trade /\ new.pnl = Economics(ledger, p) /\ new.deal = d
  <2> HIDE DEF old, ledger
  <2> QED
    BY <1>5, <1>8, <1>9, <1>10, AppliedIs
<1> HIDE DEF new
<1>12. row \in Trade /\ row.pnl = Economics(ledger, p) /\ row.deal = d
  <2>1. CASE read.row = NoTrade
    BY <1>11, <2>1 DEF Saved
  <2>2. CASE read.row # NoTrade
    <3>1. now \in Trade /\ read.row \in Trade
      BY <1>2, <1>5, <2>2, RowType
    <3>2. [conn |-> fact.conn, deal |-> fact.deal] \in Economics(ledger, p)
      BY <1>6 DEF Economics, Sync!Economics
    <3>3. new.pnl # read.row.pnl /\ new.deal # read.row.deal
      BY <1>5, <1>6, <1>11, <2>2, <3>2
    <3> QED
      BY <1>11, <3>1, <3>3, SavedIs
  <2> QED
    BY <2>1, <2>2
<1>13. Knows(ledger, d) /\ \A r \in ledger \ View(s).ledger : r = fact
  BY <1>6 DEF Knows
<1>14. \E r \in ledger \ View(s).ledger : r.trade = p
  BY <1>2, <1>6 DEF Knows
<1>15. \A e \in session[s].deals \cup session[s].fresh :
           e \in session[s].deals \ {d} \/ Knows(ledger, e)
  <2>1. \A e \in session[s].deals \cup session[s].fresh :
            e \in session[s].deals \/ Knows(View(s).ledger, e)
    BY OwnState DEF SessionIsSound
  <2> QED
    BY <1>13, <2>1 DEF Knows
<1> HIDE DEF ledger, row
<1>16. /\ work = Written(View(s), session[s].fresh, ledger, p, row)
       /\ work.source = View(s).source \cup session[s].fresh
  BY <1>2, <1>3 DEF Flushed, Database, Written
<1>17. session' = [session EXCEPT ![s] = AfterFlush(session[s], session[s].upserts,
                                                    session[s].deals \ {d}, work)]
  <2>1. work = [Flushed(s) EXCEPT !.ledger = ledger, !.trades[p] = Saved(@, read.row, new)]
    BY <1>2, <1>3 DEF Flushed, Database, row
  <2>2. session \in [Sessions -> Session]
    BY DEF RowsAreSound, TypeOK
  <2> HIDE DEF work
  <2> HIDE DEF d, p, now, new
  <2>5. session' = [session EXCEPT ![s].pc = "apply", ![s].deals = @ \ {d},
                                   ![s].read = NothingRead, ![s].work = work]
    BY <1>1, <2>1
  <2>3. session' = [session EXCEPT ![s] = [session[s] EXCEPT
                      !.pc = "apply", !.deals = session[s].deals \ {d},
                      !.read = NothingRead, !.work = work]]
    BY <2>2, <2>5
  <2>4. [session[s] EXCEPT !.pc = "apply", !.deals = session[s].deals \ {d},
                           !.read = NothingRead, !.work = work]
        = AfterFlush(session[s], session[s].upserts, session[s].deals \ {d}, work)
    BY <1>2 DEF Session, AfterFlush
  <2> QED
    BY <2>3, <2>4
<1> HIDE DEF work
<1>18. /\ work \in Database /\ Sound(work, session[s].deals \ {d})
       /\ Extends(db, work) /\ Whole(db, work)
  <2>1. \A r \in ledger \ View(s).ledger :
            r.trade = p /\ p = PosOf[r.deal] /\ r.deal \in Executed
    BY <1>5, <1>6, <1>13
  <2>2. MadeOf(ledger, p, row) /\ ledger # View(s).ledger
    BY <1>12, <1>13, <1>14 DEF MadeOf
  <2>3. row.status = "CLOSED" /\ ~IsClosed(View(s).trades, p) =>
            \E r \in ledger \ View(s).ledger : r.trade = p
    BY <1>14
  <2>4. row \in Trade /\ row.pnl = Economics(ledger, p)
    BY <1>12
  <2> HIDE DEF p, d
  <2>5. IsFlush(View(s), session[s].deals, session[s].deals \ {d}, session[s].fresh,
                ledger, p, row)
    BY <1>2, <1>3, <1>4, <1>6, <1>7, <1>15, <2>1, <2>2, <2>3, <2>4 DEF IsFlush
  <2> QED
    BY <1>3, <1>16, <2>2, <2>5, WrittenIsSound
<1>19. \A e \in session[s].fresh : e \in work.source
  BY <1>16
<1>20. session[s].deals \ {d} \in SUBSET session[s].deals
  OBVIOUS
<1> HIDE DEF p, read, d
<1> QED
  BY <1>1, <1>4, <1>5, <1>17, <1>18, <1>19, <1>20, FlushedStep

-----------------------------------------------------------------------------
(* Steps that others notice                                                *)

\* A commit takes back nothing that another session has read.
LEMMA CommitStep ==
    ASSUME RowsAreSound, NEW s \in Sessions, Commit(s) PROVE RowsAreSound'
<1> DEFINE balance == IF session[s].sum = session[s].loaded
                        THEN View(s).balance ELSE session[s].sum
<1>1. /\ session[s] \in Session /\ SessionIsSound(session[s], lock = s)
      /\ View(s) \in Database /\ Extends(db, View(s)) /\ Sound(View(s), session[s].deals)
      /\ View(s) = IF lock = s THEN session[s].work ELSE db
  BY OwnState, ViewIsSound
<1>2. session[s].deals = {} /\ session[s].fresh \subseteq Deals
  BY <1>1 DEF Commit, SessionIsSound, Session
<1>3. /\ db'.ledger = View(s).ledger /\ db'.trades = View(s).trades
      /\ db'.source = View(s).source \cup session[s].fresh
      /\ db'.balance = balance
  BY <1>1 DEF Commit, Flushed, Database
<1>4. /\ balance \in [Positions -> Money]
      /\ \A p \in Positions : CountsOnce(balance[p])
  BY <1>1 DEF Database, Session, Sound, SessionIsSound
<1>5. db' \in Database
  <2>1. db' = [View(s) EXCEPT !.source = View(s).source \cup session[s].fresh,
                              !.balance = balance]
    BY <1>1 DEF Commit, Flushed, Database
  <2> HIDE DEF balance
  <2> QED
    BY <1>1, <1>2, <1>4, <2>1 DEF Database
<1> HIDE DEF balance
<1>6. Executed' = Executed
  BY DEF Commit, Executed
<1>7. Sound(db, {})'
  <2>1. \A d \in session[s].fresh : Knows(View(s).ledger, d)
    BY <1>1, <1>2 DEF SessionIsSound
  <2> QED
    BY <1>1, <1>2, <1>3, <1>4, <1>6, <2>1 DEF Sound
<1>8. session' = [session EXCEPT ![s] = Idle] /\ lock' = Nobody /\ lock \in {s, Nobody}
      /\ UNCHANGED <<opened, dealTime, clock, faults>>
  BY DEF Commit, CanFlush
<1>9. TypeOK'
  BY <1>5, <1>8, IdleType DEF RowsAreSound, TypeOK
<1>10. ASSUME NEW t \in Sessions PROVE SessionIsSound(session[t], lock = t)'
  <2>1. ~(lock = t)'
    BY <1>8
  <2>2. CASE t = s
    <3>1. session'[t] = Idle
      BY <1>8, <2>2 DEF RowsAreSound, TypeOK
    <3> QED
      BY <2>1, <3>1 DEF SessionIsSound, Idle, EmptyDatabase, CountsOnce, Sync!CountsOnce
  <2>3. CASE t # s
    <3>1. session'[t] = session[t] /\ lock # t
      BY <1>8, <2>3 DEF RowsAreSound, TypeOK
    <3>2. SessionIsSound(session[t], FALSE)
      BY <3>1 DEF RowsAreSound, RaceInvariant
    <3>3. \A d : Knows(db.ledger, d) => Knows(db'.ledger, d)
      BY <1>1, <1>3 DEF Extends, Knows
    <3>4. \A p \in Positions : db.trades[p] # NoTrade => db'.trades[p] # NoTrade
      BY <1>1, <1>3 DEF Extends
    <3>5. session[t].pc \in {"rate", "deal", "flush"} =>
              ReadIsUsable(session[t].read, session[t], db')
      <4>1. db.ledger \subseteq db'.ledger
        BY <1>1, <1>3 DEF Extends
      <4>2. \A p : Economics(db.ledger, p) \subseteq Economics(db'.ledger, p)
        BY <4>1, MoreRows
      <4>3. \A p : \A row : MadeOf(db.ledger, p, row) => MadeOf(db'.ledger, p, row)
        BY <4>1, MoreRows
      <4> QED
        BY <3>2, <3>4, <4>2, <4>3 DEF SessionIsSound, ReadIsUsable
    <3> QED
      BY <1>6, <2>1, <3>1, <3>2, <3>3, <3>5 DEF SessionIsSound
  <2> QED
    BY <2>2, <2>3
<1> QED
  BY <1>7, <1>9, <1>10 DEF RowsAreSound, RaceInvariant

LEMMA FailStep ==
    ASSUME RowsAreSound, NEW s \in Sessions, Fail(s) PROVE RowsAreSound'
<1>1. lock' = IF lock = s THEN Nobody ELSE lock
  BY DEF Fail, CanFlush
<1>2. faults' \in 0 .. MaxFaults
  BY DEF Fail, RowsAreSound, TypeOK
<1> QED
  BY <1>1, <1>2, EndStep DEF Fail

LEMMA DieStep ==
    ASSUME RowsAreSound, NEW s \in Sessions, Die(s) PROVE RowsAreSound'
<1>1. faults' \in 0 .. MaxFaults
  BY DEF Die, RowsAreSound, TypeOK
<1> QED
  BY <1>1, EndStep DEF Die

\* What the terminal does is no news to the rows: deals are only ever added.
LEMMA TerminalStep ==
    ASSUME RowsAreSound, TypeOK', Executed \subseteq Executed', UNCHANGED <<db, session, lock>>
    PROVE  RowsAreSound'
<1>1. ASSUME NEW base, NEW todo, Sound(base, todo) PROVE Sound(base, todo)'
  BY <1>1 DEF Sound
<1>2. Sound(db, {})'
  BY <1>1 DEF RowsAreSound, RaceInvariant
<1>3. ASSUME NEW t \in Sessions PROVE SessionIsSound(session[t], lock = t)'
  <2>1. SessionIsSound(session[t], lock = t)
    BY DEF RowsAreSound, RaceInvariant
  <2>2. lock = t => Sound(session[t].work, session[t].deals)'
    BY <1>1, <2>1 DEF SessionIsSound
  <2> QED
    BY <2>1, <2>2 DEF SessionIsSound
<1> QED
  BY <1>2, <1>3 DEF RowsAreSound, RaceInvariant

LEMMA OpenPositionStep ==
    ASSUME RowsAreSound, NEW p \in Positions, OpenPosition(p) PROVE RowsAreSound'
<1>1. TypeOK' /\ Executed' = Executed
  BY DEF OpenPosition, Executed, RowsAreSound, TypeOK
<1> QED
  BY <1>1, TerminalStep DEF OpenPosition

LEMMA ExecuteDealStep ==
    ASSUME RowsAreSound, NEW d \in Deals, ExecuteDeal(d)
    PROVE  RowsAreSound' /\ Executed' = Executed \cup {d} /\ d \notin Executed
<1>1. clock \in Nat /\ dealTime \in [Deals -> Nat]
  BY DEF RowsAreSound, TypeOK
<1>2. TypeOK'
  BY <1>1 DEF ExecuteDeal, RowsAreSound, TypeOK
<1>3. Executed' = Executed \cup {d} /\ d \notin Executed
  BY <1>1 DEF ExecuteDeal, Executed
<1> QED
  BY <1>2, <1>3, TerminalStep DEF ExecuteDeal

-----------------------------------------------------------------------------
(* The theorems                                                            *)

LEMMA InitIsSound == Init => RowsAreSound
<1> SUFFICES ASSUME Init PROVE RowsAreSound
  OBVIOUS
<1>1. EmptyDatabase \in Database
  BY DEF EmptyDatabase, Database, Money, Row
<1>2. TypeOK
  BY <1>1, IdleType DEF Init, TypeOK
<1>3. Sound(db, {})
  BY DEF Init, EmptyDatabase, Sound, CountsOnce, Sync!CountsOnce
<1>4. \A s \in Sessions : session[s] = Idle /\ lock # s
  BY DEF Init
<1> QED
  BY <1>2, <1>3, <1>4, IdleType DEF RowsAreSound, RaceInvariant

LEMMA NextIsSound == RowsAreSound /\ [Next]_vars => RowsAreSound'
<1> SUFFICES ASSUME RowsAreSound, [Next]_vars PROVE RowsAreSound'
  OBVIOUS
<1>1. CASE UNCHANGED vars
  <2>1. TypeOK' /\ Executed' = Executed
    BY <1>1 DEF vars, Executed, RowsAreSound, TypeOK
  <2> QED
    BY <1>1, <2>1, TerminalStep DEF vars
<1>2. CASE Next
  <2>1. ASSUME NEW s \in Sessions, Serve(s) PROVE RowsAreSound'
    BY <2>1, LoadAccountStep, StoreBarsStep, ReadSourcesStep, FindPositionStep, ReadEconomicsStep,
       SkipDealStep, TakeDealStep, FindDealStep, FlushPositionStep, FlushDealStep, RefreshStep, CommitStep, FailStep
    DEF Serve
  <2> QED
    BY <1>2, <2>1, OpenPositionStep, ExecuteDealStep, ArriveStep, DieStep DEF Next
<1> QED
  BY <1>1, <1>2

\* Committed or not, whatever the sessions interleave and whoever dies: no row is inserted
\* twice, every row hangs on the trade of its position, a trade counts no deal but its rows
\* (it may lack some: PnlMatchesLedger), and evidence and ledger agree.
THEOREM RowsStaySound == Spec => []RowsAreSound
BY InitIsSound, NextIsSound, PTL DEF Spec

\* No trade's P&L and no balance counts a deal twice, however requests overlap.
THEOREM DealsCountOnce == Spec => []NoDealCountedTwice
<1>1. RowsAreSound => NoDealCountedTwice
  <2> SUFFICES ASSUME RowsAreSound, NEW p \in Positions
               PROVE  /\ HasTrade(p) => CountsOnce(db.trades[p].pnl)
                      /\ CountsOnce(db.balance[p])
    BY DEF NoDealCountedTwice, CountsOnce
  <2>1. Sound(db, {})
    BY DEF RowsAreSound, RaceInvariant
  <2>2. HasTrade(p) => CountsOnce(db.trades[p].pnl)
    BY <2>1, PartCountsOnce DEF Sound, MadeOf, HasTrade
  <2> QED
    BY <2>1, <2>2 DEF Sound
<1> QED
  BY <1>1, RowsStaySound, PTL

\* A closing deal in the source ledger was processed by one of the requests.
THEOREM EvidenceHasRows == Spec => []EvidenceIsProcessed
<1>1. RowsAreSound => EvidenceIsProcessed
  BY DEF RowsAreSound, RaceInvariant, Sound, EvidenceIsProcessed
<1> QED
  BY <1>1, RowsStaySound, PTL

-----------------------------------------------------------------------------
(* Overlapping requests are one journal                                    *)

\* What a trade shows, by cases.
LEMMA ShownValues ==
    ASSUME NEW trades, NEW p \in Positions
    PROVE  /\ Sync({})!Shown(trades)[p] \in Journal!Status
           /\ Sync({})!Shown(trades)[p] = "none" <=> trades[p] = NoTrade
           /\ Sync({})!Shown(trades)[p] = "closed" <=> IsClosed(trades, p)
BY DEF Sync!Shown, Journal!Status, Sync!HasTrade, Sync!IsClosed, IsClosed

LEMMA ShownType ==
    ASSUME NEW trades
    PROVE  Sync({})!Shown(trades) \in [Positions -> Journal!Status]
BY DEF Sync!Shown, Journal!Status

\* What a commit adds to the rows is one entry in the journal.
LEMMA CommitRecords ==
    ASSUME RowsAreSound, NEW s \in Sessions, Commit(s)
    PROVE  \E news \in SUBSET (Executed \ Sync({})!Recorded(db.ledger)) : Journal!Record(news)
<1> DEFINE view == View(s)
           rows == view.ledger \ db.ledger
           news == {r.deal : r \in rows}
<1>1. /\ view \in Database /\ Extends(db, view) /\ Sound(view, session[s].deals)
  BY OwnState, ViewIsSound
<1>2. db'.ledger = view.ledger /\ db'.trades = view.trades /\ Executed' = Executed
  BY <1>1 DEF Commit, Flushed, Database, Executed
<1> HIDE DEF view
<1>3. /\ db.ledger \subseteq view.ledger
      /\ \A r \in view.ledger : /\ r.deal \in Executed /\ r.trade = PosOf[r.deal]
                                /\ view.trades[r.trade] # NoTrade
      /\ \A r1, r2 \in view.ledger : r1.deal = r2.deal => r1 = r2
  BY <1>1 DEF Extends, Sound
<1>4. news \subseteq Executed \ Sync({})!Recorded(db.ledger)
  BY <1>3 DEF Sync!Recorded
<1>5. Sync({})!Recorded(view.ledger) = Sync({})!Recorded(db.ledger) \cup news
  BY <1>3 DEF Sync!Recorded
<1>6. ASSUME NEW p \in Positions
      PROVE  /\ db.trades[p] # NoTrade => view.trades[p] # NoTrade
             /\ (\E d \in news : PosOf[d] = p) => view.trades[p] # NoTrade
             /\ IsClosed(view.trades, p) /\ ~IsClosed(db.trades, p) =>
                  \E d \in news : PosOf[d] = p
  <2>1. IsClosed(view.trades, p) /\ ~IsClosed(db.trades, p) => \E r \in rows : r.trade = p
    BY <1>1 DEF Extends
  <2>2. db.trades[p] # NoTrade => view.trades[p] # NoTrade
    BY <1>1 DEF Extends
  <2> QED
    BY <1>3, <2>1, <2>2
<1>7. Journal!Record(news)
  BY <1>2, <1>5, <1>6, ShownValues, ShownType DEF Journal!Record
<1> QED
  BY <1>4, <1>7

\* Only a commit writes the rows, and only a deal of the broker is executed.
LEMMA OthersWriteNothing ==
    ASSUME Next
    PROVE  \/ \E s \in Sessions : Commit(s)
           \/ \E d \in Deals : ExecuteDeal(d)
           \/ UNCHANGED <<dealTime, db>>
<1>1. ASSUME NEW s \in Sessions, Serve(s), ~Commit(s) PROVE UNCHANGED <<dealTime, db>>
  BY <1>1 DEF Serve, LoadAccount, StoreBars, ReadSources, FindPosition,
              ReadEconomics, SkipDeal, TakeDeal, FindDeal, FlushPosition, FlushDeal, Refresh,
              Fail
<1> QED
  BY <1>1 DEF Next, OpenPosition, Arrive, Die

\* A request that records a deal has read the ledger again behind its first flush, and
\* leaves the trade with the sum over all its rows.
THEOREM RecordingStaysWhole == Spec => RecordingIsWhole
<1>1. ASSUME RowsAreSound, [Next]_vars, NEW r \in db'.ledger \ db.ledger
      PROVE  db'.trades[r.trade].pnl = Economics(db'.ledger, r.trade)
  <2>1. PICK s \in Sessions : Commit(s)
    BY <1>1, OthersWriteNothing DEF ExecuteDeal, vars
  <2>2. Whole(db, View(s)) /\ View(s) \in Database
    BY <1>1, OwnState
  <2>3. db'.ledger = View(s).ledger /\ db'.trades = View(s).trades
    BY <2>1, <2>2 DEF Commit, Flushed, Database
  <2> QED
    BY <1>1, <2>2, <2>3 DEF Whole
<1>2. RowsAreSound /\ [Next]_vars =>
          [\A r \in db'.ledger \ db.ledger :
              db'.trades[r.trade].pnl = Economics(db'.ledger, r.trade)]_vars
  BY <1>1
<1> QED
  BY <1>2, RowsStaySound, PTL DEF Spec, RecordingIsWhole

LEMMA JournalStep ==
    ASSUME RowsAreSound, [Next]_vars
    PROVE  [Journal!Next]_(Journal!vars)
<1>1. ASSUME NEW s \in Sessions, Commit(s) PROVE Journal!Next
  BY <1>1, CommitRecords DEF Journal!Next
<1>2. ASSUME NEW d \in Deals, ExecuteDeal(d) PROVE Journal!Next
  <2>1. Journal!Execute(d)
    BY <1>2, ExecuteDealStep DEF ExecuteDeal, Journal!Execute
  <2> QED
    BY <2>1 DEF Journal!Next
<1>3. UNCHANGED <<dealTime, db>> => UNCHANGED Journal!vars
  BY DEF Journal!vars, Executed, Sync!Recorded, Sync!Shown, Sync!HasTrade, Sync!IsClosed
<1>4. UNCHANGED vars => UNCHANGED <<dealTime, db>>
  BY DEF vars
<1> QED
  BY <1>1, <1>2, <1>3, <1>4, OthersWriteNothing

\* Requests that overlap are no more visible in the journal than sequential ones: every
\* commit records deals that were never recorded, and closes trades only with them.
THEOREM RaceImplementsJournal == Spec => ImplementsJournal
<1>1. Init => Journal!Init
  BY DEF Init, Journal!Init, EmptyDatabase, Executed, Sync!Recorded, Sync!Shown, Sync!HasTrade
<1> QED
  BY <1>1, JournalStep, RowsStaySound, PTL DEF Spec, ImplementsJournal, Journal!Spec

==============================================================================
