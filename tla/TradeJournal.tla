---------------------------- MODULE TradeJournal ----------------------------
(***************************************************************************)
(* What the ingestion of MT5 deals promises to the user of the journal, as *)
(* docs/CANONICAL_TRADE_DATA.md and apply_sync put it: no requests, no     *)
(* retries, no transactions, no ledgers.  The broker executes closing      *)
(* deals; the journal records each of them once per connection, in sets    *)
(* and late perhaps, and closes a trade only while recording a new deal of *)
(* its position.  The user edits and deletes trades and may start over     *)
(* with a new connection, which forgets what was recorded but no trade.    *)
(***************************************************************************)
EXTENDS Naturals

CONSTANTS
    Positions,  \* broker position ids
    Deals,      \* tickets of the closing deals
    PosOf       \* PosOf[d] is the position that deal d closes or reduces

VARIABLES
    executed,   \* deals the broker has executed
    recorded,   \* deals the current connection has recorded
    status      \* what the journal shows of a position

vars == <<executed, recorded, status>>

Status == {"none", "open", "closed"}

Init ==
    /\ executed = {}
    /\ recorded = {}
    /\ status = [p \in Positions |-> "none"]

Execute(d) ==
    /\ d \notin executed
    /\ executed' = executed \cup {d}
    /\ UNCHANGED <<recorded, status>>

\* One snapshot: the deals it brings that are new, and the trades after it.  It
\* removes no trade, has one for every new deal, and closes none without a deal.
Record(news) ==
    /\ recorded' = recorded \cup news
    /\ status' \in [Positions -> Status]
    /\ \A p \in Positions :
          /\ status[p] # "none" => status'[p] # "none"
          /\ (\E d \in news : PosOf[d] = p) => status'[p] # "none"
          /\ (status'[p] = "closed" /\ status[p] # "closed") => \E d \in news : PosOf[d] = p
    /\ UNCHANGED executed

\* The user edits, closes or deletes a trade: what is recorded stays so.
Edit(p) ==
    /\ status[p] # "none"
    /\ \E s \in Status : status' = [status EXCEPT ![p] = s]
    /\ UNCHANGED <<executed, recorded>>

\* A new connection for the account.
Reconnect ==
    /\ recorded' = {}
    /\ UNCHANGED <<executed, status>>

Next ==
    \/ \E d \in Deals : Execute(d)
    \/ \E news \in SUBSET (executed \ recorded) : Record(news)
    \/ \E p \in Positions : Edit(p)
    \/ Reconnect

Spec == Init /\ [][Next]_vars

=============================================================================
