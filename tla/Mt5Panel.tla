------------------------------- MODULE Mt5Panel -------------------------------
(***************************************************************************)
(* The MT5 connection of one account as the user handles it: the row and   *)
(* its code on the server, the syncs of the companion, the panel of the    *)
(* settings page with its polling, and the drawer that shows the code.     *)
(* Mt5Sync models what a sync does to the journal; here it only marks the  *)
(* connection as seen.                                                     *)
(*                                                                         *)
(* Commands overlap: Disconnect and Regenerate have no busy flag, so that  *)
(* one may be given before the last is answered, the server may serve them *)
(* in another order and their answers may cross.  Each is one transaction: *)
(* it loads the row, and by its commit others may have changed the row.    *)
(* The read-back of db.refresh is part of the commit's step.               *)
(***************************************************************************)
EXTENDS Naturals, FiniteSets

CONSTANTS MaxCommands,  \* bound: commands given; each has a number, 1 is that of an
                        \* earlier visit of the page
          MaxSyncs,     \* bound: sync requests at the same time
          MaxPolls      \* bound: status requests at the same time

ASSUME Mt5Assumption == MaxCommands \in Nat \ {0}

VARIABLES row,          \* the Mt5Connection row
          syncs,        \* rows that sync requests past authentication have loaded
          panel,        \* the connection the panel shows
          polls,        \* status answers on their way (equal ones are one)
          commands,     \* the user's commands under way
          given,        \* number of the latest command
          lastDone,     \* the command the server carried out last
          lastHeard,    \* the command whose success the panel heard of last
          freshToken,   \* the panel's copy of a new code
          drawer,       \* the drawer: open, step and the code it holds
          disconnected, \* the server has revoked, and nothing was created since
          overrun       \* the last code was generated for a row revoked since it was loaded

serverVars == <<row, syncs, lastDone, disconnected, overrun>>
panelVars == <<panel, freshToken, drawer, lastHeard>>
mt5Vars == <<serverVars, panelVars, polls, commands, given>>

\* Connections and codes carry the number of the command that made them.
Numbers == 0 .. MaxCommands
NoCode == 0
NoRow == [id |-> 0, code |-> NoCode, status |-> "none", revoked |-> FALSE, seen |-> "never"]
Status == {"none", "pending", "connected", "stale", "revoked"}
RowStatus == {"none", "pending", "connected", "revoked"}
Row == [id : Numbers, code : Numbers, status : RowStatus, revoked : BOOLEAN,
        seen : {"never", "recently", "long ago"}]
\* The row that create_connection inserts.
NewRow(n) == [id |-> n, code |-> n, status |-> "pending", revoked |-> FALSE, seen |-> "never"]
View == [status : Status, id : Numbers]
NoView == [status |-> "none", id |-> 0]
Steps == {"intro", "install"}

\* What a command writes depends on the row as the server loaded it: only columns that
\* change are written.
Loaded == [id : Numbers, status : RowStatus, unseen : BOOLEAN]
LoadedOf(r) == [id |-> r.id, status |-> r.status, unseen |-> r.seen = "never"]
NothingLoaded == LoadedOf(NoRow)

Command ==
    [n       : Numbers,
     name    : {"create", "regenerate", "revoke"},
     stage   : {"asked", "serving", "done", "refused"},
     target  : Numbers,         \* connection the command is for
     loaded  : Loaded,
     view    : View,            \* the connection in the answer
     waiting : BOOLEAN]         \* the page still waits for the answer
Drawer == [open : BOOLEAN, step : Steps, token : Numbers]

Mt5TypeOK ==
    /\ row \in Row /\ syncs \subseteq Row
    /\ panel \in View /\ polls \subseteq View
    /\ commands \subseteq Command /\ given \in Numbers
    /\ lastDone \in Numbers /\ lastHeard \in Numbers
    /\ freshToken \in Numbers /\ drawer \in Drawer
    /\ disconnected \in BOOLEAN /\ overrun \in BOOLEAN

\* The page is opened for an account without a connection, or with one of an earlier visit.
Mt5Init ==
    /\ row \in {NoRow, NewRow(1), [NewRow(1) EXCEPT !.status = "revoked", !.revoked = TRUE]}
    /\ syncs = {}
    /\ panel = NoView /\ polls = {}
    /\ commands = {} /\ given = 1 /\ lastDone = 1 /\ lastHeard = 1
    /\ freshToken = NoCode
    /\ drawer = [open |-> FALSE, step |-> "intro", token |-> NoCode]
    /\ disconnected = row.revoked /\ overrun = FALSE

-----------------------------------------------------------------------------
(* The server                                                              *)

\* Mutant: the status column alone decides.
StatusColumn(r) ==
    IF r.status = "revoked" THEN "revoked"
    ELSE IF r.seen = "never" THEN r.status
    ELSE IF r.seen = "long ago" THEN "stale"
    ELSE "connected"

\* _effective_status: revoked for good once revoked_at is set, otherwise by the age of
\* the last sync.
EffectiveStatus(r) ==
    IF r.status = "revoked" \/ r.revoked THEN "revoked"
    ELSE IF r.seen = "never" THEN r.status
    ELSE IF r.seen = "long ago" THEN "stale"
    ELSE "connected"
Serialized(r) == [status |-> EffectiveStatus(r), id |-> r.id]

\* The server answers a command, or drops the answer nobody waits for.
AnswerCommand(c, answer) ==
    commands' = (commands \ {c}) \cup IF c.waiting THEN {answer} ELSE {}
RefuseCommand(c) == AnswerCommand(c, [c EXCEPT !.stage = "refused", !.loaded = NothingLoaded])
AnswerDone(c, view) ==
    AnswerCommand(c, [c EXCEPT !.stage = "done", !.loaded = NothingLoaded, !.view = view])

\* create_connection is refused while a connection is not revoked, regenerate_connection
\* for a revoked one, both others for a connection that is gone.
MustRefuse(c) ==
    CASE c.name = "create"     -> row # NoRow /\ ~row.revoked
      [] c.name = "regenerate" -> row.id # c.target \/ row.revoked
      [] c.name = "revoke"     -> row.id # c.target

LoadConnection(c) ==
    /\ c.stage = "asked"
    /\ IF MustRefuse(c) THEN RefuseCommand(c)
       ELSE commands' = (commands \ {c}) \cup
                          {[c EXCEPT !.stage = "serving", !.loaded = LoadedOf(row)]}
    /\ UNCHANGED <<serverVars, panelVars, polls, given>>

\* The row has been replaced since it was loaded: an UPDATE finds no row, an INSERT
\* violates the unique account_id.
LoseRow(c) ==
    /\ c.stage = "serving"
    /\ row.id # c.loaded.id
    /\ RefuseCommand(c)
    /\ UNCHANGED <<serverVars, panelVars, polls, given>>

Perform(c, name) ==
    /\ c.stage = "serving" /\ c.name = name
    /\ row.id = c.loaded.id
    /\ lastDone' = c.n

\* create_connection: a revoked row is deleted and a new one takes its place.
CreateConnection(c) ==
    /\ Perform(c, "create")
    /\ row' = NewRow(c.n)
    /\ disconnected' = FALSE /\ overrun' = FALSE
    /\ AnswerDone(c, Serialized(row'))
    /\ UNCHANGED <<syncs, panelVars, polls, given>>

\* regenerate_connection writes the new code, and what differs of the row it loaded.
RegenerateConnection(c) ==
    /\ Perform(c, "regenerate")
    /\ row' = [row EXCEPT !.code = c.n,
                          !.status = IF c.loaded.status # "pending" THEN "pending" ELSE @,
                          !.seen = IF c.loaded.unseen THEN @ ELSE "never"]
    /\ overrun' = row.revoked
    /\ AnswerDone(c, Serialized(row'))
    /\ UNCHANGED <<syncs, disconnected, panelVars, polls, given>>

\* revoke_connection
RevokeConnection(c) ==
    /\ Perform(c, "revoke")
    /\ row' = [row EXCEPT !.status = IF c.loaded.status # "revoked" THEN "revoked" ELSE @,
                          !.revoked = TRUE]
    /\ disconnected' = TRUE /\ overrun' = FALSE
    /\ AnswerDone(c, Serialized(row'))
    /\ UNCHANGED <<syncs, panelVars, polls, given>>

\* get_mt5_connection: the token of a sync request is looked up, a revoked row refused.
Authenticates(r) == r # NoRow /\ r.status # "revoked" /\ ~r.revoked
BeginSync ==
    /\ Authenticates(row)
    /\ Cardinality(syncs) < MaxSyncs
    /\ syncs' = syncs \cup {row}
    /\ UNCHANGED <<row, lastDone, disconnected, overrun, panelVars, polls, commands, given>>

\* apply_sync commits the columns it changed on the row it had loaded: last_seen_at, and
\* the status of a pending connection.  Of a row deleted meanwhile nothing is written.
CommitSync(s) ==
    /\ s \in syncs
    /\ syncs' = syncs \ {s}
    /\ row' = IF s.id # row.id THEN row
              ELSE [row EXCEPT !.seen = "recently",
                               !.status = IF s.status = "pending" THEN "connected" ELSE @]
    /\ UNCHANGED <<lastDone, disconnected, overrun, panelVars, polls, commands, given>>

\* mt5_stale_seconds pass without a sync.
FallSilent ==
    /\ row.seen = "recently"
    /\ row' = [row EXCEPT !.seen = "long ago"]
    /\ UNCHANGED <<syncs, lastDone, disconnected, overrun, panelVars, polls, commands, given>>

-----------------------------------------------------------------------------
(* The panel                                                               *)

\* setConnection: a new connection object also re-runs the open drawer's effect, which
\* goes to the step that fits and takes the panel's code, or none.
Show(view, code) ==
    /\ panel' = view
    /\ freshToken' = code
    /\ drawer' = IF ~drawer.open THEN drawer
                 ELSE [drawer EXCEPT !.token = code,
                         !.step = IF code # NoCode \/ view.status \notin {"none", "revoked"}
                                  THEN "install" ELSE "intro"]

CanPoll == Cardinality(polls) < MaxPolls
AskStatus == polls' = polls \cup {Serialized(row)}

\* reload on mount, and every 5 s until the connection is connected or revoked.
Poll ==
    /\ CanPoll
    /\ panel.status \notin {"connected", "revoked"}
    /\ AskStatus
    /\ UNCHANGED <<serverVars, panelVars, commands, given>>

\* A status answer, of whatever age, is shown.
ShowStatus(p) ==
    /\ p \in polls
    /\ polls' = polls \ {p}
    /\ Show(p, freshToken)
    /\ UNCHANGED <<serverVars, lastHeard, commands, given>>

\* Get started waits for its own answer (busy).  Disconnect MT5 and Regenerate code are
\* offered for a connection that is not revoked, whatever else is under way; only the
\* open drawer covers them.
Ask(name) ==
    /\ given < MaxCommands
    /\ IF name = "create"
       THEN /\ drawer.open /\ drawer.step = "intro"
            /\ \A c \in commands : ~(c.name = "create" /\ c.waiting)
       ELSE ~drawer.open /\ panel.status \notin {"none", "revoked"}
    /\ given' = given + 1
    /\ commands' = commands \cup
          {[n |-> given + 1, name |-> name, stage |-> "asked", target |-> panel.id,
            loaded |-> NothingLoaded, view |-> NoView, waiting |-> TRUE]}
    /\ UNCHANGED <<serverVars, panelVars, polls>>

\* The page hears that the server has carried out the command.
HearSuccess(c, name) ==
    /\ c.stage = "done" /\ c.name = name
    /\ commands' = commands \ {c}
    /\ lastHeard' = c.n
    /\ UNCHANGED <<serverVars, given>>

\* onCreated: the panel shows the new connection and hands its code to the drawer.
SeeCreated(c) ==
    /\ HearSuccess(c, "create")
    /\ Show(c.view, c.n)
    /\ UNCHANGED polls

\* onRegenerate: the new code opens the drawer.
SeeRegenerated(c) ==
    /\ HearSuccess(c, "regenerate")
    /\ panel' = c.view
    /\ freshToken' = c.n
    /\ drawer' = [open |-> TRUE, step |-> "install", token |-> c.n]
    /\ UNCHANGED polls

\* Mutant: the code is kept.
SeeRevokedAndKeepCode(c) ==
    /\ HearSuccess(c, "revoke")
    /\ CanPoll
    /\ Show(panel, freshToken)
    /\ AskStatus

\* onDisconnect: the code is forgotten and the status asked for.
SeeRevoked(c) ==
    /\ HearSuccess(c, "revoke")
    /\ CanPoll
    /\ Show(panel, NoCode)
    /\ AskStatus

\* The command is refused, or its answer is lost, before or after the server has carried
\* it out: only an error line.
SeeError(c) ==
    /\ c.waiting
    /\ commands' = (commands \ {c}) \cup
          IF c.stage \in {"asked", "serving"} THEN {[c EXCEPT !.waiting = FALSE]} ELSE {}
    /\ UNCHANGED <<serverVars, panelVars, polls, given>>

-----------------------------------------------------------------------------
(* The drawer                                                              *)

OpenDrawer ==
    /\ ~drawer.open
    /\ drawer' = [open |-> TRUE, token |-> freshToken,
                  step |-> IF freshToken # NoCode \/ panel.status \notin {"none", "revoked"}
                           THEN "install" ELSE "intro"]
    /\ UNCHANGED <<serverVars, panel, freshToken, lastHeard, polls, commands, given>>

\* Closing forgets the code, which is shown once, and asks for the status.
CloseDrawer ==
    /\ drawer.open /\ CanPoll
    /\ drawer' = [drawer EXCEPT !.open = FALSE]
    /\ freshToken' = NoCode
    /\ AskStatus
    /\ UNCHANGED <<serverVars, panel, lastHeard, commands, given>>

ServeCommand(c) ==
    \/ LoadConnection(c) \/ LoseRow(c)
    \/ CreateConnection(c) \/ RegenerateConnection(c) \/ RevokeConnection(c)
HearOf(c) == SeeCreated(c) \/ SeeRegenerated(c) \/ SeeRevoked(c) \/ SeeError(c)

Mt5Next ==
    \/ \E c \in commands : ServeCommand(c) \/ HearOf(c)
    \/ BeginSync \/ FallSilent \/ \E s \in syncs : CommitSync(s)
    \/ Poll \/ \E p \in polls : ShowStatus(p)
    \/ \E name \in {"create", "regenerate", "revoke"} : Ask(name)
    \/ OpenDrawer \/ CloseDrawer

Mt5Spec == Mt5Init /\ [][Mt5Next]_mt5Vars

-----------------------------------------------------------------------------
(* Properties                                                              *)

\* Once the user has disconnected MT5 the connection counts as revoked and authenticates
\* no sync until another is created, although a sync or a regenerate that had loaded the
\* row before may still commit and write another status over "revoked".
RevokedStaysRevoked ==
    disconnected => EffectiveStatus(row) = "revoked" /\ ~Authenticates(row)

\* A code the drawer shows is the one the server accepts, if the answer the page heard last
\* is about the command the server carried out last: whatever polls, syncs and refusals come
\* between, and whenever the drawer is opened.  Answers that cross may leave an old code on
\* the screen, and a lost one hides that the code was replaced.  The code may be of a revoked
\* connection only if it was generated by a command that had loaded the row before.
ShownCodeWorks ==
    drawer.open /\ drawer.token # NoCode /\ lastHeard = lastDone =>
        drawer.token = row.code /\ (row.revoked => overrun)
==============================================================================
