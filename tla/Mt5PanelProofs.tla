--------------------------- MODULE Mt5PanelProofs ---------------------------
(***************************************************************************)
(* Theorems about Mt5Panel for every number of commands, syncs and polls,  *)
(* and their proofs.                                                       *)
(***************************************************************************)
EXTENDS Mt5Panel, TLAPS

USE Mt5Assumption

Names == {"create", "regenerate", "revoke"}
CommandStages == {"asked", "serving", "done", "refused"}

-----------------------------------------------------------------------------
(* Type correctness                                                        *)

LEMMA CommandFields ==
    Command = [n : Numbers, name : Names, stage : CommandStages, target : Numbers, loaded : Loaded,
               view : View, waiting : BOOLEAN]
BY DEF Command, Names, CommandStages

LEMMA LoadedType == ASSUME NEW r \in Row PROVE LoadedOf(r) \in Loaded
BY DEF LoadedOf, Loaded, Row

LEMMA Sentinels == NoRow \in Row /\ NoView \in View /\ NothingLoaded \in Loaded
<1>1. NoRow \in Row
  BY DEF NoRow, Row, RowStatus, NoCode, Numbers
<1>2. NoView \in View
  BY DEF NoView, View, Status, Numbers
<1> QED
  BY <1>1, <1>2, LoadedType DEF NothingLoaded

LEMMA SerializedType ==
    ASSUME NEW r \in Row PROVE Serialized(r) \in View
<1>1. EffectiveStatus(r) \in Status
  BY DEF EffectiveStatus, Row, RowStatus, Status
<1> QED
  BY <1>1 DEF Serialized, View, Row

\* A command stays one when it is served, answered or given up.
LEMMA CommandType ==
    ASSUME NEW c \in Command, NEW stage \in CommandStages, NEW loaded \in Loaded, NEW view \in View
    PROVE  /\ [c EXCEPT !.stage = stage, !.loaded = loaded] \in Command
           /\ [c EXCEPT !.stage = stage, !.loaded = loaded, !.view = view] \in Command
           /\ [c EXCEPT !.waiting = FALSE] \in Command
BY CommandFields

LEMMA NewRowType == ASSUME NEW n \in Numbers PROVE NewRow(n) \in Row /\ NewRow(n).code = n
BY DEF Row, NewRow, RowStatus

\* The rows that commands and syncs write are rows, with the code that is meant.
LEMMA WrittenRow ==
    ASSUME NEW r \in Row, NEW n \in Numbers, NEW loaded \in Loaded
    PROVE  LET regenerated == [r EXCEPT !.code = n,
                  !.status = IF loaded.status # "pending" THEN "pending" ELSE @,
                  !.seen = IF loaded.unseen THEN @ ELSE "never"]
               revoked == [r EXCEPT
                  !.status = IF loaded.status # "revoked" THEN "revoked" ELSE @, !.revoked = TRUE]
           IN  /\ regenerated \in Row /\ regenerated.code = n
               /\ regenerated.revoked = r.revoked
               /\ revoked \in Row /\ revoked.revoked = TRUE
<1>1. /\ (IF loaded.status # "pending" THEN "pending" ELSE r.status) \in RowStatus
      /\ (IF loaded.status # "revoked" THEN "revoked" ELSE r.status) \in RowStatus
      /\ (IF loaded.unseen THEN r.seen ELSE "never") \in {"never", "recently", "long ago"}
  BY DEF Row, RowStatus
<1> QED
  BY <1>1 DEF Row

LEMMA SyncedRow ==
    ASSUME NEW r \in Row, NEW s \in Row
    PROVE  LET synced == [r EXCEPT !.seen = "recently",
                  !.status = IF s.status = "pending" THEN "connected" ELSE @]
           IN  synced \in Row /\ synced.code = r.code /\ synced.revoked = r.revoked
<1>1. (IF s.status = "pending" THEN "connected" ELSE r.status) \in RowStatus
  BY DEF Row, RowStatus
<1> QED
  BY <1>1 DEF Row

\* What the server's part of a command does to the set of commands.
LEMMA AnswerType ==
    ASSUME Mt5TypeOK, NEW c \in commands, NEW answer \in Command, AnswerCommand(c, answer)
    PROVE  commands' \subseteq Command
BY DEF AnswerCommand, Mt5TypeOK

LEMMA ServeType ==
    ASSUME Mt5TypeOK, NEW c \in commands, ServeCommand(c) PROVE Mt5TypeOK'
<1> USE Sentinels
<1>0. c \in Command /\ row \in Row /\ c.n \in Numbers /\ c.loaded \in Loaded /\ LoadedOf(row) \in Loaded
  BY LoadedType, CommandFields DEF Mt5TypeOK
<1>1. /\ [c EXCEPT !.stage = "refused", !.loaded = NothingLoaded] \in Command
      /\ [c EXCEPT !.stage = "serving", !.loaded = LoadedOf(row)] \in Command
      /\ \A view \in View : [c EXCEPT !.stage = "done", !.loaded = NothingLoaded, !.view = view] \in Command
  <2>1. "refused" \in CommandStages /\ "serving" \in CommandStages /\ "done" \in CommandStages
    BY DEF CommandStages
  <2> QED
    BY <1>0, <2>1, CommandType
<1>2. RefuseCommand(c) => commands' \subseteq Command
  BY <1>1, AnswerType DEF RefuseCommand
<1>3. ASSUME row' \in Row, AnswerDone(c, Serialized(row')) PROVE commands' \subseteq Command
  <2>1. Serialized(row') \in View
    BY <1>3, SerializedType
  <2> QED
    BY <1>1, <1>3, <2>1, AnswerType DEF AnswerDone
<1>4. CASE LoadConnection(c)
  <2>1. commands' \subseteq Command
    BY <1>1, <1>2, <1>4 DEF LoadConnection, Mt5TypeOK
  <2> QED
    BY <1>4, <2>1 DEF LoadConnection, serverVars, panelVars, Mt5TypeOK
<1>5. CASE LoseRow(c)
  BY <1>2, <1>5 DEF LoseRow, serverVars, panelVars, Mt5TypeOK
<1>6. CASE CreateConnection(c)
  <2>1. row' \in Row
    BY <1>0, <1>6, NewRowType DEF CreateConnection
  <2>2. commands' \subseteq Command
    BY <1>3, <1>6, <2>1 DEF CreateConnection
  <2> QED
    BY <1>0, <1>6, <2>1, <2>2 DEF CreateConnection, Perform, panelVars, Mt5TypeOK
<1>7. CASE RegenerateConnection(c)
  <2>1. row' \in Row
    BY <1>0, <1>7, WrittenRow DEF RegenerateConnection
  <2>2. commands' \subseteq Command
    BY <1>3, <1>7, <2>1 DEF RegenerateConnection
  <2>3. row.revoked \in BOOLEAN
    BY <1>0 DEF Row
  <2> QED
    BY <1>0, <1>7, <2>1, <2>2, <2>3 DEF RegenerateConnection, Perform, panelVars, Mt5TypeOK
<1>8. CASE RevokeConnection(c)
  <2>1. row' \in Row
    BY <1>0, <1>8, WrittenRow DEF RevokeConnection
  <2>2. commands' \subseteq Command
    BY <1>3, <1>8, <2>1 DEF RevokeConnection
  <2> QED
    BY <1>0, <1>8, <2>1, <2>2 DEF RevokeConnection, Perform, panelVars, Mt5TypeOK
<1> QED
  BY <1>4, <1>5, <1>6, <1>7, <1>8 DEF ServeCommand

LEMMA ShowType ==
    ASSUME Mt5TypeOK, NEW view \in View, NEW code \in Numbers, Show(view, code)
    PROVE  panel' \in View /\ freshToken' \in Numbers /\ drawer' \in Drawer
BY DEF Mt5TypeOK, Show, Drawer, Steps

LEMMA SeeType ==
    ASSUME Mt5TypeOK, NEW c \in commands, HearOf(c) PROVE Mt5TypeOK'
<1>0. /\ c \in Command /\ c.n \in Numbers /\ c.view \in View /\ NoCode \in Numbers
      /\ row \in Row /\ Serialized(row) \in View
  BY SerializedType, CommandFields DEF Mt5TypeOK, NoCode, Numbers
<1>1. CASE SeeCreated(c)
  <2>1. panel' \in View /\ freshToken' \in Numbers /\ drawer' \in Drawer
    BY <1>0, <1>1, ShowType DEF SeeCreated
  <2> QED
    BY <1>0, <1>1, <2>1 DEF SeeCreated, HearSuccess, serverVars, Mt5TypeOK
<1>2. CASE SeeRegenerated(c)
  <2>1. panel' \in View /\ freshToken' \in Numbers /\ drawer' \in Drawer
    BY <1>0, <1>2 DEF SeeRegenerated, Drawer, Steps
  <2> QED
    BY <1>0, <1>2, <2>1 DEF SeeRegenerated, HearSuccess, serverVars, Mt5TypeOK
<1>3. CASE SeeRevoked(c)
  <2>1. panel' \in View /\ freshToken' \in Numbers /\ drawer' \in Drawer
    BY <1>0, <1>3, ShowType DEF SeeRevoked, Mt5TypeOK
  <2> QED
    BY <1>0, <1>3, <2>1 DEF SeeRevoked, HearSuccess, AskStatus, serverVars, Mt5TypeOK
<1>4. CASE SeeError(c)
  <2>1. [c EXCEPT !.waiting = FALSE] \in Command
    BY <1>0, CommandFields
  <2>2. commands' \subseteq Command
    BY <1>4, <2>1 DEF SeeError, Mt5TypeOK
  <2> QED
    BY <1>4, <2>2 DEF SeeError, serverVars, panelVars, Mt5TypeOK
<1> QED
  BY <1>1, <1>2, <1>3, <1>4 DEF HearOf

\* Syncs of the companion, and the time that passes without one.
Syncing == BeginSync \/ FallSilent \/ \E s \in syncs : CommitSync(s)

LEMMA SyncType ==
    ASSUME Mt5TypeOK, Syncing
    PROVE  Mt5TypeOK' /\ row'.code = row.code /\ row'.revoked = row.revoked
<1>0. row \in Row /\ syncs \subseteq Row
  BY DEF Mt5TypeOK
<1>1. CASE BeginSync
  BY <1>1 DEF BeginSync, panelVars, Mt5TypeOK
<1>2. CASE FallSilent
  <2>1. row' \in Row /\ row'.code = row.code /\ row'.revoked = row.revoked
    BY <1>0, <1>2 DEF FallSilent, Row
  <2> QED
    BY <1>2, <2>1 DEF FallSilent, panelVars, Mt5TypeOK
<1>3. ASSUME NEW s \in syncs, CommitSync(s)
      PROVE  Mt5TypeOK' /\ row'.code = row.code /\ row'.revoked = row.revoked
  <2>1. row' \in Row /\ row'.code = row.code /\ row'.revoked = row.revoked
    BY <1>0, <1>3, SyncedRow DEF CommitSync
  <2> QED
    BY <1>3, <2>1 DEF CommitSync, panelVars, Mt5TypeOK
<1> QED
  BY <1>1, <1>2, <1>3 DEF Syncing

\* What the user and the timer of the panel do.
Using ==
    \/ Poll \/ \E p \in polls : ShowStatus(p)
    \/ \E name \in {"create", "regenerate", "revoke"} : Ask(name)
    \/ OpenDrawer \/ CloseDrawer

LEMMA UseType ==
    ASSUME Mt5TypeOK, Using PROVE Mt5TypeOK'
<1>0. row \in Row /\ drawer \in Drawer /\ Serialized(row) \in View /\ NoCode \in Numbers
  BY SerializedType DEF Mt5TypeOK, NoCode, Numbers
<1>1. CASE Poll
  BY <1>0, <1>1 DEF Poll, AskStatus, serverVars, panelVars, Mt5TypeOK
<1>2. ASSUME NEW p \in polls, ShowStatus(p) PROVE Mt5TypeOK'
  <2>1. panel' \in View /\ freshToken' \in Numbers /\ drawer' \in Drawer
    BY <1>2, ShowType DEF ShowStatus, Mt5TypeOK
  <2> QED
    BY <1>2, <2>1 DEF ShowStatus, serverVars, Mt5TypeOK
<1>3. ASSUME NEW name \in {"create", "regenerate", "revoke"}, Ask(name) PROVE Mt5TypeOK'
  <2>1. given' \in Numbers /\ given' = given + 1
    BY <1>3 DEF Ask, Mt5TypeOK, Numbers
  <2>2. [n |-> given + 1, name |-> name, stage |-> "asked", target |-> panel.id,
         loaded |-> NothingLoaded, view |-> NoView, waiting |-> TRUE] \in Command
    BY <2>1, Sentinels DEF Command, Mt5TypeOK, View
  <2>3. commands' \subseteq Command
    BY <1>3, <2>2 DEF Ask, Mt5TypeOK
  <2> QED
    BY <1>3, <2>1, <2>3 DEF Ask, serverVars, panelVars, Mt5TypeOK
<1>4. CASE OpenDrawer
  <2>1. drawer' \in Drawer
    BY <1>4 DEF OpenDrawer, Mt5TypeOK, Drawer, Steps
  <2> QED
    BY <1>4, <2>1 DEF OpenDrawer, serverVars, Mt5TypeOK
<1>5. CASE CloseDrawer
  <2>1. drawer' \in Drawer
    BY <1>0, <1>5 DEF CloseDrawer, Drawer
  <2> QED
    BY <1>0, <1>5, <2>1 DEF CloseDrawer, AskStatus, serverVars, Mt5TypeOK
<1> QED
  BY <1>1, <1>2, <1>3, <1>4, <1>5 DEF Using

LEMMA NextByParts ==
    ASSUME Mt5Next
    PROVE  \/ \E c \in commands : ServeCommand(c) \/ HearOf(c)
           \/ Syncing \/ Using
BY DEF Mt5Next, Syncing, Using

\* Every variable of the panel, the drawer and the connection row keeps its type.
THEOREM PanelTypeCorrect == Mt5Spec => []Mt5TypeOK
<1>1. Mt5Init => Mt5TypeOK
  <2> SUFFICES ASSUME Mt5Init PROVE Mt5TypeOK
    OBVIOUS
  <2>1. 0 \in Numbers /\ 1 \in Numbers
    BY DEF Numbers
  <2>2. NewRow(1) \in Row /\ [NewRow(1) EXCEPT !.status = "revoked", !.revoked = TRUE] \in Row
    BY <2>1 DEF NewRow, Row, RowStatus
  <2>3. row \in Row /\ row.revoked \in BOOLEAN
    BY <2>2, Sentinels DEF Mt5Init, Row
  <2>4. drawer \in Drawer
    BY <2>1 DEF Mt5Init, Drawer, Steps, NoCode
  <2> QED
    BY <2>1, <2>3, <2>4, Sentinels DEF Mt5Init, Mt5TypeOK, NoCode
<1>2. Mt5TypeOK /\ [Mt5Next]_mt5Vars => Mt5TypeOK'
  <2> SUFFICES ASSUME Mt5TypeOK, [Mt5Next]_mt5Vars PROVE Mt5TypeOK'
    OBVIOUS
  <2>1. CASE Mt5Next
    BY <2>1, NextByParts, ServeType, SeeType, SyncType, UseType
  <2>2. CASE UNCHANGED mt5Vars
    BY <2>2 DEF mt5Vars, serverVars, panelVars, Mt5TypeOK
  <2> QED
    BY <2>1, <2>2
<1> QED
  BY <1>1, <1>2, PTL DEF Mt5Spec

-----------------------------------------------------------------------------
(* Codes and revocation                                                    *)

Fits(code) == code = NoCode \/ (code = row.code /\ (row.revoked => overrun))

\* Commands have numbers of their own, and are carried out and heard of once.
NumbersAreFresh ==
    /\ \A c \in commands : c.n <= given
    /\ \A c, d \in commands : c.n = d.n => c = d
    /\ lastDone <= given /\ lastHeard <= given
    /\ \A c \in commands : c.n # lastHeard
    /\ \A c \in commands : c.stage \in {"asked", "serving"} => c.n # lastDone

\* A disconnected row is marked for good.  The answer to the last command carried out brings
\* the row's code, if it brings one; and once it was heard, the codes that the browser holds
\* are the row's.
CodesFit ==
    /\ disconnected => row.revoked
    /\ \A c \in commands :
          c.stage = "done" /\ c.n = lastDone /\ c.name # "revoke" => Fits(c.n)
    /\ lastHeard = lastDone => Fits(freshToken) /\ (drawer.open => Fits(drawer.token))

PanelInvariant == NumbersAreFresh /\ CodesFit

\* What the command c may become in a step of its own: it keeps its number, and the server
\* carries it out once.
Becomes(c, new) ==
    /\ new.n = c.n /\ new.name = c.name
    /\ new.stage \in {"asked", "serving"} => c.stage \in {"asked", "serving"} /\ lastDone' = lastDone
    /\ new.stage = "done" => c.stage = "done" \/ lastDone' = c.n

\* A step of the command c: nothing else becomes of the commands.
StepOf(c, new) ==
    /\ Becomes(c, new)
    /\ commands' \subseteq (commands \ {c}) \cup {new}
    /\ given' = given
    /\ lastDone' \in {lastDone, c.n}
    /\ lastHeard' = lastHeard \/ (lastHeard' = c.n /\ commands' = commands \ {c})

LEMMA NumbersStay ==
    ASSUME Mt5TypeOK, NumbersAreFresh, NEW c \in commands, NEW new, StepOf(c, new)
    PROVE  NumbersAreFresh'
<1> USE DEF NumbersAreFresh, StepOf
<1>1. \A d \in commands' : d.n # c.n => d \in commands \ {c}
  BY DEF Becomes
<1>2. \A d \in commands' : d.n = c.n => d = new /\ Becomes(c, new)
  OBVIOUS
<1>3. \A d \in commands' : d.n <= given'
  BY <1>1, <1>2
<1>4. \A d, e \in commands' : d.n = e.n => d = e
  BY <1>1, <1>2
<1>5. lastDone' <= given' /\ lastHeard' <= given'
  OBVIOUS
<1>6. \A d \in commands' : d.n # lastHeard'
  BY <1>1, <1>2
<1>7. ASSUME NEW d \in commands', d.stage \in {"asked", "serving"} PROVE d.n # lastDone'
  <2>1. CASE d.n = c.n
    BY <1>2, <1>7, <2>1 DEF Becomes
  <2>2. CASE d.n # c.n
    BY <1>1, <1>7, <2>2
  <2> QED
    BY <2>1, <2>2
<1> QED
  BY <1>3, <1>4, <1>5, <1>6, <1>7

\* The commands the server answers, and those whose answers are taken.
LEMMA AnswerStep ==
    ASSUME NEW c, NEW answer, AnswerCommand(c, answer)
    PROVE  commands' \subseteq (commands \ {c}) \cup {answer}
BY DEF AnswerCommand

LEMMA ServeStep ==
    ASSUME Mt5TypeOK, NEW c \in commands, ServeCommand(c)
    PROVE  \E new : StepOf(c, new)
<1> DEFINE refused == [c EXCEPT !.stage = "refused", !.loaded = NothingLoaded]
           serving == [c EXCEPT !.stage = "serving", !.loaded = LoadedOf(row)]
           done(view) == [c EXCEPT !.stage = "done", !.loaded = NothingLoaded, !.view = view]
<1>0. c \in Command
  BY DEF Mt5TypeOK
<1>1. /\ refused.n = c.n /\ refused.name = c.name /\ refused.stage = "refused"
      /\ serving.n = c.n /\ serving.name = c.name /\ serving.stage = "serving"
      /\ \A view : done(view).n = c.n /\ done(view).name = c.name /\ done(view).stage = "done"
  BY <1>0, CommandFields
<1>2. ASSUME RefuseCommand(c), UNCHANGED <<lastDone, lastHeard, given>> PROVE StepOf(c, refused)
  <2>1. commands' \subseteq (commands \ {c}) \cup {refused}
    BY <1>2, AnswerStep DEF RefuseCommand
  <2> HIDE DEF refused
  <2> QED
    BY <1>1, <1>2, <2>1 DEF StepOf, Becomes
<1>3. ASSUME NEW name, Perform(c, name), NEW view, AnswerDone(c, view),
             UNCHANGED <<lastHeard, given>>
      PROVE  StepOf(c, done(view))
  <2>1. commands' \subseteq (commands \ {c}) \cup {done(view)}
    BY <1>3, AnswerStep DEF AnswerDone
  <2>2. lastDone' = c.n
    BY <1>3 DEF Perform
  <2> HIDE DEF done
  <2> QED
    BY <1>1, <1>3, <2>1, <2>2 DEF StepOf, Becomes
<1>4. CASE LoadConnection(c)
  <2>1. UNCHANGED <<lastDone, lastHeard, given>> /\ c.stage = "asked"
    BY <1>4 DEF LoadConnection, serverVars, panelVars
  <2>2. CASE MustRefuse(c)
    BY <1>2, <1>4, <2>1, <2>2 DEF LoadConnection
  <2>3. CASE ~MustRefuse(c)
    <3>1. commands' = (commands \ {c}) \cup {serving}
      BY <1>4, <2>3 DEF LoadConnection
    <3> HIDE DEF serving
    <3>2. StepOf(c, serving)
      BY <1>1, <2>1, <3>1 DEF StepOf, Becomes
    <3> QED
      BY <3>2
  <2> QED
    BY <2>2, <2>3
<1>5. CASE LoseRow(c)
  BY <1>2, <1>5 DEF LoseRow, serverVars, panelVars
<1>6. CASE CreateConnection(c)
  BY <1>3, <1>6 DEF CreateConnection, panelVars
<1>7. CASE RegenerateConnection(c)
  BY <1>3, <1>7 DEF RegenerateConnection, panelVars
<1>8. CASE RevokeConnection(c)
  BY <1>3, <1>8 DEF RevokeConnection, panelVars
<1> QED
  BY <1>4, <1>5, <1>6, <1>7, <1>8 DEF ServeCommand

LEMMA SeeStep ==
    ASSUME Mt5TypeOK, NEW c \in commands, HearOf(c)
    PROVE  \E new : StepOf(c, new)
<1>1. ASSUME NEW name, HearSuccess(c, name), UNCHANGED lastDone PROVE StepOf(c, c)
  BY <1>1 DEF HearSuccess, StepOf, Becomes
<1>2. SeeCreated(c) \/ SeeRegenerated(c) \/ SeeRevoked(c) => StepOf(c, c)
  <2>1. HearSuccess(c, "create") \/ HearSuccess(c, "regenerate") \/ HearSuccess(c, "revoke") =>
           UNCHANGED lastDone
    BY DEF HearSuccess, serverVars
  <2> QED
    BY <1>1, <2>1 DEF SeeCreated, SeeRegenerated, SeeRevoked
<1>3. CASE SeeError(c)
  <2> DEFINE left == [c EXCEPT !.waiting = FALSE]
  <2>1. c \in Command
    BY DEF Mt5TypeOK
  <2>2. left.n = c.n /\ left.name = c.name /\ left.stage = c.stage
    BY <2>1, CommandFields
  <2>3. commands' \subseteq (commands \ {c}) \cup {left}
    BY <1>3 DEF SeeError
  <2>4. UNCHANGED <<lastDone, lastHeard, given>>
    BY <1>3 DEF SeeError, serverVars, panelVars
  <2> HIDE DEF left
  <2>5. StepOf(c, left)
    BY <2>2, <2>3, <2>4 DEF StepOf, Becomes
  <2> QED
    BY <2>5
<1> QED
  BY <1>2, <1>3 DEF HearOf

LEMMA NumbersStayFresh ==
    ASSUME Mt5TypeOK, NumbersAreFresh, Mt5Next PROVE NumbersAreFresh'
<1>1. ASSUME NEW c \in commands, ServeCommand(c) \/ HearOf(c) PROVE NumbersAreFresh'
  BY <1>1, ServeStep, SeeStep, NumbersStay
<1>2. ASSUME NEW name \in Names, Ask(name) PROVE NumbersAreFresh'
  <2> DEFINE new == [n |-> given + 1, name |-> name, stage |-> "asked", target |-> panel.id,
                     loaded |-> NothingLoaded, view |-> NoView, waiting |-> TRUE]
  <2>1. /\ commands' = commands \cup {new} /\ given' = given + 1
        /\ lastDone' = lastDone /\ lastHeard' = lastHeard
    BY <1>2 DEF Ask, serverVars, panelVars
  <2>2. new.n = given + 1
    OBVIOUS
  <2>3. given \in Nat /\ lastDone \in Nat /\ lastHeard \in Nat /\ \A c \in commands : c.n \in Nat
    BY CommandFields DEF Mt5TypeOK, Numbers
  <2> HIDE DEF new
  <2>4. \A c \in commands : c.n < new.n
    BY <2>2, <2>3 DEF NumbersAreFresh
  <2>5. lastDone < new.n /\ lastHeard < new.n
    BY <2>2, <2>3 DEF NumbersAreFresh
  <2>6. \A c, d \in commands' : c.n = d.n => c = d
    BY <2>1, <2>3, <2>4, <2>2 DEF NumbersAreFresh
  <2> QED
    BY <2>1, <2>2, <2>3, <2>4, <2>5, <2>6 DEF NumbersAreFresh
<1>3. CASE UNCHANGED <<commands, given, lastDone, lastHeard>>
  BY <1>3 DEF NumbersAreFresh
<1>4. Syncing => UNCHANGED <<commands, given, lastDone, lastHeard>>
  BY DEF Syncing, BeginSync, FallSilent, CommitSync, panelVars
<1>5. Using /\ ~(\E name \in Names : Ask(name)) => UNCHANGED <<commands, given, lastDone, lastHeard>>
  BY DEF Using, Names, Poll, ShowStatus, OpenDrawer, CloseDrawer, serverVars, panelVars
<1> QED
  BY <1>1, <1>2, <1>3, <1>4, <1>5, NextByParts

-----------------------------------------------------------------------------

\* The server carries out commands, and hands out the code of the last.
LEMMA ServerKeepsCodes ==
    ASSUME Mt5TypeOK, PanelInvariant, NEW c \in commands, ServeCommand(c)
    PROVE  CodesFit'
<1>0. /\ c \in Command /\ row \in Row /\ c.n \in Numbers /\ c.loaded \in Loaded
      /\ \A d \in commands : d \in Command
  BY CommandFields DEF Mt5TypeOK
<1>1. PICK new : StepOf(c, new)
  BY ServeStep
<1>2. UNCHANGED <<freshToken, drawer, lastHeard>>
  BY DEF ServeCommand, LoadConnection, LoseRow, CreateConnection, RegenerateConnection,
         RevokeConnection, panelVars
<1>3. CASE LoadConnection(c) \/ LoseRow(c)
  <2>1. UNCHANGED <<row, overrun, lastDone, disconnected>> /\ c.stage \in {"asked", "serving"}
    BY <1>3 DEF LoadConnection, LoseRow, serverVars
  <2>2. \A d \in commands' : d.stage = "done" /\ d.n = lastDone => d \in commands
    BY <1>1, <2>1 DEF StepOf, Becomes, PanelInvariant, NumbersAreFresh
  <2> QED
    BY <1>2, <2>1, <2>2 DEF PanelInvariant, CodesFit, Fits
<1>4. ASSUME lastDone' = c.n, c.name # "revoke" => row'.code = c.n /\ (row'.revoked => overrun'),
             disconnected' => row'.revoked
      PROVE  CodesFit'
  <2>1. lastHeard' # lastDone'
    BY <1>2, <1>4 DEF PanelInvariant, NumbersAreFresh
  <2>2. \A d \in commands' : d.n = c.n => d.name = c.name
    BY <1>1 DEF StepOf, Becomes, PanelInvariant, NumbersAreFresh
  <2> QED
    BY <1>4, <2>1, <2>2 DEF CodesFit, Fits
<1>5. CASE CreateConnection(c)
  <2>1. lastDone' = c.n /\ row'.code = c.n /\ ~row'.revoked /\ ~disconnected'
    BY <1>0, <1>5 DEF CreateConnection, Perform, NewRow
  <2> QED
    BY <1>4, <2>1
<1>6. CASE RegenerateConnection(c)
  <2>1. lastDone' = c.n /\ overrun' = row.revoked /\ disconnected' = disconnected
    BY <1>6 DEF RegenerateConnection, Perform
  <2>2. row'.code = c.n /\ row'.revoked = row.revoked
    <3>1. row' = [row EXCEPT !.code = c.n,
                     !.status = IF c.loaded.status # "pending" THEN "pending" ELSE @,
                     !.seen = IF c.loaded.unseen THEN @ ELSE "never"]
      BY <1>6 DEF RegenerateConnection
    <3> QED
      BY <1>0, <3>1 DEF Row
  <2>3. disconnected => row.revoked
    BY DEF PanelInvariant, CodesFit
  <2> QED
    BY <1>4, <2>1, <2>2, <2>3
<1>7. CASE RevokeConnection(c)
  <2>1. lastDone' = c.n /\ c.name = "revoke"
    BY <1>7 DEF RevokeConnection, Perform
  <2>2. row'.revoked
    BY <1>0, <1>7, WrittenRow DEF RevokeConnection
  <2> QED
    BY <1>4, <2>1, <2>2
<1> QED
  BY <1>3, <1>5, <1>6, <1>7 DEF ServeCommand

\* The page takes an answer: of the last command carried out, it has the row's code.
LEMMA AnswersKeepCodes ==
    ASSUME Mt5TypeOK, PanelInvariant, NEW c \in commands, HearOf(c)
    PROVE  CodesFit'
<1>0. drawer \in Drawer /\ c \in Command
  BY DEF Mt5TypeOK
<1>1. UNCHANGED <<row, overrun, lastDone, disconnected>>
  BY DEF HearOf, SeeCreated, SeeRegenerated, SeeRevoked, SeeError, HearSuccess, serverVars
<1>2. \A d \in commands' : d.stage = "done" => d \in commands
  <2>1. CASE SeeError(c)
    <3>1. [c EXCEPT !.waiting = FALSE].stage = c.stage
      BY <1>0, CommandFields
    <3>2. c.stage \in {"asked", "serving"} => [c EXCEPT !.waiting = FALSE].stage # "done"
      BY <3>1
    <3> QED
      BY <2>1, <3>2 DEF SeeError
  <2>2. CASE ~SeeError(c)
    BY <2>2 DEF HearOf, SeeCreated, SeeRegenerated, SeeRevoked, HearSuccess
  <2> QED
    BY <2>1, <2>2
<1>3. lastHeard' = lastDone' => Fits(freshToken)' /\ (drawer'.open => Fits(drawer.token)')
  <2>1. CASE SeeCreated(c)
    <3>1. c.n = lastDone => Fits(c.n)
      BY <2>1 DEF SeeCreated, HearSuccess, PanelInvariant, CodesFit
    <3>2. /\ lastHeard' = c.n /\ freshToken' = c.n
          /\ drawer'.open => drawer'.token = c.n
      BY <1>0, <2>1 DEF SeeCreated, HearSuccess, Show, Drawer
    <3> QED
      BY <1>1, <3>1, <3>2 DEF Fits
  <2>2. CASE SeeRegenerated(c)
    <3>1. c.n = lastDone => Fits(c.n)
      BY <2>2 DEF SeeRegenerated, HearSuccess, PanelInvariant, CodesFit
    <3>2. lastHeard' = c.n /\ freshToken' = c.n /\ drawer'.token = c.n
      BY <2>2 DEF SeeRegenerated, HearSuccess
    <3> QED
      BY <1>1, <3>1, <3>2 DEF Fits
  <2>3. CASE SeeRevoked(c)
    <3>1. freshToken' = NoCode /\ (drawer'.open => drawer'.token = NoCode)
      BY <1>0, <2>3 DEF SeeRevoked, Show, Drawer
    <3> QED
      BY <3>1 DEF Fits
  <2>4. CASE SeeError(c)
    BY <1>1, <2>4 DEF SeeError, panelVars, PanelInvariant, CodesFit, Fits
  <2> QED
    BY <2>1, <2>2, <2>3, <2>4 DEF HearOf
<1> QED
  BY <1>1, <1>2, <1>3 DEF PanelInvariant, CodesFit, Fits

\* Nothing else touches the row's code, or shows another.
LEMMA OthersKeepCodes ==
    ASSUME Mt5TypeOK, PanelInvariant, Syncing \/ Using
    PROVE  CodesFit'
<1>0. drawer \in Drawer
  BY DEF Mt5TypeOK
<1>1. CASE Syncing
  <2>1. row'.code = row.code /\ row'.revoked = row.revoked
    BY <1>1, SyncType
  <2>2. UNCHANGED <<commands, lastDone, lastHeard, overrun, disconnected, freshToken, drawer>>
    BY <1>1 DEF Syncing, BeginSync, FallSilent, CommitSync, panelVars
  <2> QED
    BY <2>1, <2>2 DEF PanelInvariant, CodesFit, Fits
<1>2. CASE Using
  <2>1. UNCHANGED <<row, lastDone, lastHeard, overrun, disconnected>>
    BY <1>2 DEF Using, Poll, ShowStatus, Ask, OpenDrawer, CloseDrawer, serverVars, panelVars
  <2>2. \A d \in commands' : d.stage = "done" => d \in commands
    BY <1>2 DEF Using, Poll, ShowStatus, Ask, OpenDrawer, CloseDrawer
  <2>3. freshToken' \in {freshToken, NoCode}
        /\ (drawer'.open => drawer'.token = freshToken \/ (drawer.open /\ drawer'.token = drawer.token))
    <3>1. CASE OpenDrawer \/ CloseDrawer
      BY <1>0, <3>1 DEF OpenDrawer, CloseDrawer, Drawer
    <3>2. ASSUME NEW p, ShowStatus(p)
          PROVE  freshToken' = freshToken /\ (drawer'.open => drawer'.token = freshToken)
      BY <1>0, <3>2 DEF ShowStatus, Show, Drawer
    <3>3. CASE UNCHANGED panelVars
      BY <3>3 DEF panelVars
    <3>4. Poll \/ (\E name : Ask(name)) => UNCHANGED panelVars
      BY DEF Poll, Ask
    <3> QED
      BY <1>2, <3>1, <3>2, <3>3, <3>4 DEF Using
  <2> QED
    BY <2>1, <2>2, <2>3 DEF PanelInvariant, CodesFit, Fits
<1> QED
  BY <1>1, <1>2

LEMMA PanelInvariantHolds == Mt5Spec => []PanelInvariant
<1>1. Mt5Init => PanelInvariant
  <2> SUFFICES ASSUME Mt5Init PROVE PanelInvariant
    OBVIOUS
  <2> QED
    BY DEF Mt5Init, PanelInvariant, NumbersAreFresh, CodesFit, Fits
<1>2. Mt5TypeOK /\ PanelInvariant /\ [Mt5Next]_mt5Vars => PanelInvariant'
  <2> SUFFICES ASSUME Mt5TypeOK, PanelInvariant, [Mt5Next]_mt5Vars PROVE PanelInvariant'
    OBVIOUS
  <2>1. CASE Mt5Next
    <3>1. CodesFit'
      BY <2>1, NextByParts, ServerKeepsCodes, AnswersKeepCodes, OthersKeepCodes
    <3>2. NumbersAreFresh'
      BY <2>1, NumbersStayFresh DEF PanelInvariant
    <3> QED
      BY <3>1, <3>2 DEF PanelInvariant
  <2>2. CASE UNCHANGED mt5Vars
    BY <2>2 DEF mt5Vars, serverVars, panelVars, PanelInvariant, NumbersAreFresh, CodesFit, Fits
  <2> QED
    BY <2>1, <2>2
<1> QED
  BY <1>1, <1>2, PanelTypeCorrect, PTL DEF Mt5Spec

\* revoke_connection is final for its row: nothing that was under way, a sync or a
\* regenerate_connection that loaded the row before, makes _effective_status or
\* get_mt5_connection accept it again.
THEOREM RevokedConnectionsStayRevoked == Mt5Spec => []RevokedStaysRevoked
<1>1. PanelInvariant => RevokedStaysRevoked
  BY DEF PanelInvariant, CodesFit, RevokedStaysRevoked, EffectiveStatus, Authenticates
<1> QED
  BY <1>1, PanelInvariantHolds, PTL

\* The code on the screen of the drawer is the one the server accepts, as long as the page
\* heard last of the command that was carried out last.
THEOREM ShownCodesWork == Mt5Spec => []ShownCodeWorks
<1>1. PanelInvariant => ShownCodeWorks
  BY DEF PanelInvariant, CodesFit, ShownCodeWorks, Fits
<1> QED
  BY <1>1, PanelInvariantHolds, PTL
=============================================================================
