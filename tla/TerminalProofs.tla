---------------------------- MODULE TerminalProofs ----------------------------
(***************************************************************************)
(* Theorems about the parts of the browser terminal that have no module of *)
(* proofs of their own: the two forms that write, the risk gate, the       *)
(* reports page, the chart of the market lab and the findings; and of the  *)
(* parts together.  They hold for any number of presses, saves, edits,     *)
(* accounts, limits, periods, visits, trades, replays and observations.    *)
(***************************************************************************)
EXTENDS MCTerminal, FrontendSessionProofs, ViewsProofs, Mt5PanelProofs, MarketPulseProofs,
        WellFoundedInduction, TLAPS

-----------------------------------------------------------------------------
(* The trade form                                                          *)

\* Only a carried out save counts a trade, and it ends the editing of the form unless its
\* answer is lost; a failed upload does not bring a new trade's form back.
LEMMA EntryStep ==
    ASSUME OpenFormHasJournaledNothing, [EntryNext]_entryVars
    PROVE  OpenFormHasJournaledNothing'
<1> SUFFICES ASSUME mode' = "create", ~lost'
             PROVE  created' = IF step' \in {"editing", "saving"} THEN 0 ELSE 1
  BY DEF OpenFormHasJournaledNothing
<1> USE DEF OpenFormHasJournaledNothing
<1>1. ASSUME NEW v \in Verdicts, Reconsider(v) \/ SeePreview(v)
      PROVE  created' = IF step' \in {"editing", "saving"} THEN 0 ELSE 1
  BY <1>1 DEF Reconsider, SeePreview
<1>2. ASSUME NEW image \in {"entry", "exit"}, PickImage(image)
      PROVE  created' = IF step' \in {"editing", "saving"} THEN 0 ELSE 1
  BY <1>2 DEF PickImage
<1>3. CASE AskPreview \/ TickChecklist \/ Acknowledge \/ ReadWarning
  BY <1>3 DEF AskPreview, TickChecklist, Acknowledge, ReadWarning
<1>4. CASE Submit
  BY <1>4 DEF Submit
<1>5. CASE Saved
  <2>1. created = 0 /\ mode = "create"
    BY <1>5 DEF Saved
  <2>2. created' = 1
    <3>1. created' = IF mode = "create" THEN created + 1 ELSE created
      BY <1>5 DEF Saved, CarryOut
    <3> QED
      BY <2>1, <3>1
  <2>3. step' \in {"entry_image", "exit_image", "left"}
    BY <1>5 DEF Saved, AfterSave
  <2> QED
    BY <2>2, <2>3
<1>6. CASE Refused
  BY <1>6 DEF Refused
<1>7. CASE SaveLost
  BY <1>7 DEF SaveLost
<1>8. CASE Upload
  BY <1>8 DEF Upload
<1>9. CASE UploadFails
  BY <1>9 DEF UploadFails
<1>10. CASE ChangeElsewhere
  BY <1>10 DEF ChangeElsewhere
<1>11. CASE UNCHANGED entryVars
  BY <1>11 DEF entryVars
<1> QED
  BY <1>1, <1>2, <1>3, <1>4, <1>5, <1>6, <1>7, <1>8, <1>9, <1>10, <1>11 DEF EntryNext

\* As long as the answer of no save is lost, a form for a new trade that can still be
\* saved has journaled nothing, and a form that is left has journaled one trade.
THEOREM OpenFormsJournaledNothing == EntrySpec => []OpenFormHasJournaledNothing
<1>1. EntryInit => OpenFormHasJournaledNothing
  BY DEF EntryInit, OpenFormHasJournaledNothing
<1> QED
  BY <1>1, EntryStep, PTL DEF EntrySpec

\* What the fields of the form and the flags beside it may hold.
EntryFlags ==
    /\ ticked \in BOOLEAN /\ ack \in BOOLEAN /\ warning \in BOOLEAN
    /\ retrying \in BOOLEAN /\ lost \in BOOLEAN
EntryFields ==
    /\ mode \in Modes /\ verdict \in Verdicts
    /\ preview \in Verdicts \cup {"none"} /\ previews \subseteq Verdicts
    /\ told \in Messages /\ step \in FormSteps
    /\ chosen \subseteq {"entry", "exit"} /\ status \in {"none", "open", "closed"}

\* A press of the button saves at most once, and stores at most one entry image.
EntryCounts ==
    /\ presses \in 0 .. MaxPresses /\ edits \in 0 .. MaxEdits
    /\ created \in Nat /\ closings \in Nat /\ entryStored \in Nat
    /\ step \in {"editing", "entry_image", "exit_image", "left"} => created <= presses
    /\ step = "saving" => created < presses /\ entryStored < presses
    /\ step = "entry_image" => entryStored < presses
    /\ entryStored <= presses

EntryInvariant == EntryFlags /\ EntryFields /\ EntryCounts

LEMMA EntryFlagsStep ==
    ASSUME EntryFlags, [EntryNext]_entryVars PROVE EntryFlags'
BY Zenon DEF EntryFlags, EntryNext, CarryOut,
         Reconsider, SeePreview, PickImage, AskPreview, TickChecklist, Acknowledge, ReadWarning,
         Submit, Saved, Refused, SaveLost, Upload, UploadFails, ChangeElsewhere, entryVars

LEMMA EntryFieldsStep ==
    ASSUME EntryFields, [EntryNext]_entryVars PROVE EntryFields'
<1> USE DEF EntryFields
<1>1. ASSUME NEW v \in Verdicts, Reconsider(v) PROVE EntryFields'
  BY <1>1 DEF Reconsider
<1>2. ASSUME NEW v \in Verdicts, SeePreview(v) PROVE EntryFields'
  BY <1>2 DEF SeePreview
<1>3. ASSUME NEW image \in {"entry", "exit"}, PickImage(image) PROVE EntryFields'
  BY <1>3 DEF PickImage
<1>4. CASE AskPreview
  BY <1>4 DEF AskPreview
<1>5. CASE TickChecklist
  BY <1>5 DEF TickChecklist
<1>6. CASE Acknowledge
  BY <1>6 DEF Acknowledge
<1>7. CASE ReadWarning
  BY <1>7 DEF ReadWarning
<1>8. CASE Submit
  BY <1>8 DEF Submit, Messages, FormSteps
<1>9. CASE Saved
  BY <1>9 DEF Saved, CarryOut, AfterSave, FormSteps, Modes
<1>10. CASE Refused
  BY <1>10 DEF Refused, Refusal, Messages, FormSteps
<1>11. CASE SaveLost
  BY <1>11 DEF SaveLost, CarryOut, Messages, FormSteps, Modes
<1>12. CASE Upload
  BY <1>12 DEF Upload, FormSteps
<1>13. CASE UploadFails
  BY <1>13 DEF UploadFails, Messages, FormSteps
<1>14. CASE ChangeElsewhere
  BY <1>14 DEF ChangeElsewhere
<1>15. CASE UNCHANGED entryVars
  BY <1>15 DEF entryVars
<1> QED
  BY <1>1, <1>2, <1>3, <1>4, <1>5, <1>6, <1>7, <1>8, <1>9, <1>10, <1>11, <1>12, <1>13, <1>14,
     <1>15 DEF EntryNext

LEMMA EntryCountsStep ==
    ASSUME EntryFields, EntryCounts, [EntryNext]_entryVars PROVE EntryCounts'
<1> USE EntryAssumption DEF EntryCounts
<1>1. ASSUME NEW v \in Verdicts, Reconsider(v) \/ SeePreview(v) PROVE EntryCounts'
  BY <1>1 DEF Reconsider, SeePreview
<1>2. ASSUME NEW image \in {"entry", "exit"}, PickImage(image) PROVE EntryCounts'
  BY <1>2 DEF PickImage
<1>3. CASE AskPreview \/ TickChecklist \/ Acknowledge \/ ReadWarning
  BY <1>3 DEF AskPreview, TickChecklist, Acknowledge, ReadWarning
<1>4. CASE Submit
  <2>1. presses' = presses + 1 /\ presses' \in 0 .. MaxPresses
    BY <1>4 DEF Submit
  <2> QED
    BY <1>4, <2>1 DEF Submit
<1>5. CASE Saved
  <2>1. created' <= presses' /\ created' \in Nat /\ closings' \in Nat
    BY <1>5 DEF Saved, CarryOut
  <2> QED
    BY <1>5, <2>1 DEF Saved, AfterSave
<1>6. CASE Refused
  BY <1>6 DEF Refused
<1>7. CASE SaveLost
  <2>1. created' <= presses' /\ created' \in Nat /\ closings' \in Nat
    BY <1>7 DEF SaveLost, CarryOut
  <2> QED
    BY <1>7, <2>1 DEF SaveLost
<1>8. CASE Upload
  <2>1. entryStored' <= presses /\ entryStored' \in Nat
    BY <1>8 DEF Upload
  <2>2. created <= presses /\ (step' = "exit_image" \/ step' = "left")
    BY <1>8 DEF Upload
  <2> QED
    BY <1>8, <2>1, <2>2 DEF Upload
<1>9. CASE UploadFails
  <2>1. created <= presses /\ (step' = "left" \/ step' = "editing")
    BY <1>9 DEF UploadFails
  <2> QED
    BY <1>9, <2>1 DEF UploadFails
<1>10. CASE ChangeElsewhere
  BY <1>10 DEF ChangeElsewhere
<1>11. CASE UNCHANGED entryVars
  BY <1>11 DEF entryVars
<1> QED
  BY <1>1, <1>2, <1>3, <1>4, <1>5, <1>6, <1>7, <1>8, <1>9, <1>10, <1>11 DEF EntryNext

\* The trade form is well-formed: above all, it stores no more images and creates no more
\* trades than its button was pressed.
THEOREM EntryTypeCorrect == EntrySpec => []EntryTypeOK
<1>1. EntryInit => EntryInvariant
  <2> SUFFICES ASSUME EntryInit PROVE EntryInvariant
    OBVIOUS
  <2>1. EntryFlags
    BY DEF EntryInit, EntryFlags
  <2>2. EntryFields
    BY DEF EntryInit, EntryFields, Modes, Verdicts, Messages, FormSteps
  <2>3. EntryCounts
    BY EntryAssumption DEF EntryInit, EntryCounts
  <2> QED
    BY <2>1, <2>2, <2>3 DEF EntryInvariant
<1>2. EntryInvariant => EntryTypeOK
  <2> SUFFICES ASSUME EntryInvariant PROVE EntryTypeOK
    OBVIOUS
  <2>1. created \in 0 .. MaxPresses /\ entryStored \in 0 .. MaxPresses
    BY EntryAssumption DEF EntryInvariant, EntryCounts, EntryFields, FormSteps
  <2> QED
    BY <2>1 DEF EntryInvariant, EntryFlags, EntryFields, EntryCounts, EntryTypeOK
<1>3. EntryInvariant /\ [EntryNext]_entryVars => EntryInvariant'
  BY EntryFlagsStep, EntryFieldsStep, EntryCountsStep DEF EntryInvariant
<1> QED
  BY <1>1, <1>2, <1>3, PTL DEF EntrySpec

-----------------------------------------------------------------------------
(* The risk limits form                                                    *)

LEMMA PolicyTypeStep ==
    ASSUME PolicyTypeOK, [PolicyNext]_policyVars PROVE PolicyTypeOK'
<1> USE PolicyAssumption
<1>0. /\ NotSaving.step = "none"
      /\ saving # NotSaving => saving.step \in {"put", "get", "got"}
      /\ saving.step = "put" => saving.account \in PolicyAccounts /\ saving.limit \in Limits
      /\ saving.step = "get" => saving.account \in PolicyAccounts
      /\ saving.step = "got" => saving.profile \in Profile
  BY DEF PolicyTypeOK, NotSaving
<1>1. ASSUME NEW a \in PolicyAccounts, LoadAccount(a) PROVE PolicyTypeOK'
  <2>1. [account |-> a, profile |-> profiles[a]] \in [account : PolicyAccounts, profile : Profile]
    BY DEF PolicyTypeOK
  <2> QED
    BY <1>1, <2>1 DEF LoadAccount, PolicyTypeOK
<1>2. ASSUME NEW r \in answers, ShowAccount(r) PROVE PolicyTypeOK'
  BY <1>2 DEF ShowAccount, PolicyTypeOK
<1>3. ASSUME NEW l \in Limits, EditLimit(l) PROVE PolicyTypeOK'
  BY <1>3 DEF EditLimit, PolicyTypeOK, Profile
<1>4. CASE RefuseForm
  BY <1>4 DEF RefuseForm, PolicyTypeOK
<1>5. CASE Save
  <2>1. /\ saving' \in [step : {"put"}, account : PolicyAccounts, limit : Limits]
        /\ saves' \in 0 .. MaxSaves
    BY <1>5 DEF Save, PolicyTypeOK, Profile
  <2> QED
    BY <1>5, <2>1 DEF Save, PolicyTypeOK
<1>6. CASE PutProfile
  <2>1. /\ saving' \in [step : {"get"}, account : PolicyAccounts]
        /\ profiles' \in [PolicyAccounts -> Profile]
    BY <1>0, <1>6 DEF PutProfile, PolicyTypeOK, Profile
  <2> QED
    BY <1>6, <2>1 DEF PutProfile, PolicyTypeOK
<1>7. CASE GetProfile
  <2>1. saving' \in [step : {"got"}, profile : Profile]
    BY <1>0, <1>7 DEF GetProfile, PolicyTypeOK
  <2> QED
    BY <1>7, <2>1 DEF GetProfile, PolicyTypeOK
<1>8. CASE ReadBack
  BY <1>0, <1>8 DEF ReadBack, PolicyTypeOK
<1>9. CASE SaveFails
  BY <1>9 DEF SaveFails, PolicyTypeOK
<1>10. CASE UNCHANGED policyVars
  BY <1>10 DEF policyVars, PolicyTypeOK
<1> QED
  BY <1>1, <1>2, <1>3, <1>4, <1>5, <1>6, <1>7, <1>8, <1>9, <1>10 DEF PolicyNext

\* The profiles, the form and the save in flight are well-formed.
THEOREM PolicyTypeCorrect == PolicySpec => []PolicyTypeOK
<1>1. PolicyInit => PolicyTypeOK
  <2> SUFFICES ASSUME PolicyInit PROVE PolicyTypeOK
    OBVIOUS
  <2>1. (CHOOSE l \in Limits : TRUE) \in Limits
    BY PolicyAssumption
  <2>2. form \in Profile /\ saves \in 0 .. MaxSaves
    BY <2>1, PolicyAssumption DEF PolicyInit, Profile
  <2>3. profiles \in [PolicyAccounts -> Profile]
    BY DEF PolicyInit, Profile
  <2> QED
    BY <2>2, <2>3 DEF PolicyInit, PolicyTypeOK
<1> QED
  BY <1>1, PolicyTypeStep, PTL DEF PolicySpec

\* A save in flight has taken the notice away; until the page turns to an account anew it
\* is about the account of the page, and what it read back is that account's profile.
PolicyInvariant ==
    /\ saving # NotSaving => ~saved
    /\ (~turned /\ saving.step \in {"put", "get"}) => saving.account = page
    /\ (~turned /\ saving.step = "got") => saving.profile = profiles[page]
    /\ SavedFormIsStored

LEMMA PolicyStep ==
    ASSUME PolicyInvariant, [PolicyNext]_policyVars
    PROVE  PolicyInvariant'
<1> USE DEF PolicyInvariant, SavedFormIsStored
<1>1. ASSUME NEW a \in PolicyAccounts, LoadAccount(a) PROVE PolicyInvariant'
  BY <1>1 DEF LoadAccount
<1>2. ASSUME NEW r \in answers, ShowAccount(r) PROVE PolicyInvariant'
  BY <1>2 DEF ShowAccount
<1>3. ASSUME NEW l \in Limits, EditLimit(l) PROVE PolicyInvariant'
  BY <1>3 DEF EditLimit
<1>4. CASE RefuseForm
  BY <1>4 DEF RefuseForm
<1>5. CASE Save
  <2>1. saving' = [step |-> "put", account |-> page, limit |-> form.limit] /\ page' = page
    BY <1>5 DEF Save
  <2>2. saving'.step = "put" /\ saving'.account = page'
    BY <2>1
  <2> QED
    BY <1>5, <2>2 DEF Save
<1>6. CASE PutProfile
  <2>1. saving # NotSaving
    BY <1>6 DEF PutProfile, NotSaving
  <2>2. saving'.step = "get" /\ saving'.account = saving.account
    BY <1>6 DEF PutProfile
  <2> QED
    BY <1>6, <2>1, <2>2 DEF PutProfile
<1>7. CASE GetProfile
  <2>1. saving # NotSaving
    BY <1>7 DEF GetProfile, NotSaving
  <2>2. saving'.step = "got" /\ saving'.profile = profiles[saving.account]
    BY <1>7 DEF GetProfile
  <2> QED
    BY <1>7, <2>1, <2>2 DEF GetProfile
<1>8. CASE ReadBack
  <2>1. saving' = NotSaving /\ saving'.step = "none"
    BY <1>8 DEF ReadBack, NotSaving
  <2> QED
    BY <1>8, <2>1 DEF ReadBack
<1>9. CASE SaveFails
  <2>1. saving' = NotSaving /\ saving'.step = "none"
    BY <1>9 DEF SaveFails, NotSaving
  <2> QED
    BY <1>9, <2>1 DEF SaveFails
<1>10. CASE UNCHANGED policyVars
  BY <1>10 DEF policyVars
<1> QED
  BY <1>1, <1>2, <1>3, <1>4, <1>5, <1>6, <1>7, <1>8, <1>9, <1>10 DEF PolicyNext

\* "Saved and reloaded from your account" is true when it is on the screen, until the page
\* shows an account anew.
THEOREM SavedFormsAreStored == PolicySpec => []SavedFormIsStored
<1>1. PolicyInit => PolicyInvariant
  BY DEF PolicyInit, PolicyInvariant, SavedFormIsStored, NotSaving
<1>2. PolicyInvariant => SavedFormIsStored
  BY DEF PolicyInvariant
<1> QED
  BY <1>1, <1>2, PolicyStep, PTL DEF PolicySpec

-----------------------------------------------------------------------------
(* Validation                                                              *)

Policy == [risk : Nat, hardCap : Nat, personalDaily : Nat, firmDaily : Nat,
           personalDrawdown : Nat, firmDrawdown : Nat, minRr : Nat, preferredRr : Nat]

\* Over all amounts, blank or not, and not only the small ones: the form lets a policy pass
\* exactly when the server stores it.
THEOREM ValidationsAgree == \A p \in Policy : FormAgreesWithServer(p)
<1> SUFFICES ASSUME NEW p \in Policy PROVE FormAgreesWithServer(p)
  OBVIOUS
<1> DEFINE sent == Payload(p)
<1> DEFINE sendable == \A f \in DOMAIN p \ {"hardCap", "firmDaily"} : p[f] # Blank
<1>1. /\ p.risk \in Nat /\ p.hardCap \in Nat /\ p.personalDaily \in Nat /\ p.firmDaily \in Nat
      /\ p.personalDrawdown \in Nat /\ p.firmDrawdown \in Nat /\ p.minRr \in Nat
      /\ p.preferredRr \in Nat
  BY DEF Policy
<1>2. /\ sent.risk = p.risk /\ sent.hardCap = p.hardCap
      /\ sent.personalDaily = p.personalDaily /\ sent.personalDrawdown = p.personalDrawdown
      /\ sent.firmDrawdown = p.firmDrawdown /\ sent.minRr = p.minRr
      /\ sent.preferredRr = p.preferredRr
      /\ sent.firmDaily = IF p.firmDaily = Blank THEN 0 ELSE p.firmDaily
  BY DEF Payload, Policy
<1>3. sendable <=> /\ p.risk # Blank /\ p.personalDaily # Blank /\ p.personalDrawdown # Blank
                   /\ p.firmDrawdown # Blank /\ p.minRr # Blank /\ p.preferredRr # Blank
  <2>1. DOMAIN p \ {"hardCap", "firmDaily"} =
          {"risk", "personalDaily", "personalDrawdown", "firmDrawdown", "minRr", "preferredRr"}
    BY DEF Policy
  <2> QED
    BY <2>1
<1> HIDE DEF sent, sendable
<1>4. FormAccepts(p) <=> sendable /\ ServerAccepts(sent)
  BY <1>1, <1>2, <1>3 DEF FormAccepts, ServerAccepts, Positive, Blank
<1> QED
  BY <1>4 DEF FormAgreesWithServer, sent, sendable

-----------------------------------------------------------------------------
(* The risk gate                                                           *)

\* A stricter outcome of the same submission never comes from asking for less: over all
\* amounts, and for every policy the form lets through.
LEMMA AskingLessIsAllowed ==
    ASSUME NEW p \in Policy, FormAccepts(p),
           NEW s, NEW t, s.planned \in Nat, t.planned \in Nat, s.planned <= t.planned,
           s.hard \in EnforcementModes, s.soft \in EnforcementModes,
           Strictness(s.hard) >= Strictness(s.soft), t.hard = s.hard, t.soft = s.soft,
           s.halted => t.halted, t.acknowledged => s.acknowledged,
           EvaluateSubmission(t, p) = "allowed"
    PROVE  EvaluateSubmission(s, p) = "allowed"
<1> DEFINE low == PlannedRiskWarning(s.planned, p)
           high == PlannedRiskWarning(t.planned, p)
<1>1. /\ p.risk \in Nat /\ p.hardCap \in Nat
      /\ p.hardCap = Blank \/ p.risk < p.hardCap
  BY DEF Policy, FormAccepts
<1>2. /\ low \in {"none", "soft", "hard"} /\ high \in {"none", "soft", "hard"}
      /\ low = "hard" => high = "hard"
      /\ low = "soft" => high \in {"soft", "hard"}
  BY <1>1 DEF PlannedRiskWarning, Blank
<1>3. Enforced(s.hard, t.acknowledged) = "allowed" =>
          Enforced(s.hard, s.acknowledged) = "allowed" /\ Enforced(s.soft, s.acknowledged) = "allowed"
  BY DEF EnforcementModes, Strictness, Enforced
<1>4. Enforced(s.soft, t.acknowledged) = "allowed" => Enforced(s.soft, s.acknowledged) = "allowed"
  BY DEF EnforcementModes, Enforced
<1> HIDE DEF low, high
<1>5. /\ high = "hard" => Enforced(s.hard, t.acknowledged) = "allowed"
      /\ ~t.halted
      /\ high = "soft" => Enforced(s.soft, t.acknowledged) = "allowed"
  BY DEF EvaluateSubmission, high
<1>6. /\ low = "hard" => Enforced(s.hard, s.acknowledged) = "allowed"
      /\ ~s.halted
      /\ low = "soft" => Enforced(s.soft, s.acknowledged) = "allowed"
  BY <1>2, <1>3, <1>4, <1>5
<1> QED
  BY <1>6 DEF EvaluateSubmission, low

\* Whatever amounts the policy is made of, the gate refuses nobody who asks for less than
\* what it lets pass.
THEOREM GateIsMonotoneForAll == \A p \in Policy : GateIsMonotone(p)
<1> SUFFICES ASSUME NEW p \in Policy, FormAccepts(p), NEW s \in Submissions,
                    Strictness(s.hard) >= Strictness(s.soft), NEW t \in Bolder(s),
                    EvaluateSubmission(t, p) = "allowed"
             PROVE  EvaluateSubmission(s, p) = "allowed"
  BY DEF GateIsMonotone
<1>1. /\ s.planned \in Nat /\ s.hard \in EnforcementModes /\ s.soft \in EnforcementModes
      /\ s.halted \in BOOLEAN /\ s.acknowledged \in BOOLEAN
  BY DEF Submissions
<1>2. /\ t.planned \in Nat /\ s.planned <= t.planned /\ t.hard = s.hard /\ t.soft = s.soft
      /\ t.halted \in {TRUE, s.halted} /\ t.acknowledged \in {FALSE, s.acknowledged}
  <2>1. /\ t.planned \in s.planned .. 3 /\ t.hard \in {s.hard} /\ t.soft \in {s.soft}
        /\ t.halted \in {TRUE, s.halted} /\ t.acknowledged \in {FALSE, s.acknowledged}
    BY DEF Bolder
  <2>2. t.planned \in Nat /\ s.planned <= t.planned
    BY <1>1, <2>1
  <2> QED
    BY <2>1, <2>2
<1>3. (s.halted => t.halted) /\ (t.acknowledged => s.acknowledged)
  BY <1>2
<1> QED
  BY <1>1, <1>2, <1>3, AskingLessIsAllowed

-----------------------------------------------------------------------------
(* The reports page                                                        *)

\* Each button's request is for the period asked for last and, while the account has not
\* been changed, for it; generate with an interpretation keeps the other button disabled.
RequestsKept ==
    /\ generating # NoRequest =>
          /\ reportLoading /\ generating.about.period = lastPeriod
          /\ ~moved => generating.about.account = account
          /\ generating.withAi => aiLoading /\ interpreting = NoRequest
    /\ interpreting # NoRequest =>
          /\ aiLoading /\ interpreting.about.period = lastPeriod
          /\ ~moved => interpreting.about.account = account

\* What stands on the page, and beside the report still awaited.
PageKept ==
    /\ ~moved /\ interpretation # NoReport =>
          /\ report # NoReport => interpretation = report
          /\ generating # NoRequest => interpretation = generating.about
    /\ report # NoReport /\ ~reportLoading => report.period = lastPeriod

ReportsInvariant == ReportsTypeOK /\ RequestsKept /\ PageKept

LEMMA RequestTypes ==
    ASSUME ReportsTypeOK
    PROVE  /\ generating # NoRequest => /\ generating.about \in About /\ generating.withAi \in BOOLEAN
                                        /\ generating.kind \in {"interpret", "report"}
           /\ interpreting # NoRequest => interpreting.about \in About
           /\ NoRequest.kind = "none"
BY DEF ReportsTypeOK, NoRequest

LEMMA ReportsTypeStep ==
    ASSUME ReportsTypeOK, [ReportsNext]_reportVars PROVE ReportsTypeOK'
<1> USE ReportsAssumption
<1>0. reports < MaxReports => reports + 1 \in 0 .. MaxReports
  BY DEF ReportsTypeOK
<1>1. ASSUME NEW a \in ReportAccounts, ChangeAccount(a) PROVE ReportsTypeOK'
  BY <1>1 DEF ChangeAccount, ReportsTypeOK
<1>2. ASSUME NEW p \in Periods, NEW withAi \in BOOLEAN, Generate(p, withAi)
      PROVE  ReportsTypeOK'
  <2> DEFINE request == [kind |-> IF withAi THEN "interpret" ELSE "report", withAi |-> withAi,
                         about |-> [account |-> account, period |-> p]]
  <2>1. request \in [kind : {"interpret", "report"}, withAi : BOOLEAN, about : About]
    BY DEF About, ReportsTypeOK
  <2>2. generating' = request /\ reports' \in 0 .. MaxReports
    BY <1>0, <1>2 DEF Generate
  <2> HIDE DEF request
  <2> QED
    BY <1>2, <2>1, <2>2 DEF Generate, ReportsTypeOK
<1>3. CASE FallBack
  <2>1. generating' \in [kind : {"interpret", "report"}, withAi : BOOLEAN, about : About]
    <3>1. generating # NoRequest
      BY <1>3 DEF FallBack, NoRequest
    <3> QED
      BY <1>3, <3>1 DEF FallBack, ReportsTypeOK
  <2> QED
    BY <1>3, <2>1 DEF FallBack, ReportsTypeOK
<1>4. CASE ReportArrives \/ ReportFails
  <2>1. generating # NoRequest /\ generating.about \in About /\ generating.withAi \in BOOLEAN
    BY <1>4, RequestTypes DEF ReportArrives, ReportFails
  <2>2. aiLoading' \in BOOLEAN /\ reportLoading' \in BOOLEAN /\ generating' = NoRequest
    BY <1>4, <2>1 DEF ReportArrives, ReportFails, Generated, ReportsTypeOK
  <2>3. report' \in About \cup {NoReport} /\ interpretation' \in About \cup {NoReport}
    BY <1>4, <2>1 DEF ReportArrives, ReportFails, ReportsTypeOK
  <2> QED
    BY <1>4, <2>2, <2>3 DEF ReportArrives, ReportFails, ReportsTypeOK
<1>5. CASE Regenerate
  <2> DEFINE request == [kind |-> "interpret",
                         about |-> [account |-> account, period |-> lastPeriod]]
  <2>1. request \in [kind : {"interpret"}, about : About]
    BY <1>5 DEF Regenerate, About, ReportsTypeOK
  <2>2. interpreting' = request /\ reports' \in 0 .. MaxReports
    BY <1>0, <1>5 DEF Regenerate
  <2> HIDE DEF request
  <2> QED
    BY <1>5, <2>1, <2>2 DEF Regenerate, ReportsTypeOK
<1>6. CASE InterpretationArrives \/ InterpretationFails
  BY <1>6, RequestTypes DEF InterpretationArrives, InterpretationFails, ReportsTypeOK
<1>7. CASE UNCHANGED reportVars
  BY <1>7 DEF reportVars, ReportsTypeOK
<1> QED
  BY <1>1, <1>2, <1>3, <1>4, <1>5, <1>6, <1>7 DEF ReportsNext

LEMMA ReportsStep ==
    ASSUME ReportsInvariant, [ReportsNext]_reportVars PROVE ReportsInvariant'
<1> USE ReportsAssumption
<1>0. ReportsTypeOK' /\ ReportsTypeOK
  BY ReportsTypeStep DEF ReportsInvariant
<1>1. /\ generating # NoRequest => /\ generating.about \in About
                                   /\ generating.withAi \in BOOLEAN
                                   /\ generating.kind \in {"interpret", "report"}
      /\ interpreting # NoRequest => interpreting.about \in About
      /\ NoRequest.kind = "none"
      /\ reportLoading \in BOOLEAN /\ aiLoading \in BOOLEAN /\ moved \in BOOLEAN
  BY <1>0, RequestTypes DEF ReportsTypeOK
<1>2. \A x, y \in About : x.account = y.account /\ x.period = y.period => x = y
  BY DEF About
<1> SUFFICES RequestsKept' /\ PageKept'
  BY <1>0 DEF ReportsInvariant
<1> USE DEF ReportsInvariant, RequestsKept, PageKept
<1>3. ASSUME NEW a \in ReportAccounts, ChangeAccount(a) PROVE RequestsKept' /\ PageKept'
  BY <1>1, <1>3 DEF ChangeAccount
<1>4. ASSUME NEW p \in Periods, NEW withAi \in BOOLEAN, Generate(p, withAi)
      PROVE  RequestsKept' /\ PageKept'
  <2>1. /\ generating' # NoRequest /\ generating'.withAi = withAi
        /\ generating'.about.period = p /\ generating'.about.account = account
    BY <1>1, <1>4 DEF Generate, NoRequest
  <2>2. interpreting = NoRequest
    BY <1>4 DEF Generate
  <2> QED
    BY <1>4, <2>1, <2>2 DEF Generate
<1>5. CASE FallBack
  <2>1. /\ generating # NoRequest /\ generating'.about = generating.about
        /\ generating'.withAi = generating.withAi
    BY <1>0, <1>1, <1>5 DEF FallBack, ReportsTypeOK
  <2> QED
    BY <1>5, <2>1 DEF FallBack
<1>6. CASE ReportArrives
  <2>1. /\ generating # NoRequest /\ generating' = NoRequest /\ ~reportLoading'
        /\ report' = generating.about
        /\ UNCHANGED <<account, lastPeriod, interpreting, moved>>
    BY <1>6 DEF ReportArrives, Generated
  <2>2. RequestsKept'
    BY <1>1, <1>6, <2>1 DEF ReportArrives, Generated
  <2>3. PageKept'
    BY <1>1, <1>6, <2>1 DEF ReportArrives
  <2> QED
    BY <2>2, <2>3
<1>7. CASE ReportFails
  <2>1. /\ generating # NoRequest /\ generating' = NoRequest /\ report' = NoReport
    BY <1>1, <1>7 DEF ReportFails, Generated
  <2> QED
    BY <1>1, <1>7, <2>1 DEF ReportFails, Generated
<1>8. CASE Regenerate
  <2>1. /\ interpreting'.about.period = lastPeriod /\ interpreting'.about.account = account
    BY <1>8 DEF Regenerate
  <2> QED
    BY <1>1, <1>8, <2>1 DEF Regenerate
<1>9. CASE InterpretationArrives
  <2>1. /\ interpreting # NoRequest /\ interpreting' = NoRequest
        /\ report' = interpreting.about /\ interpretation' = interpreting.about
        /\ UNCHANGED <<account, lastPeriod, generating, reportLoading, moved>>
    BY <1>9 DEF InterpretationArrives
  <2>2. ~moved /\ generating # NoRequest => interpreting.about = generating.about
    BY <1>1, <1>2, <2>1
  <2>3. generating # NoRequest => ~generating.withAi
    BY <1>1, <2>1
  <2> QED
    BY <2>1, <2>2, <2>3
<1>10. CASE InterpretationFails
  BY <1>1, <1>10 DEF InterpretationFails
<1>11. CASE UNCHANGED reportVars
  BY <1>11 DEF reportVars
<1> QED
  BY <1>3, <1>4, <1>5, <1>6, <1>7, <1>8, <1>9, <1>10, <1>11 DEF ReportsNext

\* Well-formed reports, interpretations and requests, of the right periods and accounts.
THEOREM ReportsStaySound == ReportsSpec => []ReportsInvariant
<1>1. ReportsInit => ReportsInvariant
  <2> SUFFICES ASSUME ReportsInit PROVE ReportsInvariant
    OBVIOUS
  <2>1. 0 \in 0 .. MaxReports
    BY ReportsAssumption
  <2>2. ReportsTypeOK
    BY <2>1 DEF ReportsInit, ReportsTypeOK
  <2>3. RequestsKept /\ PageKept
    BY DEF ReportsInit, RequestsKept, PageKept
  <2> QED
    BY <2>2, <2>3 DEF ReportsInvariant
<1> QED
  BY <1>1, ReportsStep, PTL DEF ReportsSpec

\* What stands beside a report interprets this report, whichever button's request answers
\* last, unless the account was changed meanwhile; and the page shows the period asked last.
THEOREM InterpretationsAreOfReports == ReportsSpec => []InterpretationIsOfReport
<1>1. ReportsInvariant => InterpretationIsOfReport
  BY DEF ReportsInvariant, PageKept, InterpretationIsOfReport
<1> QED
  BY <1>1, ReportsStaySound, PTL

-----------------------------------------------------------------------------
(* The chart of the market lab                                             *)

USE LabAssumption

\* The lines of one overlay, and of none.
LinesOf(overlaid) == [t \in LabTrades |-> IF t = overlaid THEN 1 ELSE 0]

-----------------------------------------------------------------------------
(* What the mounts that are gone, and the last one, are like.              *)

\* Only the last mount is not cancelled, once begun, and only while the page is open.
MountsKept ==
    /\ mounts \in 0 .. MaxMounts /\ visit \in 0 .. MaxMounts /\ onPage \in BOOLEAN
    /\ onPage => visit \in Mounts
    /\ onPage => mounts \in Mounts /\ mounts \notin cancelled
    /\ boots \in [Mounts -> {"not begun", "importing", "starting", "ended"}]
    /\ \A v \in Mounts : boots[v] # "not begun" /\ v \notin cancelled => onPage /\ v = mounts
    /\ \A v \in Mounts : v > mounts => boots[v] = "not begun"
    /\ cancelled \subseteq Mounts /\ \A v \in cancelled : v <= mounts

\* A living chart is held by the component of the last mount; a chart that is starting
\* lives, and so does a ready one.
ChartsKept ==
    /\ alive \subseteq chartRef
    /\ chartRef \subseteq (IF onPage THEN {mounts} ELSE {})
    /\ onPage /\ boots[mounts] = "starting" => mounts \in alive
    /\ ready => onPage /\ mounts \in alive /\ boots[mounts] = "ended"

\* A chart bears no line before it is ready, then those of the overlay.
LinesKept ==
    /\ overlay \in LabTrades \cup {NoTrade}
    /\ replays \subseteq [trade : LabTrades, visit : Mounts]
    /\ lines \in [Mounts -> [LabTrades -> Nat]]
    /\ \A v \in Mounts : boots[v] # "ended" => lines[v] = NoLines
    /\ ready => lines[mounts] = LinesOf(overlay)

LabInvariant == MountsKept /\ ChartsKept /\ LinesKept

-----------------------------------------------------------------------------
(* The lines                                                               *)

LEMMA NothingOverlaid == NoLines = LinesOf(NoTrade)
  BY DEF NoLines, LinesOf

\* Redrawing replaces the lines of one overlay by those of the other.
LEMMA Redrawn ==
    ASSUME NEW old \in LabTrades \cup {NoTrade}, NEW new \in LabTrades \cup {NoTrade}
    PROVE  Redraw(LinesOf(old), old, new) = LinesOf(new)
<1>1. \A t \in LabTrades : (IF t = old THEN 1 ELSE 0) - (IF t = old THEN 1 ELSE 0) = 0
  OBVIOUS
<1> QED
  BY <1>1 DEF Redraw, LinesOf

LEMMA LinesOfType ==
    ASSUME NEW t \in LabTrades \cup {NoTrade} PROVE LinesOf(t) \in [LabTrades -> Nat]
  BY DEF LinesOf

\* The overlay effect leaves every other chart alone.
LEMMA OverlaySet ==
    ASSUME LabInvariant, NEW t \in LabTrades \cup {NoTrade}, SetOverlay(t),
           UNCHANGED <<mounts, boots, ready>>
    PROVE  /\ overlay' \in LabTrades \cup {NoTrade}
           /\ lines' \in [Mounts -> [LabTrades -> Nat]]
           /\ \A v \in Mounts : boots[v] # "ended" => lines'[v] = NoLines
           /\ ready => lines'[mounts] = LinesOf(overlay')
<1>1. CASE ready
  <2>1. mounts \in Mounts /\ mounts \in chartRef /\ boots[mounts] = "ended"
    BY <1>1 DEF LabInvariant, MountsKept, ChartsKept
  <2>2. Redraw(lines[mounts], overlay, t) = LinesOf(t)
    BY <1>1, Redrawn DEF LabInvariant, LinesKept
  <2>3. lines' = [lines EXCEPT ![mounts] = LinesOf(t)]
    BY <1>1, <2>1, <2>2 DEF SetOverlay
  <2> QED
    BY <2>1, <2>3, LinesOfType DEF SetOverlay, LabInvariant, LinesKept
<1>2. CASE ~ready
  BY <1>2 DEF SetOverlay, LabInvariant, LinesKept
<1> QED
  BY <1>1, <1>2

-----------------------------------------------------------------------------
(* The steps                                                               *)

LEMMA NextMount ==
    ASSUME NEW m \in 0 .. MaxMounts, m < MaxMounts
    PROVE  /\ m + 1 \in Mounts /\ m + 1 \in 0 .. MaxMounts
           /\ \A v \in Mounts : v <= m => v <= m + 1 /\ v # m + 1
           /\ \A v \in Mounts : v > m + 1 => v > m /\ v # m + 1
           /\ m + 1 > m /\ ~(m + 1 <= m)
BY DEF Mounts

\* Mounting the chart when the last mount is gone.
LEMMA Mounted ==
    ASSUME LabInvariant, Mount, cancelled' \in SUBSET Mounts, cancelled \subseteq cancelled',
           \A v \in cancelled' : v <= mounts,
           \A v \in Mounts : boots[v] # "not begun" => v \in cancelled',
           onPage', visit' \in Mounts, visit' \in 0 .. MaxMounts,
           alive' = {}, chartRef' = {}, overlay' \in LabTrades \cup {NoTrade},
           replays' \subseteq replays, lines' = lines
    PROVE  LabInvariant'
<1> USE DEF LabInvariant
<1>0. /\ mounts' \in Mounts /\ mounts' \in 0 .. MaxMounts
      /\ \A v \in Mounts : v <= mounts => v <= mounts' /\ v # mounts'
      /\ \A v \in Mounts : v > mounts' => v > mounts /\ v # mounts'
      /\ mounts' > mounts
  BY NextMount DEF Mount, MountsKept
<1>1. mounts' \notin cancelled' /\ boots[mounts'] = "not begun"
  BY <1>0 DEF MountsKept
<1>2. boots' = [boots EXCEPT ![mounts'] = "importing"]
  BY DEF Mount
<1>3. MountsKept'
  <2>1. onPage' \in BOOLEAN /\ onPage'
    BY Zenon DEF MountsKept
  <2>2. boots' \in [Mounts -> {"not begun", "importing", "starting", "ended"}]
    BY <1>0, <1>2 DEF MountsKept
  <2>3. ASSUME NEW v \in Mounts, boots'[v] # "not begun", v \notin cancelled' PROVE v = mounts'
    <3>1. v # mounts' => boots[v] # "not begun"
      BY <1>0, <1>2, <2>3 DEF MountsKept
    <3> QED
      BY <2>3, <3>1
  <2>4. \A v \in Mounts : v > mounts' => boots'[v] = "not begun"
    BY <1>0, <1>2 DEF MountsKept
  <2>5. \A v \in cancelled' : v <= mounts'
    BY <1>0
  <2> QED
    BY <1>0, <1>1, <2>1, <2>2, <2>3, <2>4, <2>5 DEF MountsKept
<1>4. ChartsKept'
  BY <1>0, <1>2 DEF Mount, ChartsKept, MountsKept
<1>5. LinesKept'
  <2>1. ready' = FALSE
    BY DEF Mount
  <2>2. \A v \in Mounts : boots'[v] # "ended" => lines[v] = NoLines
    BY <1>0, <1>1, <1>2 DEF LinesKept, MountsKept
  <2> QED
    BY <2>1, <2>2 DEF LinesKept
<1> QED
  BY <1>3, <1>4, <1>5

\* While the page is closed every mount is gone.
LEMMA EnterKeeps == LabInvariant /\ Enter => LabInvariant'
<1> SUFFICES ASSUME LabInvariant, Enter PROVE LabInvariant'
  OBVIOUS
<1>1. ~onPage /\ onPage' /\ Mount /\ visit' = mounts' /\ overlay' = NoTrade
  BY DEF Enter
<1>2. UNCHANGED <<cancelled, alive, chartRef, replays, lines>>
  BY DEF Enter
<1>3. mounts' \in Mounts /\ mounts' \in 0 .. MaxMounts
  BY <1>1, NextMount DEF Mount, LabInvariant, MountsKept
<1>4. /\ cancelled' \in SUBSET Mounts /\ \A v \in cancelled' : v <= mounts
      /\ \A v \in Mounts : boots[v] # "not begun" => v \in cancelled'
  BY <1>1, <1>2 DEF LabInvariant, MountsKept
<1>5. alive' = {} /\ chartRef' = {}
  BY <1>1, <1>2 DEF LabInvariant, ChartsKept
<1> QED
  BY <1>1, <1>2, <1>3, <1>4, <1>5, Mounted

\* The cleanup of the last mount leaves no chart and no mount that is not cancelled.
LEMMA CleanedUp ==
    ASSUME LabInvariant, onPage, Cleanup
    PROVE  /\ cancelled' \in SUBSET Mounts /\ cancelled \subseteq cancelled'
           /\ \A v \in cancelled' : v <= mounts
           /\ \A v \in Mounts : boots[v] # "not begun" => v \in cancelled'
           /\ alive' = {} /\ chartRef' = {}
<1>1. mounts \in Mounts /\ cancelled' = cancelled \cup {mounts}
  BY DEF LabInvariant, MountsKept, Cleanup
<1>2. mounts <= mounts
  BY <1>1 DEF Mounts
<1>3. alive' = {} /\ chartRef' = {}
  BY DEF Cleanup, LabInvariant, ChartsKept
<1> QED
  BY <1>1, <1>2, <1>3 DEF LabInvariant, MountsKept

\* Mounted anew, with the overlay of the page or that of a replay.
LEMMA RemountKeeps ==
    ASSUME LabInvariant, ChangeSettings \/ \E r \in replays : SeeReplayOnOtherFeed(r)
    PROVE  LabInvariant'
<1>1. /\ onPage /\ onPage' /\ Cleanup /\ Mount
      /\ visit' = visit /\ lines' = lines /\ replays' \subseteq replays
  BY DEF ChangeSettings, SeeReplayOnOtherFeed
<1>2. overlay' \in LabTrades \cup {NoTrade}
  <2>1. \A r \in replays : r.trade \in LabTrades
    BY DEF LabInvariant, LinesKept
  <2> QED
    BY <2>1 DEF ChangeSettings, SeeReplayOnOtherFeed, LabInvariant, LinesKept
<1>3. visit' \in Mounts /\ visit' \in 0 .. MaxMounts
  BY <1>1 DEF LabInvariant, MountsKept
<1> QED
  BY <1>1, <1>2, <1>3, CleanedUp, Mounted

LEMMA LeaveKeeps == LabInvariant /\ Leave => LabInvariant'
<1> SUFFICES ASSUME LabInvariant, Leave PROVE LabInvariant'
  OBVIOUS
<1>1. /\ onPage /\ onPage' = FALSE /\ Cleanup /\ ready' = FALSE
      /\ UNCHANGED <<mounts, visit, boots, replays, overlay, lines>>
  BY DEF Leave
<1>2. /\ cancelled' \in SUBSET Mounts /\ \A v \in cancelled' : v <= mounts
      /\ \A v \in Mounts : boots[v] # "not begun" => v \in cancelled'
      /\ alive' = {} /\ chartRef' = {}
  BY <1>1, CleanedUp
<1>3. MountsKept'
  BY <1>1, <1>2 DEF LabInvariant, MountsKept
<1>4. ChartsKept'
  BY <1>1, <1>2 DEF ChartsKept
<1>5. LinesKept'
  BY <1>1 DEF LabInvariant, LinesKept
<1> QED
  BY <1>3, <1>4, <1>5 DEF LabInvariant

LEMMA BootKeeps ==
    ASSUME LabInvariant, NEW v \in Mounts, Imported(v) \/ Started(v) \/ BootFails(v)
    PROVE  LabInvariant'
<1> USE DEF LabInvariant
<1>0. /\ boots[v] \in {"importing", "starting"}
      /\ v \notin cancelled => onPage /\ v = mounts
  BY DEF MountsKept, Imported, Started, BootFails
<1>1. MountsKept'
  <2>1. boots' = [boots EXCEPT ![v] = "starting"] \/ boots' = [boots EXCEPT ![v] = "ended"]
    BY DEF Imported, Started, BootFails
  <2>2. UNCHANGED <<mounts, visit, onPage, cancelled>>
    BY DEF Imported, Started, BootFails
  <2>3. boots' \in [Mounts -> {"not begun", "importing", "starting", "ended"}]
    BY <2>1 DEF MountsKept
  <2>4. \A u \in Mounts : boots'[u] = "not begun" <=> boots[u] = "not begun"
    BY <1>0, <2>1 DEF MountsKept
  <2> QED
    BY <2>2, <2>3, <2>4 DEF MountsKept
<1>2. CASE Imported(v)
  <2>1. ChartsKept'
    BY <1>0, <1>2 DEF Imported, ChartsKept, MountsKept
  <2>2. LinesKept'
    BY <1>2 DEF Imported, LinesKept, MountsKept
  <2> QED
    BY <1>1, <2>1, <2>2
<1>3. CASE Started(v)
  <2>1. ChartsKept'
    BY <1>0, <1>3 DEF Started, ChartsKept, MountsKept
  <2>2. CASE v \in cancelled
    <3>1. ready' = ready /\ lines' = lines /\ UNCHANGED <<mounts, overlay, replays>>
      BY <1>3, <2>2 DEF Started
    <3>2. LinesKept'
      BY <1>3, <3>1 DEF Started, LinesKept, MountsKept
    <3> QED
      BY <1>1, <2>1, <3>2
  <2>3. CASE v \notin cancelled
    <3>1. v = mounts /\ lines[v] = NoLines
      BY <1>0, <1>3, <2>3 DEF Started, LinesKept
    <3>2. Redraw(NoLines, NoTrade, overlay) = LinesOf(overlay)
      BY NothingOverlaid, Redrawn DEF LinesKept
    <3>3. lines' = [lines EXCEPT ![v] = LinesOf(overlay)]
      <4>1. CASE overlay = NoTrade
        BY <1>3, <2>3, <3>1, <4>1, NothingOverlaid DEF Started, LinesKept
      <4>2. CASE overlay # NoTrade
        BY <1>3, <2>3, <3>1, <3>2, <4>2 DEF Started
      <4> QED
        BY <4>1, <4>2
    <3>4. boots' = [boots EXCEPT ![v] = "ended"] /\ UNCHANGED <<mounts, overlay, replays>>
      BY <1>3 DEF Started
    <3>5. LinesOf(overlay) \in [LabTrades -> Nat]
      BY LinesOfType DEF LinesKept
    <3>6. LinesKept'
      BY <3>1, <3>3, <3>4, <3>5 DEF LinesKept, MountsKept
    <3> QED
      BY <1>1, <2>1, <3>6
  <2> QED
    BY <2>2, <2>3
<1>4. CASE BootFails(v)
  <2>1. ChartsKept'
    BY <1>0, <1>4 DEF BootFails, ChartsKept, MountsKept
  <2>2. LinesKept'
    BY <1>4 DEF BootFails, LinesKept, MountsKept
  <2> QED
    BY <1>1, <2>1, <2>2
<1> QED
  BY <1>2, <1>3, <1>4

LEMMA OverlayKeeps ==
    ASSUME LabInvariant,
           \/ \E t \in LabTrades \cup {NoTrade} : SelectTrade(t)
           \/ \E r \in replays : SeeReplay(r) \/ ReplayFails(r)
    PROVE  LabInvariant'
<1> USE DEF LabInvariant
<1>1. UNCHANGED <<mounts, onPage, visit, boots, cancelled, alive, chartRef, ready>>
  BY DEF SelectTrade, SeeReplay, ReplayFails
<1>2. MountsKept' /\ ChartsKept'
  BY <1>1 DEF MountsKept, ChartsKept
<1>3. replays' \subseteq [trade : LabTrades, visit : Mounts]
  <2>1. ASSUME NEW t \in LabTrades \cup {NoTrade}, SelectTrade(t)
        PROVE  replays' \subseteq [trade : LabTrades, visit : Mounts]
    <3>1. CASE t = NoTrade
      BY <2>1, <3>1 DEF SelectTrade, LinesKept
    <3>2. CASE t # NoTrade
      <4>1. [trade |-> t, visit |-> visit] \in [trade : LabTrades, visit : Mounts]
        BY <2>1, <3>2 DEF SelectTrade, MountsKept
      <4> QED
        BY <2>1, <3>2, <4>1 DEF SelectTrade, LinesKept
    <3> QED
      BY <3>1, <3>2
  <2>2. ASSUME NEW r \in replays, SeeReplay(r) \/ ReplayFails(r)
        PROVE  replays' \subseteq [trade : LabTrades, visit : Mounts]
    BY <2>2 DEF SeeReplay, ReplayFails, LinesKept
  <2> QED
    BY <2>1, <2>2
<1>4. (\E t \in LabTrades \cup {NoTrade} : SetOverlay(t)) \/ UNCHANGED <<overlay, lines>>
  <2>1. \A r \in replays : r.trade \in LabTrades
    BY DEF LinesKept
  <2> QED
    BY <2>1 DEF SelectTrade, SeeReplay, ReplayFails
<1>5. LinesKept'
  <2>1. CASE UNCHANGED <<overlay, lines>>
    BY <1>1, <1>3, <2>1 DEF LinesKept
  <2>2. ASSUME NEW t \in LabTrades \cup {NoTrade}, SetOverlay(t) PROVE LinesKept'
    BY <1>1, <1>3, <2>2, OverlaySet DEF LinesKept
  <2> QED
    BY <1>4, <2>1, <2>2
<1> QED
  BY <1>2, <1>5

-----------------------------------------------------------------------------
(* The theorem                                                             *)

LEMMA LabStep ==
    ASSUME LabInvariant, [LabNext]_labVars PROVE LabInvariant'
<1>1. ASSUME LabInvariant, UNCHANGED labVars PROVE LabInvariant'
  <2>1. MountsKept' /\ ChartsKept'
    BY <1>1 DEF LabInvariant, MountsKept, ChartsKept, labVars
  <2>2. LinesKept'
    BY <1>1 DEF LabInvariant, LinesKept, labVars
  <2> QED
    BY <2>1, <2>2 DEF LabInvariant
<1> QED
  BY <1>1, EnterKeeps, RemountKeeps, LeaveKeeps, BootKeeps, OverlayKeeps DEF LabNext

\* The invariant of the mounts, charts and lines.
THEOREM LabInvariantHolds == LabSpec => []LabInvariant
<1>1. LabInit => LabInvariant
  <2> SUFFICES ASSUME LabInit PROVE LabInvariant
    OBVIOUS
  <2>1. MountsKept
    <3>0. 0 \in 0 .. MaxMounts
      OBVIOUS
    <3>1. cancelled = {} /\ mounts = 0 /\ visit = 0 /\ onPage = FALSE
      BY DEF LabInit
    <3>2. boots = [v \in Mounts |-> "not begun"]
      BY DEF LabInit
    <3> QED
      BY <3>0, <3>1, <3>2 DEF MountsKept
  <2>2. ChartsKept
    BY DEF LabInit, ChartsKept
  <2>3. LinesKept
    <3>1. NoLines \in [LabTrades -> Nat]
      BY DEF NoLines
    <3> QED
      BY <3>1 DEF LabInit, LinesKept
  <2> QED
    BY <2>1, <2>2, <2>3 DEF LabInvariant
<1> QED
  BY <1>1, LabStep, PTL DEF LabSpec

\* However often the page is left and opened and the chart mounted anew while charts are
\* imported and started, and in whatever order replays arrive or fail, no chart outlives
\* its mount, and the ready one bears the lines of the trade laid over it once and no others.
THEOREM OneChartAtMost == LabSpec => []OneChartWithItsOverlay
<1>1. LabInvariant => OneChartWithItsOverlay
  BY DEF LabInvariant, ChartsKept, LinesKept, LinesOf, OneChartWithItsOverlay
<1> QED
  BY <1>1, LabInvariantHolds, PTL

LEMMA LabTypeStep ==
    ASSUME LabInvariant, LabTypeOK, [LabNext]_labVars PROVE LabTypeOK'
<1>1. LabInvariant'
  BY LabStep
<1>2. alive' \subseteq Mounts /\ chartRef' \subseteq Mounts
  BY <1>1 DEF LabInvariant, MountsKept, ChartsKept
<1>3. ready' \in BOOLEAN
  BY Zenon DEF LabTypeOK, LabNext, labVars, Enter, ChangeSettings, Mount, Leave, Imported,
               Started, BootFails, SelectTrade, SeeReplay, SeeReplayOnOtherFeed, ReplayFails
<1>4. tradeId' \in LabTrades \cup {NoTrade} /\ asked' \in 0 .. MaxReplays
  <2>1. ASSUME NEW t \in LabTrades \cup {NoTrade}, SelectTrade(t)
        PROVE  tradeId' \in LabTrades \cup {NoTrade} /\ asked' \in 0 .. MaxReplays
    <3>1. asked' = asked \/ asked' = asked + 1
      BY <2>1 DEF SelectTrade
    <3>2. asked \in 0 .. MaxReplays /\ asked < MaxReplays /\ tradeId' = t
      BY <2>1 DEF SelectTrade, LabTypeOK
    <3> QED
      BY <3>1, <3>2
  <2>2. CASE Enter
    BY <2>2 DEF Enter, LabTypeOK
  <2>3. CASE UNCHANGED <<tradeId, asked>>
    BY <2>3 DEF LabTypeOK
  <2>4. \/ ChangeSettings \/ Leave \/ UNCHANGED labVars
        \/ \E v \in Mounts : Imported(v) \/ Started(v) \/ BootFails(v)
        \/ \E r \in replays : SeeReplay(r) \/ SeeReplayOnOtherFeed(r) \/ ReplayFails(r)
        => UNCHANGED <<tradeId, asked>>
    BY DEF labVars, ChangeSettings, Leave, Imported, Started, BootFails, SeeReplay,
           SeeReplayOnOtherFeed, ReplayFails
  <2> QED
    BY <2>1, <2>2, <2>3, <2>4 DEF LabNext
<1> QED
  BY <1>1, <1>2, <1>3, <1>4 DEF LabInvariant, MountsKept, LinesKept, LabTypeOK

\* The mounts, their charts and the lines on them are well-formed.
THEOREM LabTypeCorrect == LabSpec => []LabTypeOK
<1>1. LabInit => LabTypeOK
  <2> SUFFICES ASSUME LabInit PROVE LabTypeOK
    OBVIOUS
  <2>1. /\ 0 \in 0 .. MaxMounts /\ 0 \in 0 .. MaxReplays /\ NoLines \in [LabTrades -> Nat]
    BY DEF NoLines
  <2> QED
    BY <2>1 DEF LabInit, LabTypeOK
<1> QED
  BY <1>1, LabInvariantHolds, LabTypeStep, PTL DEF LabSpec

-----------------------------------------------------------------------------
(* The findings: what the sources may say                                  *)

\* What is used of a line of the catalogue: the priority it starts from; that the queue
\* speaks of the sample of the whole dashboard; and that the one line whose level the lab
\* sets by itself is no positive one.
LineIsPlain(l) ==
    /\ l.base \in Nat
    /\ l.id = "sample_size" => l.whole
    /\ l.id = "process_improving" =>
           l.source = "lab" /\ l.type = "CONSISTENCY" /\ l.severity = "INFO"

LEMMA LinesArePlain ==
    /\ Len(DetectorLines) = 7 /\ \A i \in 1 .. 7 : LineIsPlain(DetectorLines[i])
    /\ Len(InvestigationLines) = 10 /\ \A i \in 1 .. 10 : LineIsPlain(InvestigationLines[i])
    /\ Len(LabLines) = 7 /\ \A i \in 1 .. 7 : LineIsPlain(LabLines[i])
    /\ Len(FeedLines) = 16 /\ \A i \in 1 .. 16 : LineIsPlain(FeedLines[i])
<1>1. Len(DetectorLines) = 7
  BY DEF DetectorLines
<1>2. \A i \in 1 .. 7 : LineIsPlain(DetectorLines[i])
  BY DEF DetectorLines, LineIsPlain, Line
<1>3. Len(InvestigationLines) = 10
  BY DEF InvestigationLines
<1>4. \A i \in 1 .. 10 : LineIsPlain(InvestigationLines[i])
  BY DEF InvestigationLines, LineIsPlain, Line
<1>5. Len(LabLines) = 7
  BY DEF LabLines
<1>6. \A i \in 1 .. 7 : LineIsPlain(LabLines[i])
  BY DEF LabLines, LineIsPlain, Line
<1>7. Len(FeedLines) = 16
  BY DEF FeedLines
<1>8. \A i \in 1 .. 16 : LineIsPlain(FeedLines[i])
  BY DEF FeedLines, LineIsPlain, Line
<1> QED
  BY <1>1, <1>2, <1>3, <1>4, <1>5, <1>6, <1>7, <1>8

LEMMA CatalogueIsPlain ==
    /\ IsFiniteSet(DOMAIN Catalogue)
    /\ \A i \in DOMAIN Catalogue : i \in Nat /\ LineIsPlain(Catalogue[i])
<1> DEFINE all(s) == {s[i] : i \in 1 .. Len(s)}
           Plain == all(DetectorLines) \cup all(InvestigationLines) \cup all(LabLines) \cup all(FeedLines)
<1>1. \A l \in Plain : LineIsPlain(l)
  BY LinesArePlain
<1>2. DetectorLines \in Seq(Plain)
  <2>1. DetectorLines \in [1 .. Len(DetectorLines) -> Plain] /\ Len(DetectorLines) \in Nat
    BY LinesArePlain DEF DetectorLines
  <2> QED
    BY <2>1
<1>3. InvestigationLines \in Seq(Plain)
  <2>1. /\ InvestigationLines \in [1 .. Len(InvestigationLines) -> Plain]
        /\ Len(InvestigationLines) \in Nat
    BY LinesArePlain DEF InvestigationLines
  <2> QED
    BY <2>1
<1>4. LabLines \in Seq(Plain)
  <2>1. LabLines \in [1 .. Len(LabLines) -> Plain] /\ Len(LabLines) \in Nat
    BY LinesArePlain DEF LabLines
  <2> QED
    BY <2>1
<1>5. FeedLines \in Seq(Plain)
  <2>1. FeedLines \in [1 .. Len(FeedLines) -> Plain] /\ Len(FeedLines) \in Nat
    BY LinesArePlain DEF FeedLines
  <2> QED
    BY <2>1
<1> HIDE DEF Plain
<1>6. Catalogue \in Seq(Plain)
  BY <1>2, <1>3, <1>4, <1>5 DEF Catalogue
<1>7. DOMAIN Catalogue = 1 .. Len(Catalogue) /\ Len(Catalogue) \in Nat
  BY <1>6
<1>8. IsFiniteSet(DOMAIN Catalogue)
  BY <1>7, IntervalSize
<1> QED
  BY <1>1, <1>6, <1>8

LEMMA ObservationIs ==
    /\ IsFiniteSet(DOMAIN Catalogue)
    /\ \A f \in Observation :
          /\ f.place \in Nat /\ f.n \in Nat /\ f.m \in Nat
          /\ f.place \in DOMAIN Catalogue /\ LineIsPlain(Of(f)) /\ Of(f).base \in Nat
          /\ f = [place |-> f.place, n |-> f.n, m |-> f.m]
<1>1. \A f \in Observation :
          /\ f.n \in Nat /\ f.m \in Nat /\ f.place \in DOMAIN Catalogue
          /\ f = [place |-> f.place, n |-> f.n, m |-> f.m]
  <2> DEFINE Places == DOMAIN Catalogue
  <2>1. Samples \subseteq Nat /\ Observation = [place : Places, n : Samples, m : Samples]
    BY FindingsAssumption DEF Observation
  <2> HIDE DEF Places
  <2>2. \A f \in Observation : /\ f.n \in Samples /\ f.m \in Samples /\ f.place \in Places
                              /\ f = [place |-> f.place, n |-> f.n, m |-> f.m]
    BY <2>1
  <2> QED
    BY <2>1, <2>2 DEF Places
<1>2. \A f \in Observation : f.place \in Nat /\ LineIsPlain(Of(f))
  BY <1>1, CatalogueIsPlain DEF Of
<1>3. \A f \in Observation : Of(f).base \in Nat
  BY <1>2 DEF LineIsPlain
<1>4. IsFiniteSet(DOMAIN Catalogue)
  BY CatalogueIsPlain
<1> QED
  BY <1>1, <1>2, <1>3, <1>4

-----------------------------------------------------------------------------
(* The findings: dedupeFindings keeps one per theme, and the sort orders  *)
(* what it keeps                                                           *)

LEMMA NatMin ==
    ASSUME NEW T, T \subseteq Nat, T # {}
    PROVE  Min(T) \in T /\ \A y \in T : Min(T) <= y
<1>1. PICK x \in T : \A y \in T : <<y, x>> \notin OpToRel(<, Nat)
  BY NatLessThanWellFounded, WFMin
<1>2. \A y \in T : y < x => <<y, x>> \in OpToRel(<, Nat)
  BY DEF OpToRel
<1>3. \A y \in T : ~(y < x)
  BY <1>1, <1>2, Zenon
<1>4. \A y \in T : x <= y
  BY <1>3
<1> QED
  BY <1>4 DEF Min

\* dedupeFindings keeps one observation per theme.
LEMMA OnePerTheme ==
    ASSUME NEW found \in SUBSET Observation,
           NEW f \in Deduped(found), NEW g \in Deduped(found), f # g
    PROVE  Of(f).theme # Of(g).theme
<1> SUFFICES ASSUME Of(f).theme = Of(g).theme PROVE FALSE
  OBVIOUS
<1>1. /\ f \in found /\ g \in found
      /\ Preferred(f, g) \/ (~Preferred(g, f) /\ f.place < g.place)
      /\ Preferred(g, f) \/ (~Preferred(f, g) /\ g.place < f.place)
  BY DEF Deduped, Rivals
<1>2. /\ f.place \in Nat /\ g.place \in Nat /\ f.n \in Nat /\ g.n \in Nat
      /\ Of(f).base \in Nat /\ Of(g).base \in Nat
  BY <1>1, ObservationIs
<1>3. \A s : SourceRank(s) \in Nat
  BY DEF SourceRank
<1>4. ~(Preferred(f, g) /\ Preferred(g, f))
  <2>1. SourceRank(Of(f).source) \in Nat /\ SourceRank(Of(g).source) \in Nat
    BY <1>3
  <2> HIDE DEF SourceRank, Of
  <2> QED
    BY <1>2, <2>1 DEF Preferred
<1> QED
  BY <1>1, <1>2, <1>4

LEMMA PositionsDiffer ==
    ASSUME NEW found \in SUBSET Observation, NEW f \in Deduped(found), NEW g \in Deduped(found)
    PROVE  /\ Position(f, found) \in Nat
           /\ Position(f, found) = Position(g, found) => f = g
<1>1. ASSUME NEW h \in found
      PROVE  \E r \in Rivals(h, found) : r.place = Position(h, found)
  <2> DEFINE T == {r.place : r \in Rivals(h, found)}
  <2>1. T \subseteq Nat
    BY ObservationIs DEF Rivals
  <2>2. h.place \in T
    BY DEF Rivals
  <2>3. Min(T) \in T
    <3> HIDE DEF T
    <3> QED
      BY <2>1, <2>2, NatMin
  <2> QED
    BY <2>3 DEF Position
<1>2. f \in found /\ g \in found
  BY DEF Deduped
<1>3. PICK r \in Rivals(f, found) : r.place = Position(f, found)
  BY <1>1, <1>2
<1>4. PICK q \in Rivals(g, found) : q.place = Position(g, found)
  BY <1>1, <1>2
<1>5. /\ r \in found /\ Of(r).theme = Of(f).theme
      /\ q \in found /\ Of(q).theme = Of(g).theme
  BY DEF Rivals
<1>6. r.place = q.place => Of(r) = Of(q)
  BY DEF Of
<1>7. Position(f, found) = Position(g, found) => Of(f).theme = Of(g).theme
  BY <1>3, <1>4, <1>5, <1>6
<1>8. Position(f, found) \in Nat
  BY <1>3, <1>5, ObservationIs
<1> QED
  BY <1>7, <1>8, OnePerTheme

LEMMA ScoreType ==
    ASSUME NEW f \in Observation, NEW found
    PROVE  Score(f, found) \in Int /\ SeverityOrder(Of(f).severity) \in Nat
<1>1. Of(f).base \in Nat
  BY ObservationIs
<1>2. \A s : SeverityBoost(s) \in Int /\ SeverityOrder(s) \in Nat
  BY DEF SeverityBoost, SeverityOrder
<1>3. \A s : SampleBoost(s) \in Int
  BY DEF SampleBoost
<1> QED
  BY <1>1, <1>2, <1>3 DEF Score

\* prioritizeFindings orders what dedupeFindings kept.
LEMMA BeforeOrders ==
    ASSUME NEW found \in SUBSET Observation, NEW used \in SUBSET Deduped(found)
    PROVE  Orders({p \in used \X used : Before(p[1], p[2], Deduped(found), found)}, used)
<1> DEFINE kept == Deduped(found)
           precedes == {p \in used \X used : Before(p[1], p[2], kept, found)}
           score(x) == Score(x, kept)
           level(x) == SeverityOrder(Of(x).severity)
           at(x)    == Position(x, found)
<1>1. \A x \in used : x \in Observation /\ x \in kept
  BY DEF Deduped
<1>2. \A x \in used : x.n \in Nat /\ score(x) \in Int /\ level(x) \in Nat
  BY <1>1, ScoreType, ObservationIs
<1>3. \A x, y \in used : at(x) \in Nat /\ (at(x) = at(y) => x = y)
  BY <1>1, PositionsDiffer
<1>4. \A x, y \in used : <<x, y>> \in precedes <=>
         \/ score(x) > score(y)
         \/ /\ score(x) = score(y)
            /\ \/ level(x) > level(y)
               \/ level(x) = level(y) /\ x.n > y.n
               \/ level(x) = level(y) /\ x.n = y.n /\ at(x) < at(y)
  BY DEF Before
<1> HIDE DEF kept, precedes, score, level, at
<1>5. \A x \in used : <<x, x>> \notin precedes
  BY <1>2, <1>3, <1>4
<1>6. ASSUME NEW x \in used, NEW y \in used, x # y
      PROVE  <<x, y>> \in precedes \/ <<y, x>> \in precedes
  <2>1. at(x) # at(y)
    BY <1>3, <1>6
  <2>2. /\ x.n \in Nat /\ score(x) \in Int /\ level(x) \in Nat /\ at(x) \in Nat
        /\ y.n \in Nat /\ score(y) \in Int /\ level(y) \in Nat /\ at(y) \in Nat
    BY <1>2, <1>3
  <2> QED
    BY <1>4, <2>1, <2>2
<1>7. \A x, y, z \in used : <<x, y>> \in precedes /\ <<y, z>> \in precedes => <<x, z>> \in precedes
  BY <1>2, <1>3, <1>4
<1> QED
  BY <1>5, <1>6, <1>7 DEF Orders, precedes, kept

-----------------------------------------------------------------------------
(* The lists                                                               *)

\* A list of different observations, one per theme, with scores that never rise.
Descends(list, found) ==
    /\ list \in Seq(Deduped(found))
    /\ \A i, j \in 1 .. Len(list) : list[i] = list[j] => i = j
    /\ \A i, j \in 1 .. Len(list) :
          i < j => Score(list[i], Deduped(found)) >= Score(list[j], Deduped(found))

LEMMA UsableDescends ==
    ASSUME NEW found \in SUBSET Observation, IsFiniteSet(found)
    PROVE  Descends(Usable(found), found)
<1> DEFINE kept == Deduped(found)
           substantive == {f \in kept : ~IsMeta(f)}
           used == IF substantive = {} THEN kept ELSE substantive
           precedes == {p \in used \X used : Before(p[1], p[2], kept, found)}
           list == Ranked(used, precedes)
           n == Cardinality(used)
<1>1. used \in SUBSET kept /\ kept \in SUBSET found
  BY DEF Deduped
<1>2. Usable(found) = list
  BY DEF Usable
<1> HIDE DEF used
<1>3. IsFiniteSet(used)
  BY <1>1, FS_Subset
<1>4. Orders(precedes, used)
  BY <1>1, BeforeOrders
<1>5. \A x, y \in used : <<x, y>> \in precedes => Before(x, y, kept, found)
  OBVIOUS
<1> HIDE DEF precedes
<1>6. /\ n \in Nat /\ list \in [1 .. n -> used]
      /\ \A i, j \in 1 .. n : i < j => <<list[i], list[j]>> \in precedes
      /\ \A i, j \in 1 .. n : list[i] = list[j] => i = j
  BY <1>3, <1>4, RankedLists
<1> HIDE DEF list, n, kept
<1>7. list \in Seq(kept) /\ Len(list) = n
  BY <1>1, <1>6
<1>8. ASSUME NEW i \in 1 .. n, NEW j \in 1 .. n, i < j
      PROVE  Score(list[i], kept) >= Score(list[j], kept)
  <2>1. Before(list[i], list[j], kept, found)
    BY <1>5, <1>6, <1>8
  <2>2. list[i] \in Observation /\ list[j] \in Observation
    BY <1>1, <1>6
  <2>3. Score(list[i], kept) \in Int /\ Score(list[j], kept) \in Int
    BY <2>2, ScoreType
  <2> QED
    BY <2>1, <2>3 DEF Before
<1> QED
  BY <1>2, <1>6, <1>7, <1>8 DEF Descends, kept

LEMMA FirstOfIs ==
    ASSUME NEW S, NEW list \in Seq(S), NEW k \in Nat
    PROVE  /\ FirstOf(list, k) \in Seq(S)
           /\ Len(FirstOf(list, k)) \in 0 .. Len(list)
           /\ \A i \in 1 .. Len(FirstOf(list, k)) : FirstOf(list, k)[i] = list[i]
<1> DEFINE last == Min({k, Len(list)})
<1>1. Len(list) \in Nat /\ \A i \in 1 .. Len(list) : list[i] \in S
  BY LenProperties
<1>2. last \in {k, Len(list)} /\ last <= Len(list)
  <2>1. {k, Len(list)} \subseteq Nat /\ {k, Len(list)} # {} /\ Len(list) \in {k, Len(list)}
    BY <1>1
  <2> QED
    BY <2>1, NatMin
<1>3. last \in 0 .. Len(list)
  BY <1>1, <1>2
<1>4. FirstOf(list, k) = SubSeq(list, 1, last)
  BY DEF FirstOf
<1> HIDE DEF last
<1>5. \A i \in 1 .. last : list[i] \in S
  BY <1>1, <1>3
<1>6. /\ SubSeq(list, 1, last) \in Seq(S)
      /\ Len(SubSeq(list, 1, last)) = last
      /\ \A i \in 1 .. last : SubSeq(list, 1, last)[i] = list[i]
  BY <1>3, <1>5
<1> QED
  BY <1>3, <1>4, <1>6

LEMMA RemoveAtIs ==
    ASSUME NEW S, NEW list \in Seq(S), NEW p \in 1 .. Len(list)
    PROVE  /\ RemoveAt(list, p) \in Seq(S)
           /\ Len(RemoveAt(list, p)) = Len(list) - 1
           /\ \A i \in 1 .. Len(list) - 1 :
                 RemoveAt(list, p)[i] = IF i < p THEN list[i] ELSE list[i + 1]
<1> DEFINE before == SubSeq(list, 1, p - 1)
           after  == SubSeq(list, p + 1, Len(list))
           n      == Len(list)
<1>1. n \in Nat /\ p \in 1 .. n /\ \A i \in 1 .. n : list[i] \in S
  BY LenProperties
<1> HIDE DEF n
<1>2. /\ before \in Seq(S) /\ Len(before) = p - 1
      /\ \A i \in 1 .. p - 1 : before[i] = list[i]
  <2>1. \A i \in 1 .. p - 1 : list[i] \in S
    BY <1>1
  <2>2. /\ before \in Seq(S)
        /\ Len(before) = IF 1 <= p - 1 THEN p - 1 - 1 + 1 ELSE 0
        /\ \A i \in 1 .. p - 1 - 1 + 1 : before[i] = list[1 + i - 1]
    <3>1. 1 \in Int /\ p - 1 \in Int
      BY <1>1
    <3> QED
      BY <2>1, <3>1, SubSeqProperties
  <2> HIDE DEF before
  <2>3. p - 1 - 1 + 1 = p - 1 /\ \A i \in 1 .. p - 1 : 1 + i - 1 = i
    BY <1>1
  <2>4. (IF 1 <= p - 1 THEN p - 1 - 1 + 1 ELSE 0) = p - 1
    BY <1>1
  <2> QED
    BY <2>2, <2>3, <2>4
<1>3. /\ after \in Seq(S) /\ Len(after) = n - p
      /\ \A i \in 1 .. n - p : after[i] = list[p + i]
  <2>1. \A i \in p + 1 .. n : list[i] \in S
    BY <1>1
  <2>2. /\ after \in Seq(S)
        /\ Len(after) = IF p + 1 <= n THEN n - (p + 1) + 1 ELSE 0
        /\ \A i \in 1 .. n - (p + 1) + 1 : after[i] = list[p + 1 + i - 1]
    <3>1. p + 1 \in Int /\ n \in Int
      BY <1>1
    <3> QED
      BY <2>1, <3>1, SubSeqProperties DEF n
  <2> HIDE DEF after
  <2>3. n - (p + 1) + 1 = n - p /\ \A i \in 1 .. n - p : p + 1 + i - 1 = p + i
    BY <1>1
  <2>4. (IF p + 1 <= n THEN n - (p + 1) + 1 ELSE 0) = n - p
    BY <1>1
  <2> QED
    BY <2>2, <2>3, <2>4
<1>4. RemoveAt(list, p) = before \o after
  BY DEF RemoveAt
<1> HIDE DEF before, after
<1>5. /\ before \o after \in Seq(S)
      /\ Len(before \o after) = Len(before) + Len(after)
      /\ \A i \in 1 .. Len(before) + Len(after) :
            (before \o after)[i] = IF i <= Len(before) THEN before[i] ELSE after[i - Len(before)]
  BY <1>2, <1>3, ConcatProperties
<1>6. Len(before) + Len(after) = n - 1
  BY <1>1, <1>2, <1>3
<1>7. ASSUME NEW i \in 1 .. n - 1
      PROVE  (before \o after)[i] = IF i < p THEN list[i] ELSE list[i + 1]
  <2>1. CASE i < p
    <3>1. i <= p - 1 /\ i \in 1 .. p - 1
      BY <1>1, <2>1
    <3> QED
      BY <1>2, <1>5, <1>6, <2>1, <3>1
  <2>2. CASE ~(i < p)
    <3>1. ~(i <= p - 1) /\ i - (p - 1) \in 1 .. n - p /\ p + (i - (p - 1)) = i + 1
      BY <1>1, <2>2
    <3> QED
      BY <1>2, <1>3, <1>5, <1>6, <2>2, <3>1
  <2> QED
    BY <2>1, <2>2
<1> QED
  BY <1>4, <1>5, <1>6, <1>7 DEF n

\* The place of the i-th entry of the list of signals among the usable observations, when
\* the primary one is at p.
PlaceOf(p, i) == IF i = 1 THEN p ELSE IF i - 1 < p THEN i - 1 ELSE i

LEMMA SignalListIs ==
    ASSUME NEW S, NEW usable \in Seq(S), usable # <<>>
    PROVE  \E p \in 1 .. Len(usable) :
              LET signals == SignalList(usable)
              IN  /\ signals \in Seq(S) /\ Len(signals) \in 0 .. Len(usable)
                  /\ \A i \in 1 .. Len(signals) : signals[i] = usable[PlaceOf(p, i)]
<1> DEFINE p == PrimaryPlace(usable)
           n == Len(usable)
           rest == RemoveAt(usable, p)
           attention == FirstOf(rest, AttentionLimit)
           all == <<Primary(usable)>> \o attention
           signals == FirstOf(all, SignalLimit)
<1>1. n \in Nat /\ n > 0 /\ DOMAIN usable = 1 .. n /\ \A i \in 1 .. n : usable[i] \in S
  BY LenProperties
<1>2. AttentionLimit \in Nat /\ SignalLimit \in Nat
  BY FindingsAssumption
<1>3. p \in 1 .. n
  <2> DEFINE candidates == {i \in DOMAIN usable : PrimaryCandidate(usable[i])}
  <2>1. candidates \subseteq Nat /\ candidates \subseteq 1 .. n
    BY <1>1
  <2>2. p = IF candidates = {} THEN 1 ELSE Min(candidates)
    BY DEF PrimaryPlace
  <2> HIDE DEF candidates, p
  <2>3. candidates # {} => Min(candidates) \in candidates
    BY <2>1, NatMin
  <2> QED
    BY <1>1, <2>1, <2>2, <2>3
<1>4. SignalList(usable) = signals
  BY DEF SignalList, Attention
<1>5. Primary(usable) = usable[p]
  BY DEF Primary
<1> HIDE DEF p
<1>6. /\ rest \in Seq(S) /\ Len(rest) = n - 1
      /\ \A i \in 1 .. n - 1 : rest[i] = IF i < p THEN usable[i] ELSE usable[i + 1]
  BY <1>3, RemoveAtIs
<1> HIDE DEF rest
<1>7. /\ attention \in Seq(S) /\ Len(attention) \in 0 .. n - 1
      /\ \A i \in 1 .. Len(attention) : attention[i] = rest[i]
  BY <1>2, <1>6, FirstOfIs
<1> HIDE DEF attention
<1>8. /\ all \in Seq(S) /\ Len(all) = 1 + Len(attention)
      /\ all[1] = usable[p]
      /\ \A i \in 2 .. 1 + Len(attention) : all[i] = attention[i - 1]
  <2>1. <<Primary(usable)>> \in Seq(S) /\ Len(<<Primary(usable)>>) = 1
        /\ <<Primary(usable)>>[1] = usable[p]
    BY <1>1, <1>3, <1>5
  <2>2. /\ all \in Seq(S) /\ Len(all) = 1 + Len(attention)
        /\ \A i \in 1 .. 1 + Len(attention) :
              all[i] = IF i <= 1 THEN <<Primary(usable)>>[i] ELSE attention[i - 1]
    BY <1>7, <2>1, ConcatProperties
  <2> HIDE DEF all
  <2>3. Len(attention) \in Nat
    BY <1>7
  <2>4. 1 \in 1 .. 1 + Len(attention) /\ 1 <= 1
    BY <2>3
  <2>5. \A i \in 2 .. 1 + Len(attention) : i \in 1 .. 1 + Len(attention) /\ ~(i <= 1)
    BY <2>3
  <2> QED
    BY <2>1, <2>2, <2>4, <2>5
<1> HIDE DEF all
<1>9. /\ signals \in Seq(S) /\ Len(signals) \in 0 .. Len(all)
      /\ \A i \in 1 .. Len(signals) : signals[i] = all[i]
  BY <1>2, <1>8, FirstOfIs
<1> HIDE DEF signals
<1>10. Len(all) \in 1 .. n
  BY <1>1, <1>7, <1>8
<1>11. Len(signals) \in 0 .. n
  BY <1>9, <1>10
<1>12. ASSUME NEW i \in 1 .. Len(signals) PROVE signals[i] = usable[PlaceOf(p, i)]
  <2>1. CASE i = 1
    BY <1>8, <1>9, <2>1 DEF PlaceOf
  <2>2. CASE i # 1
    <3>1. /\ i \in 2 .. 1 + Len(attention)
          /\ i - 1 \in 1 .. Len(attention) /\ i - 1 \in 1 .. n - 1 /\ (i - 1) + 1 = i
      BY <1>1, <1>7, <1>8, <1>9, <2>2
    <3>2. signals[i] = rest[i - 1]
      BY <1>7, <1>8, <1>9, <3>1
    <3>3. rest[i - 1] = IF i - 1 < p THEN usable[i - 1] ELSE usable[i]
      BY <1>6, <3>1
    <3> QED
      BY <2>2, <3>2, <3>3 DEF PlaceOf
  <2> QED
    BY <2>1, <2>2
<1> QED
  BY <1>3, <1>4, <1>9, <1>11, <1>12 DEF n

-----------------------------------------------------------------------------
(* The evidence                                                            *)

LEMMA ClassifyIs ==
    ASSUME NEW n \in Nat
    PROVE  /\ Classify(n) \in {"insufficient", "early", "moderate", "strong"}
           /\ Classify(n) \in {"moderate", "strong"} => n >= MinMature
BY DEF Classify, MinMature, MinGroup

LEMMA LabLevelIs ==
    ASSUME NEW f \in Observation, f.m <= f.n
    PROVE  /\ LabLevel(f) = "high" => f.n >= MinMature
           /\ LabLevel(f) = "moderate" => Of(f).id = "process_improving" \/ f.n >= MinMature
           /\ LabLevel(f) \in {"insufficient", "low", "moderate", "high"}
<1>1. f.n \in Nat /\ f.m \in Nat
  BY ObservationIs
<1> QED
  BY <1>1 DEF LabLevel, MinMature

\* An observation called positive, supported or strongly evidenced rests on enough trades.
LEMMA StrongWordsNeedTrades ==
    ASSUME NEW f \in Observation, f.m <= f.n,
           \/ SignalStatus(f) = "positive"
           \/ Label(f) \in {"Supported", "Strong evidence"}
    PROVE  f.n >= MinMature
<1>1. f.n \in Nat /\ f.m \in Nat /\ LineIsPlain(Of(f))
  BY ObservationIs
<1>2. /\ Classify(f.n) \in {"insufficient", "early", "moderate", "strong"}
      /\ Classify(f.n) \in {"moderate", "strong"} => f.n >= MinMature
  BY <1>1, ClassifyIs
<1>3. /\ LabLevel(f) = "high" => f.n >= MinMature
      /\ LabLevel(f) = "moderate" => Of(f).id = "process_improving" \/ f.n >= MinMature
      /\ LabLevel(f) \in {"insufficient", "low", "moderate", "high"}
  BY LabLevelIs
<1>4. Strength(f) \in {"insufficient", "early", "moderate", "strong"}
  BY <1>2, <1>3 DEF Strength, StrengthFromLab
<1>5. Strength(f) = "strong" => f.n >= MinMature
  BY <1>2, <1>3 DEF Strength, StrengthFromLab
<1>6. Strength(f) = "moderate" => Of(f).id = "process_improving" \/ f.n >= MinMature
  BY <1>2, <1>3 DEF Strength, StrengthFromLab
<1>7. CASE SignalStatus(f) = "positive"
  <2>1. ~(Of(f).id = "process_improving")
    <3> SUFFICES ASSUME Of(f).id = "process_improving" PROVE FALSE
      OBVIOUS
    <3>1. Of(f).source = "lab" /\ Of(f).type = "CONSISTENCY" /\ Of(f).severity = "INFO"
      BY <1>1 DEF LineIsPlain
    <3> QED
      BY <1>7, <3>1 DEF SignalStatus, PositiveTone
  <2>2. Strength(f) \notin {"insufficient", "early"}
    BY <1>7 DEF SignalStatus
  <2> QED
    BY <1>4, <1>5, <1>6, <2>1, <2>2
<1>8. CASE Label(f) \in {"Supported", "Strong evidence"}
  <2>1. CASE Strength(f) = "moderate"
    BY <1>8, <2>1, Zenon DEF Label
  <2>2. CASE Strength(f) = "early"
    BY <1>8, <2>2, Zenon DEF Label
  <2>3. CASE Strength(f) = "insufficient"
    BY <1>8, <2>3, Zenon DEF Label
  <2> QED
    BY <1>4, <1>5, <2>1, <2>2, <2>3
<1> QED
  BY <1>7, <1>8

-----------------------------------------------------------------------------
(* The signals                                                             *)

\* What the sources report is an observation, judged by no more trades than it names.
RawInvariant ==
    /\ IsFiniteSet(raw)
    /\ raw \subseteq Observation
    /\ \A f \in raw : f.m <= f.n

LEMMA UnshownComesLater ==
    ASSUME NEW n \in Nat, NEW p \in 1 .. n, NEW k \in 0 .. n, NEW j \in 1 .. n,
           \A i \in 1 .. k : PlaceOf(p, i) # j,
           NEW i \in 2 .. k
    PROVE  PlaceOf(p, i) \in 1 .. n /\ PlaceOf(p, i) < j
<1> DEFINE at == IF j < p THEN j + 1 ELSE j
<1>1. j # p
  <2>1. 1 \in 1 .. k /\ PlaceOf(p, 1) = p
    BY DEF PlaceOf
  <2> QED
    BY <2>1
<1>2. at \in 2 .. n /\ PlaceOf(p, at) = j
  BY <1>1 DEF PlaceOf
<1>3. i < at
  BY <1>2
<1> QED
  BY <1>1, <1>3 DEF PlaceOf

LEMMA PlacesDiffer ==
    ASSUME NEW n \in Nat, NEW p \in 1 .. n, NEW k \in 0 .. n, NEW i \in 1 .. k, NEW j \in 1 .. k, i # j
    PROVE  /\ PlaceOf(p, i) \in 1 .. n /\ PlaceOf(p, j) \in 1 .. n
           /\ PlaceOf(p, i) # PlaceOf(p, j)
BY DEF PlaceOf

LEMMA PlacesExist ==
    ASSUME NEW n \in Nat, NEW p \in 1 .. n, NEW k \in 0 .. n, NEW i \in 1 .. k
    PROVE  PlaceOf(p, i) \in 1 .. n
BY DEF PlaceOf

LEMMA ReportsMakeHonestSignals ==
    ASSUME RawInvariant
    PROVE  SignalsAreHonest
<1> DEFINE usable == Usable(raw)
           kept == Deduped(raw)
           signals == SignalList(usable)
           n == Len(usable)
           k == Len(signals)
<1>1. raw \in SUBSET Observation /\ IsFiniteSet(raw) /\ kept \subseteq raw
  BY DEF RawInvariant, Deduped
<1>2. Descends(usable, raw)
  BY <1>1, UsableDescends
<1>3. /\ usable \in Seq(kept)
      /\ \A i, j \in 1 .. n : usable[i] = usable[j] => i = j
      /\ \A i, j \in 1 .. n : i < j => Score(usable[i], kept) >= Score(usable[j], kept)
  BY <1>2 DEF Descends
<1>4. \A f, g \in kept : f # g => Of(f).theme # Of(g).theme
  BY <1>1, OnePerTheme
<1>5. \A f \in kept : f \in Observation /\ f.m <= f.n
  BY <1>1 DEF RawInvariant
<1> HIDE DEF usable, kept
<1>6. n \in Nat /\ DOMAIN usable = 1 .. n /\ \A i \in 1 .. n : usable[i] \in kept
  BY <1>3
<1>7. CASE usable = <<>>
  <2>1. signals = <<>> /\ DOMAIN signals = {} /\ DOMAIN usable = {}
    BY <1>7 DEF SignalList
  <2>2. ToSet(usable) = {} /\ ToSet(signals) = {}
    BY <2>1 DEF ToSet
  <2> QED
    BY <2>1, <2>2 DEF SignalsAreHonest, usable
<1>8. CASE usable # <<>>
  <2>1. PICK p \in 1 .. n : /\ signals \in Seq(kept) /\ k \in 0 .. n
                            /\ \A i \in 1 .. k : signals[i] = usable[PlaceOf(p, i)]
    BY <1>3, <1>8, SignalListIs
  <2> HIDE DEF signals
  <2>2. DOMAIN signals = 1 .. k /\ \A i \in 1 .. k : signals[i] \in kept
    BY <2>1
  <2> HIDE DEF n, k
  <2>3. ASSUME NEW i \in 1 .. k, NEW j \in 1 .. k, i # j
        PROVE  Of(signals[i]).theme # Of(signals[j]).theme
    <3>1. /\ PlaceOf(p, i) \in 1 .. n /\ PlaceOf(p, j) \in 1 .. n
          /\ PlaceOf(p, i) # PlaceOf(p, j)
      BY <1>6, <2>1, <2>3, PlacesDiffer
    <3>2. signals[i] # signals[j]
      BY <1>3, <2>1, <3>1
    <3> QED
      BY <1>4, <2>2, <3>2
  <2>4. ASSUME NEW f \in ToSet(signals),
               SignalStatus(f) = "positive" \/ Label(f) \in {"Supported", "Strong evidence"}
        PROVE  f.n >= MinMature
    <3>1. ToSet(signals) \subseteq kept
      BY <2>2 DEF ToSet
    <3>2. f \in Observation /\ f.m <= f.n
      BY <1>5, <3>1
    <3> QED
      BY <2>4, <3>2, StrongWordsNeedTrades
  <2>5. ASSUME NEW f \in ToSet(usable) \ ToSet(signals), NEW i \in 1 .. k, i > 1
        PROVE  Score(signals[i], kept) >= Score(f, kept)
    <3>1. PICK j \in 1 .. n : f = usable[j]
      BY <1>6 DEF ToSet
    <3>2. \A h \in 1 .. k : PlaceOf(p, h) # j
      BY <2>1, <2>2, <3>1 DEF ToSet
    <3>3. i \in 2 .. k
      BY <2>5
    <3>4. PlaceOf(p, i) \in 1 .. n /\ PlaceOf(p, i) < j
      BY <1>6, <2>1, <3>2, <3>3, UnshownComesLater
    <3> QED
      BY <1>3, <2>1, <3>1, <3>4
  <2>6. /\ \A i, j \in DOMAIN signals : i # j => Of(signals[i]).theme # Of(signals[j]).theme
        /\ \A f \in ToSet(signals) :
              SignalStatus(f) = "positive" \/ Label(f) \in {"Supported", "Strong evidence"}
              => f.n >= MinMature
        /\ \A f \in ToSet(usable) \ ToSet(signals), i \in DOMAIN signals :
              i > 1 => Score(signals[i], kept) >= Score(f, kept)
    <3>1. DOMAIN signals = 1 .. k
      BY <2>2
    <3>2. \A i, j \in DOMAIN signals : i # j => Of(signals[i]).theme # Of(signals[j]).theme
      BY <2>3, <3>1, Zenon
    <3>3. \A f \in ToSet(signals) :
              SignalStatus(f) = "positive" \/ Label(f) \in {"Supported", "Strong evidence"}
              => f.n >= MinMature
      BY <2>4, Zenon
    <3>4. \A f \in ToSet(usable) \ ToSet(signals), i \in DOMAIN signals :
              i > 1 => Score(signals[i], kept) >= Score(f, kept)
      BY <2>5, <3>1, Zenon
    <3> QED
      BY <3>2, <3>3, <3>4
  <2> QED
    BY <2>6, Zenon DEF SignalsAreHonest, usable, signals, kept
<1> QED
  BY <1>7, <1>8

LEMMA RawInvariantInit ==
    ASSUME FindingsInit
    PROVE  RawInvariant
<1> DEFINE Alone(i) == [place |-> i, n |-> tradeCount, m |-> tradeCount]
           All == {Alone(i) : i \in DOMAIN Catalogue}
<1>1. raw \subseteq Observation
  BY DEF FindingsInit
<1>2. ASSUME NEW f \in raw
      PROVE  f.m <= f.n /\ f \in All
  <2>1. f \in Observation /\ Of(f).id = "sample_size" /\ Reportable(f)
    BY <1>2 DEF FindingsInit
  <2>2. /\ LineIsPlain(Of(f)) /\ f.place \in DOMAIN Catalogue /\ f.n \in Nat
        /\ f = [place |-> f.place, n |-> f.n, m |-> f.m]
    BY <2>1, ObservationIs
  <2>3. f.n = tradeCount
    BY <2>1, <2>2 DEF LineIsPlain, Reportable
  <2>4. f.m = f.n
    BY <2>1 DEF Reportable
  <2>5. f = Alone(f.place)
    BY <2>2, <2>3, <2>4
  <2> HIDE DEF Alone
  <2>6. f \in All
    BY <2>2, <2>5
  <2> QED
    BY <2>2, <2>4, <2>6
<1>3. IsFiniteSet(All)
  <2> DEFINE alone == [i \in DOMAIN Catalogue |-> Alone(i)]
  <2>1. alone \in [DOMAIN Catalogue -> All] /\ \A a \in All : \E i \in DOMAIN Catalogue : alone[i] = a
    OBVIOUS
  <2> HIDE DEF alone, All, Alone
  <2>2. alone \in Surjection(DOMAIN Catalogue, All)
    BY <2>1 DEF Surjection
  <2> QED
    BY <2>2, CatalogueIsPlain, FS_Surjection
<1>4. IsFiniteSet(raw)
  BY <1>2, <1>3, FS_Subset
<1> QED
  BY <1>1, <1>2, <1>4 DEF RawInvariant

LEMMA ReportableJudgesByLess ==
    ASSUME NEW f \in Observation, Reportable(f)
    PROVE  f.m <= f.n
<1>1. f.n \in Nat /\ f.m \in Nat
  BY ObservationIs
<1> QED
  BY <1>1 DEF Reportable

LEMMA RawInvariantStep ==
    ASSUME RawInvariant, [FindingsNext]_findingVars
    PROVE  RawInvariant'
<1>1. CASE UNCHANGED findingVars
  BY <1>1 DEF RawInvariant, findingVars
<1>2. ASSUME NEW news, Report(news), IsFiniteSet(news), news \subseteq Observation
      PROVE  RawInvariant'
  <2>1. raw' = raw \cup news /\ \A f \in news : Reportable(f)
    BY <1>2 DEF Report
  <2>2. \A f \in news : f.m <= f.n
    BY <1>2, <2>1, ReportableJudgesByLess
  <2>3. IsFiniteSet(raw \cup news)
    BY <1>2, FS_Union DEF RawInvariant
  <2> QED
    BY <1>2, <2>1, <2>2, <2>3 DEF RawInvariant
<1>3. CASE \E f \in Observation : Report({f})
  <2>1. PICK f \in Observation : Report({f})
    BY <1>3
  <2>2. IsFiniteSet({f})
    BY FS_Singleton
  <2> QED
    BY <1>2, <2>1, <2>2
<1>4. CASE \E news \in Companions : Report(news)
  <2>1. PICK news \in Companions : Report(news)
    BY <1>4
  <2>2. PICK fg \in Observation \X Observation : news = {fg[1], fg[2]}
    BY DEF Companions
  <2>3. news = {fg[1]} \cup {fg[2]} /\ news \subseteq Observation
    BY <2>2
  <2>4. IsFiniteSet(news)
    BY <2>3, FS_Singleton, FS_Union
  <2> QED
    BY <1>2, <2>1, <2>3, <2>4
<1> QED
  BY <1>1, <1>3, <1>4 DEF FindingsNext

\* Whatever the sources report: buildSignalList names a theme once, words nothing as strong
\* that rests on fewer than twenty trades, and leaves out nothing that scores higher than
\* a signal after the first.
THEOREM SignalsAlwaysHonest == FindingsSpec => []SignalsAreHonest
<1>1. FindingsInit => RawInvariant
  BY RawInvariantInit
<1>2. RawInvariant /\ [FindingsNext]_findingVars => RawInvariant'
  BY RawInvariantStep
<1>3. RawInvariant => SignalsAreHonest
  BY ReportsMakeHonestSignals
<1> QED
  BY <1>1, <1>2, <1>3, PTL DEF FindingsSpec

-----------------------------------------------------------------------------
(* The parts together                                                      *)

\* A behaviour of the terminal is one of every part.
THEOREM PartsKeepTheirSpecifications ==
    Spec => /\ SessionSpec /\ ViewSpec /\ Mt5Spec /\ PolicySpec /\ DrillSpec /\ EntrySpec
            /\ LabSpec /\ FindingsSpec /\ PulseSpec /\ ReportsSpec
<1>1. Init => /\ SessionInit /\ ViewInit /\ Mt5Init /\ PolicyInit /\ DrillInit /\ EntryInit
              /\ LabInit /\ FindingsInit /\ PulseInit /\ ReportsInit
  BY DEF Init
<1>2. [Next]_vars =>
        /\ [SessionNext]_sessionVars /\ [ViewNext]_viewVars /\ [Mt5Next]_mt5Vars
        /\ [PolicyNext]_policyVars /\ [DrillNext]_drillVars /\ [EntryNext]_entryVars
        /\ [LabNext]_labVars /\ [FindingsNext]_findingVars /\ [PulseNext]_pulseVars
        /\ [ReportsNext]_reportVars
  BY DEF Next, vars
<1> QED
  BY <1>1, <1>2, PTL DEF Spec, SessionSpec, ViewSpec, Mt5Spec, PolicySpec, DrillSpec, EntrySpec,
                         LabSpec, FindingsSpec, PulseSpec, ReportsSpec

\* The contents of the limits form stay a form of the candidates, whose amounts are numbers.
LEMMA CandidatesKept == Spec => [](part \in Parts /\ candidate \in Candidates)
<1>1. AnyForm \in Candidates
  <2> DEFINE ones == [risk |-> 1, hardCap |-> 1, personalDaily |-> 1, firmDaily |-> 1,
                      personalDrawdown |-> 1, firmDrawdown |-> 1, minRr |-> 1, preferredRr |-> 1]
  <2>1. ones \in Candidates /\ \A f \in DOMAIN ones : ones[f] = 1
    BY DEF Candidates, Amounts
  <2> QED
    BY <2>1 DEF AnyForm
<1>2. Init => part \in Parts /\ candidate \in Candidates
  BY <1>1 DEF Init
<1>3. part \in Parts /\ candidate \in Candidates /\ [Next]_vars
          => (part \in Parts /\ candidate \in Candidates)'
  BY DEF Next, vars
<1> QED
  BY <1>2, <1>3, PTL DEF Spec

LEMMA CandidatesArePolicies == Candidates \subseteq Policy
  BY DEF Candidates, Policy, Amounts, Blank

\* Of every form whose save the run tries: it passes exactly when the server stores it.
THEOREM CandidateFormsAgree == Spec => []CandidateFormAgrees
<1>1. candidate \in Candidates => CandidateFormAgrees
  BY CandidatesArePolicies, ValidationsAgree DEF CandidateFormAgrees
<1> QED
  BY <1>1, CandidatesKept, PTL

\* Of every form whose save the run tries: under the policy it passes, asking for less is
\* not refused where more is granted.
THEOREM CandidateGatesAreMonotone == Spec => []CandidateGateIsMonotone
<1>1. candidate \in Candidates => CandidateGateIsMonotone
  BY CandidatesArePolicies, GateIsMonotoneForAll DEF CandidateGateIsMonotone
<1> QED
  BY <1>1, CandidatesKept, PTL

-----------------------------------------------------------------------------
(* Type correctness of the terminal                                        *)

\* Whatever the sources report, it is about the book the page was opened with.
LEMMA FindingsTypeCorrect == FindingsSpec => []FindingsTypeOK
<1>1. FindingsInit => FindingsTypeOK
  BY DEF FindingsInit, FindingsTypeOK
<1>2. FindingsTypeOK /\ [FindingsNext]_findingVars => FindingsTypeOK'
  <2> SUFFICES ASSUME FindingsTypeOK, [FindingsNext]_findingVars PROVE FindingsTypeOK'
    OBVIOUS
  <2>1. ASSUME NEW news \in SUBSET Observation, Report(news) PROVE FindingsTypeOK'
    BY <2>1 DEF Report, FindingsTypeOK
  <2>2. \A f \in Observation : {f} \subseteq Observation
    OBVIOUS
  <2>3. \A news \in Companions : news \subseteq Observation
    BY DEF Companions
  <2>4. CASE UNCHANGED findingVars
    BY <2>4 DEF findingVars, FindingsTypeOK
  <2> QED
    BY <2>1, <2>2, <2>3, <2>4 DEF FindingsNext
<1> QED
  BY <1>1, <1>2, PTL DEF FindingsSpec

LEMMA ReportsTypeCorrect == ReportsSpec => []ReportsTypeOK
<1>1. ReportsInvariant => ReportsTypeOK
  BY DEF ReportsInvariant
<1> QED
  BY <1>1, ReportsStaySound, PTL

\* Every part of the terminal keeps the form the code gives its variables, whatever the
\* user, the server and the other tabs do.
THEOREM TerminalTypeCorrect == Spec => []TerminalTypeOK
<1>1. /\ part \in Parts /\ candidate \in Candidates
      /\ SessionTypeOK /\ ViewTypeOK /\ Mt5TypeOK /\ PolicyTypeOK /\ DrillTypeOK /\ EntryTypeOK
      /\ LabTypeOK /\ FindingsTypeOK /\ PulseTypeOK /\ ReportsTypeOK
      => TerminalTypeOK
  BY DEF TerminalTypeOK
<1> QED
  BY <1>1, PartsKeepTheirSpecifications, CandidatesKept, SessionTypeCorrect, ViewTypeCorrect,
     PanelTypeCorrect, PolicyTypeCorrect, DrillTypeCorrect, EntryTypeCorrect, LabTypeCorrect,
     FindingsTypeCorrect, PulseTypeCorrect, ReportsTypeCorrect, PTL
===============================================================================
