------------------------------- MODULE Reports --------------------------------
(***************************************************************************)
(* The reports page: a period report, the AI interpretation beside it, and *)
(* the two buttons that ask for them, each disabled by flags of its own    *)
(* while the account can be changed in the shell.  A period (type, year,   *)
(* month or quarter) and an account are all that is kept of a report.      *)
(***************************************************************************)
EXTENDS Naturals

CONSTANTS ReportAccounts, Periods,
          NoReport,       \* nothing yet
          MaxReports      \* bound: reports and interpretations asked for

VARIABLES account,        \* getActiveAccountId
          report,         \* what the report on the page is about
          interpretation, \* what the interpretation on the page is about
          lastPeriod,     \* lastOpts
          generating,     \* the request generate waits for
          interpreting,   \* the request fetchInterpretation waits for
          reportLoading,  \* `loading` of the page
          aiLoading,
          moved,          \* the account has changed while something was loading
          reports         \* number of presses so far

reportVars == <<account, report, interpretation, lastPeriod, generating, interpreting,
                reportLoading, aiLoading, moved, reports>>

About == [account : ReportAccounts, period : Periods]
ASSUME ReportsAssumption == MaxReports \in Nat /\ NoReport \notin About
NoRequest == [kind |-> "none"]

ReportsTypeOK ==
    /\ account \in ReportAccounts
    /\ report \in About \cup {NoReport} /\ interpretation \in About \cup {NoReport}
    /\ lastPeriod \in Periods \cup {NoReport}
    /\ generating = NoRequest
         \/ generating \in [kind : {"interpret", "report"}, withAi : BOOLEAN, about : About]
    /\ interpreting = NoRequest \/ interpreting \in [kind : {"interpret"}, about : About]
    /\ reportLoading \in BOOLEAN /\ aiLoading \in BOOLEAN /\ moved \in BOOLEAN
    /\ reports \in 0 .. MaxReports

ReportsInit ==
    /\ account \in ReportAccounts
    /\ report = NoReport /\ interpretation = NoReport /\ lastPeriod = NoReport
    /\ generating = NoRequest /\ interpreting = NoRequest
    /\ reportLoading = FALSE /\ aiLoading = FALSE /\ moved = FALSE /\ reports = 0

\* onAccount in the shell; the page keeps what it shows.
ChangeAccount(a) ==
    /\ a # account
    /\ account' = a
    /\ moved' = (moved \/ reportLoading \/ aiLoading)
    /\ UNCHANGED <<report, interpretation, lastPeriod, generating, interpreting,
                   reportLoading, aiLoading, reports>>

\* Mutant: the interpretation stays until another one comes.
GenerateBeside(p, withAi) ==
    /\ ~reportLoading /\ ~aiLoading
    /\ reports < MaxReports /\ reports' = reports + 1
    /\ reportLoading' = TRUE /\ aiLoading' = withAi
    /\ lastPeriod' = p /\ moved' = FALSE
    /\ generating' = [kind |-> IF withAi THEN "interpret" ELSE "report", withAi |-> withAi,
                      about |-> [account |-> account, period |-> p]]
    /\ UNCHANGED <<account, report, interpretation, interpreting>>

\* generate, of a period with or without an interpretation; the old report stays on the
\* page, the old interpretation does not.
Generate(p, withAi) ==
    /\ ~reportLoading /\ ~aiLoading
    /\ reports < MaxReports /\ reports' = reports + 1
    /\ reportLoading' = TRUE /\ aiLoading' = withAi
    /\ interpretation' = NoReport /\ lastPeriod' = p /\ moved' = FALSE
    /\ generating' = [kind |-> IF withAi THEN "interpret" ELSE "report", withAi |-> withAi,
                      about |-> [account |-> account, period |-> p]]
    /\ UNCHANGED <<account, report, interpreting>>

\* The interpretation fails: the bare report is asked for instead, aiLoading goes on.
FallBack ==
    /\ generating.kind = "interpret"
    /\ generating' = [generating EXCEPT !.kind = "report"]
    /\ UNCHANGED <<account, report, interpretation, lastPeriod, interpreting, reportLoading,
                   aiLoading, moved, reports>>

\* The finally clauses of generate.
Generated ==
    /\ generating' = NoRequest /\ reportLoading' = FALSE
    /\ aiLoading' = (aiLoading /\ ~generating.withAi)

ReportArrives ==
    /\ generating # NoRequest
    /\ report' = generating.about
    /\ interpretation' = IF generating.kind = "interpret" THEN generating.about
                         ELSE interpretation
    /\ Generated
    /\ UNCHANGED <<account, lastPeriod, interpreting, moved, reports>>

ReportFails ==
    /\ generating.kind = "report"
    /\ report' = NoReport
    /\ Generated
    /\ UNCHANGED <<account, interpretation, lastPeriod, interpreting, moved, reports>>

\* regenerateAi: the button is on the report, and looks at aiLoading only.
Regenerate ==
    /\ report # NoReport /\ lastPeriod # NoReport /\ ~aiLoading
    /\ reports < MaxReports /\ reports' = reports + 1
    /\ aiLoading' = TRUE
    /\ interpreting' = [kind |-> "interpret",
                        about |-> [account |-> account, period |-> lastPeriod]]
    /\ UNCHANGED <<account, report, interpretation, lastPeriod, generating, reportLoading, moved>>

InterpretationArrives ==
    /\ interpreting # NoRequest
    /\ report' = interpreting.about /\ interpretation' = interpreting.about
    /\ interpreting' = NoRequest /\ aiLoading' = FALSE
    /\ UNCHANGED <<account, lastPeriod, generating, reportLoading, moved, reports>>

InterpretationFails ==
    /\ interpreting # NoRequest
    /\ interpreting' = NoRequest /\ aiLoading' = FALSE
    /\ UNCHANGED <<account, report, interpretation, lastPeriod, generating, reportLoading, moved,
                   reports>>

ReportsNext ==
    \/ \E a \in ReportAccounts : ChangeAccount(a)
    \/ \E p \in Periods, withAi \in BOOLEAN : Generate(p, withAi)
    \/ FallBack \/ ReportArrives \/ ReportFails
    \/ Regenerate \/ InterpretationArrives \/ InterpretationFails

ReportsSpec == ReportsInit /\ [][ReportsNext]_reportVars

-----------------------------------------------------------------------------
(* Properties                                                              *)

\* What stands beside a report interprets this report, whichever of the two buttons' requests
\* answers last, unless the account was changed while they were under way: generate asks
\* for the account of its press, Regenerate for the current one.  And once generate has
\* ended, the page shows no other period than the one asked for last.
InterpretationIsOfReport ==
    report # NoReport =>
        /\ ~moved /\ interpretation # NoReport => interpretation = report
        /\ ~reportLoading => report.period = lastPeriod
===============================================================================
