----------------------------- MODULE MCTerminal -----------------------------
(***************************************************************************)
(* The parts of the browser terminal for TLC.  They live on different      *)
(* pages and share no state but the server's, which each models as far as  *)
(* it needs: a behaviour therefore exercises one part, chosen at the start *)
(* with the view, the form or the account the part is about, while the     *)
(* others stay as they begin.                                              *)
(***************************************************************************)
EXTENDS FrontendSession, ViewLoads, Mt5Panel, RiskGate, Drilldown, TradeEntry, MarketLab,
        Findings, MarketPulse, Reports, TLC

VARIABLES part,       \* the part of the terminal in use
          candidate   \* the contents of a limits form about to be saved

Parts == {"session", "view", "mt5", "limits", "drilldown", "entry", "lab", "findings",
          "pulse", "reports"}

AnySubject == CHOOSE s \in Subjects : TRUE
AnyForm == CHOOSE p \in Candidates : \A f \in DOMAIN p : p[f] = 1

Init ==
    /\ part \in Parts
    /\ SessionInit
    /\ ViewInit
    /\ part # "view" => view = DashboardPage /\ selected = AnySubject
    /\ Mt5Init
    /\ part # "mt5" => row = NoRow
    /\ PolicyInit
    /\ part # "limits" => \A a \in PolicyAccounts : profiles[a].limit = form.limit
    /\ candidate \in IF part = "limits" THEN Candidates ELSE {AnyForm}
    /\ DrillInit
    /\ part # "drilldown" => closed = Trades
    /\ EntryInit
    /\ part # "entry" => mode = "create"
    /\ LabInit
    /\ FindingsInit
    /\ part # "findings" => tradeCount = CHOOSE n \in Samples : n >= 5
    /\ PulseInit
    /\ ReportsInit
    /\ part # "reports" => account = CHOOSE a \in ReportAccounts : TRUE

Next ==
    /\ UNCHANGED <<part, candidate>>
    /\ IF part = "session" THEN SessionNext ELSE UNCHANGED sessionVars
    /\ IF part = "view" THEN ViewNext ELSE UNCHANGED viewVars
    /\ IF part = "mt5" THEN Mt5Next ELSE UNCHANGED mt5Vars
    /\ IF part = "limits" /\ candidate = AnyForm THEN PolicyNext ELSE UNCHANGED policyVars
    /\ IF part = "drilldown" THEN DrillNext ELSE UNCHANGED drillVars
    /\ IF part = "entry" THEN EntryNext ELSE UNCHANGED entryVars
    /\ IF part = "lab" THEN LabNext ELSE UNCHANGED labVars
    /\ IF part = "findings" THEN FindingsNext ELSE UNCHANGED findingVars
    /\ IF part = "pulse" THEN PulseNext ELSE UNCHANGED pulseVars
    /\ IF part = "reports" THEN ReportsNext ELSE UNCHANGED reportVars

vars == <<part, candidate, sessionVars, viewVars, mt5Vars, policyVars, drillVars, entryVars,
          labVars, findingVars, pulseVars, reportVars>>
Spec == Init /\ [][Next]_vars

Symmetry == Permutations(Users)

\* Type correctness of the part in use: each variable keeps the form the code gives it.
TerminalTypeOK ==
    /\ part \in Parts /\ candidate \in Candidates
    /\ part = "session" => SessionTypeOK
    /\ part = "view" => ViewTypeOK
    /\ part = "mt5" => Mt5TypeOK
    /\ part = "limits" => PolicyTypeOK
    /\ part = "drilldown" => DrillTypeOK
    /\ part = "entry" => EntryTypeOK
    /\ part = "lab" => LabTypeOK
    /\ part = "findings" => FindingsTypeOK
    /\ part = "pulse" => PulseTypeOK
    /\ part = "reports" => ReportsTypeOK

\* Whatever is typed, the limits form lets through exactly what the server stores without
\* an error (validatePolicy in RiskPolicyForm.tsx, RiskProfileIn and
\* update_risk_profile).
CandidateFormAgrees == FormAgreesWithServer(candidate)

\* Under every policy the limits form lets through, who asks the risk gate for less is not
\* refused what more is granted (evaluate_submission).
CandidateGateIsMonotone == GateIsMonotone(candidate)
=============================================================================
