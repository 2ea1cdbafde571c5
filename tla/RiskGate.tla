------------------------------- MODULE RiskGate -------------------------------
(***************************************************************************)
(* The gate every new trade passes: what evaluate_submission makes of the  *)
(* risk planned for it, of the account's policy with its two enforcement   *)
(* modes, and of the day's losses.  Amounts are small numbers; a ratio of  *)
(* reward to risk below the minimum only adds a warning and is left out.   *)
(***************************************************************************)
EXTENDS RiskPolicy

EnforcementModes == {"warn", "confirm", "block"}
Strictness(mode) == CASE mode = "warn" -> 0 [] mode = "confirm" -> 1 [] mode = "block" -> 2

\* planned_risk_warning: above the hard cap, above the risk per trade, or neither.
PlannedRiskWarning(planned, p) ==
    IF p.hardCap # Blank /\ planned > p.hardCap THEN "hard"
    ELSE IF planned > p.risk THEN "soft" ELSE "none"

\* What a mode makes of a warning; a confirmation is asked for until it is given.
Enforced(mode, acknowledged) ==
    CASE mode = "block" -> "blocked"
      [] mode = "confirm" /\ ~acknowledged -> "confirm"
      [] OTHER -> "allowed"

\* Mutant: a hard warning that is acknowledged settles the matter.
SettledByHardWarning(s, p) ==
    LET warning == PlannedRiskWarning(s.planned, p)
    IN  IF warning = "hard" THEN Enforced(s.hard, s.acknowledged)
        ELSE IF s.halted THEN "blocked"
        ELSE IF warning = "soft" THEN Enforced(s.soft, s.acknowledged)
        ELSE "allowed"

\* s is a submission: the planned risk, the modes for the hard and the soft limit, whether a
\* loss or drawdown limit of the account is exceeded, whether warnings are acknowledged.
EvaluateSubmission(s, p) ==
    LET warning == PlannedRiskWarning(s.planned, p)
    IN  IF warning = "hard" /\ Enforced(s.hard, s.acknowledged) # "allowed"
        THEN Enforced(s.hard, s.acknowledged)
        ELSE IF s.halted THEN "blocked"
        ELSE IF warning = "soft" THEN Enforced(s.soft, s.acknowledged)
        ELSE "allowed"

Submissions == [planned : 0 .. 3, hard : EnforcementModes, soft : EnforcementModes,
                halted : BOOLEAN, acknowledged : BOOLEAN]

-----------------------------------------------------------------------------
(* Properties                                                              *)

\* The submissions that ask for at least what s asks for, from the same account, on no
\* better a day, with no more acknowledged.
Bolder(s) ==
    [planned : s.planned .. 3, hard : {s.hard}, soft : {s.soft},
     halted : {TRUE, s.halted}, acknowledged : {FALSE, s.acknowledged}]

\* Whatever policy the form lets through, the gate refuses nobody who asks for less than
\* what it lets pass: neither a smaller risk, nor a better day, nor an acknowledgement
\* turns an allowed trade into a refused one.  This takes a hard limit enforced at least
\* as strictly as the soft one: with "warn" above and "block" below, only the risk between
\* the two limits is blocked (evaluate_submission, planned_risk_warning).
GateIsMonotone(p) ==
    FormAccepts(p) =>
        \A s \in Submissions : Strictness(s.hard) >= Strictness(s.soft) =>
            \A t \in Bolder(s) :
                EvaluateSubmission(t, p) = "allowed" => EvaluateSubmission(s, p) = "allowed"
===============================================================================
