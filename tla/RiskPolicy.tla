------------------------------ MODULE RiskPolicy ------------------------------
(***************************************************************************)
(* The risk limits of the accounts: the limits page, its form, and the     *)
(* risk profile on the server.  A profile is abstracted to one rule the    *)
(* form shows (`limit`: risk per trade, daily loss...) and one it does not *)
(* (`payout`: profit split, payout cap), which an account created through  *)
(* the API has.  The second half compares the form's own validation with   *)
(* the server's, over all profiles of small amounts.                       *)
(***************************************************************************)
EXTENDS Naturals

CONSTANTS PolicyAccounts,   \* the accounts of the user
          Limits,           \* values of the rule the form shows
          NoPayout,         \* the hidden rule, not set
          Payout,           \* the hidden rule, as the account was created with it
          MaxSaves          \* bound: loads and saves

ASSUME PolicyAssumption == MaxSaves \in Nat /\ Limits # {}

VARIABLES profiles,   \* the risk profile of each account, on the server
          page,       \* the account on the page, once loaded
          form,       \* the profile in the form
          saved,      \* the form says "saved and reloaded from your account"
          saving,     \* the save in flight: its account and step
          turned,     \* the page has shown an account anew since the save was pressed
          answers,    \* page loads in flight
          saves       \* loads and saves so far

policyVars == <<profiles, page, form, saved, saving, turned, answers, saves>>

Profile == [limit : Limits, payout : {Payout, NoPayout}]
NotLoaded == "nothing"
NotSaving == [step |-> "none"]

PolicyTypeOK ==
    /\ profiles \in [PolicyAccounts -> Profile]
    /\ page \in PolicyAccounts \cup {NotLoaded}
    /\ form \in Profile
    /\ saved \in BOOLEAN /\ turned \in BOOLEAN
    /\ saving = NotSaving
         \/ saving \in [step : {"put"}, account : PolicyAccounts, limit : Limits]
         \/ saving \in [step : {"get"}, account : PolicyAccounts]
         \/ saving \in [step : {"got"}, profile : Profile]
    /\ answers \subseteq [account : PolicyAccounts, profile : Profile]
    /\ saves \in 0 .. MaxSaves

PolicyInit ==
    /\ profiles \in [PolicyAccounts -> [limit : Limits, payout : {Payout}]]
    /\ page = NotLoaded
    /\ form = [limit |-> CHOOSE l \in Limits : TRUE, payout |-> NoPayout]
    /\ saved = FALSE /\ turned = FALSE
    /\ saving = NotSaving /\ answers = {} /\ saves = 0

\* The page loads the account selected in the shell; loads answer in any order.
LoadAccount(a) ==
    /\ saves < MaxSaves /\ saves' = saves + 1
    /\ answers' = answers \cup {[account |-> a, profile |-> profiles[a]]}
    /\ UNCHANGED <<profiles, page, form, saved, saving, turned>>

\* setAccount, and the form's effect on its new `initial` profile.  The notice stays.
ShowAccount(r) ==
    /\ answers' = answers \ {r}
    /\ page' = r.account
    /\ form' = r.profile /\ turned' = TRUE
    /\ UNCHANGED <<profiles, saved, saving, saves>>

\* The user types into a field of the form, also while a save is in flight.
EditLimit(l) ==
    /\ page # NotLoaded /\ form.limit # l
    /\ form' = [form EXCEPT !.limit = l] /\ saved' = FALSE
    /\ UNCHANGED <<profiles, page, saving, turned, answers, saves>>

\* onSave of a form that validatePolicy refuses.
RefuseForm ==
    /\ page # NotLoaded /\ saving = NotSaving
    /\ saved' = FALSE
    /\ UNCHANGED <<profiles, page, form, saving, turned, answers, saves>>

\* onSave of a valid form: the button is disabled until it ends.  The payload holds the
\* fields of the form.
Save ==
    /\ page # NotLoaded /\ saving = NotSaving
    /\ saves < MaxSaves /\ saves' = saves + 1
    /\ saving' = [step |-> "put", account |-> page, limit |-> form.limit]
    /\ saved' = FALSE /\ turned' = FALSE
    /\ UNCHANGED <<profiles, page, form, answers>>

\* Mutant: the columns the payload has not are lost.
PutPayload ==
    /\ saving.step = "put"
    /\ profiles' = [profiles EXCEPT ![saving.account] = [limit |-> saving.limit]]
    /\ saving' = [step |-> "get", account |-> saving.account]
    /\ UNCHANGED <<page, form, saved, turned, answers, saves>>

\* update_risk_profile sets every column of the profile, to its default where the payload
\* has none.
PutProfile ==
    /\ saving.step = "put"
    /\ profiles' = [profiles EXCEPT ![saving.account] =
                      [limit |-> saving.limit, payout |-> NoPayout]]
    /\ saving' = [step |-> "get", account |-> saving.account]
    /\ UNCHANGED <<page, form, saved, turned, answers, saves>>

\* The form asks for the record it has saved.
GetProfile ==
    /\ saving.step = "get"
    /\ saving' = [step |-> "got", profile |-> profiles[saving.account]]
    /\ UNCHANGED <<profiles, page, form, saved, turned, answers, saves>>

\* Mutant: the answer only ends the save.
ReadBackUnused ==
    /\ saving.step = "got"
    /\ saved' = TRUE
    /\ saving' = NotSaving
    /\ UNCHANGED <<profiles, page, form, turned, answers, saves>>

\* The record read back fills the form, whichever account the page shows by now, over
\* whatever was typed meanwhile.
ReadBack ==
    /\ saving.step = "got"
    /\ form' = saving.profile /\ saved' = TRUE
    /\ saving' = NotSaving
    /\ UNCHANGED <<profiles, page, turned, answers, saves>>

\* The save fails, before or after the server has done its part: an error line; what was
\* typed stays.
SaveFails ==
    /\ saving # NotSaving
    /\ saving' = NotSaving
    /\ UNCHANGED <<profiles, page, form, saved, turned, answers, saves>>

PolicyNext ==
    \/ \E a \in PolicyAccounts : LoadAccount(a)
    \/ \E r \in answers : ShowAccount(r)
    \/ \E l \in Limits : EditLimit(l)
    \/ RefuseForm \/ Save \/ PutProfile \/ GetProfile \/ ReadBack \/ SaveFails

PolicySpec == PolicyInit /\ [][PolicyNext]_policyVars

-----------------------------------------------------------------------------
(* Validation.  An amount is 0, 1, 2..., or Blank.                         *)

Blank == 99
Positive(v) == v # Blank /\ v > 0

\* Mutant: a daily limit may equal the firm's.
FormAcceptsEqual(p) ==
    /\ Positive(p.risk) /\ Positive(p.personalDaily) /\ Positive(p.personalDrawdown)
    /\ Positive(p.firmDrawdown) /\ Positive(p.minRr) /\ Positive(p.preferredRr)
    /\ p.hardCap = Blank \/ (p.hardCap > 0 /\ p.risk < p.hardCap)
    /\ p.personalDrawdown < p.firmDrawdown
    /\ (p.firmDaily # Blank /\ p.firmDaily > 0) => p.personalDaily <= p.firmDaily
    /\ p.preferredRr >= p.minRr

\* validatePolicy of the form.
FormAccepts(p) ==
    /\ Positive(p.risk) /\ Positive(p.personalDaily) /\ Positive(p.personalDrawdown)
    /\ Positive(p.firmDrawdown) /\ Positive(p.minRr) /\ Positive(p.preferredRr)
    /\ p.hardCap = Blank \/ (p.hardCap > 0 /\ p.risk < p.hardCap)
    /\ p.personalDrawdown < p.firmDrawdown
    /\ (p.firmDaily # Blank /\ p.firmDaily > 0) => p.personalDaily < p.firmDaily
    /\ p.preferredRr >= p.minRr

\* The payload: a blank or zero firm daily limit is sent as 0, "no limit".
Payload(p) == [p EXCEPT !.firmDaily = IF @ = Blank THEN 0 ELSE @]

\* RiskProfileIn on the server.
ServerAccepts(p) ==
    /\ p.risk > 0 /\ p.personalDaily > 0 /\ p.personalDrawdown > 0 /\ p.firmDaily >= 0
    /\ p.firmDrawdown > 0 /\ p.minRr > 0 /\ p.preferredRr > 0
    /\ p.hardCap # Blank => p.risk < p.hardCap
    /\ p.personalDrawdown < p.firmDrawdown
    /\ p.firmDaily > 0 => p.personalDaily < p.firmDaily
    /\ p.preferredRr >= p.minRr

Amounts == {0, 1, 2, Blank}
Candidates == [risk : Amounts, hardCap : Amounts, personalDaily : Amounts, firmDaily : Amounts,
               personalDrawdown : Amounts, firmDrawdown : Amounts, minRr : {1, 2},
               preferredRr : {1, 2}]

-----------------------------------------------------------------------------
(* Properties                                                              *)

\* "Risk limits saved and reloaded from your account": while the form says so it shows
\* what the server holds for the account of the page, hidden rules included and whatever
\* was typed during the save, as long as the page has not shown an account anew.
SavedFormIsStored == saved /\ ~turned => form = profiles[page]

\* The form lets pass exactly the policies the server stores: no valid policy is held
\* back, and none is sent to be refused.
FormAgreesWithServer(p) ==
    LET sendable == \A f \in DOMAIN p \ {"hardCap", "firmDaily"} : p[f] # Blank
    IN FormAccepts(p) <=> sendable /\ ServerAccepts(Payload(p))
==============================================================================
