------------------------------ MODULE TradeEntry ------------------------------
(***************************************************************************)
(* The trade form in its three modes, create, edit and close, and what the *)
(* API does with a save: the live preview of the risk policy that enables  *)
(* the Save button, the policy gate of the server, the save, the upload of *)
(* the chart images after it, and what the form does when one of these     *)
(* fails.  The contents of the form are abstracted to the verdict the      *)
(* policy gives on them.                                                   *)
(***************************************************************************)
EXTENDS Naturals

CONSTANTS MaxPresses,   \* bound: presses of the Save button
          MaxEdits      \* bound: edits of the form, and changes of the account's state

ASSUME EntryAssumption == MaxPresses \in Nat /\ MaxEdits \in Nat

VARIABLES mode,         \* TradeFormMode
          verdict,      \* what the policy says on the form's contents, now
          preview,      \* the last preview's answer
          previews,     \* preview answers in flight
          ticked,       \* every required item of the checklist is ticked
          ack,          \* "I acknowledge the policy warning" is ticked
          told,         \* the error line
          step,         \* how far the form is
          chosen,       \* the images picked
          entryStored,  \* entry images stored for this trade
          status,       \* the trade on the server
          created,      \* trades this form has created
          closings,     \* closings of the trade
          warning,      \* the upload warning kept for the trade page
          retrying,     \* the last press followed the request to pick the image again
          lost,         \* the answer to a save that was carried out has been lost
          presses, edits

entryVars == <<mode, verdict, preview, previews, ticked, ack, told, step, chosen, entryStored,
               status, created, closings, warning, retrying, lost, presses, edits>>

Modes == {"create", "edit", "close"}
Verdicts == {"allowed", "confirm", "blocked"}
Messages == {"none", "confirm", "blocked", "conflict", "upload", "unable"}
FormSteps == {"editing", "saving", "entry_image", "exit_image", "left"}

EntryTypeOK ==
    /\ mode \in Modes /\ verdict \in Verdicts
    /\ preview \in Verdicts \cup {"none"} /\ previews \subseteq Verdicts
    /\ ticked \in BOOLEAN /\ ack \in BOOLEAN /\ warning \in BOOLEAN
    /\ retrying \in BOOLEAN /\ lost \in BOOLEAN
    /\ told \in Messages /\ step \in FormSteps
    /\ chosen \subseteq {"entry", "exit"} /\ entryStored \in 0 .. MaxPresses
    /\ status \in {"none", "open", "closed"}
    /\ created \in 0 .. MaxPresses /\ closings \in Nat
    /\ presses \in 0 .. MaxPresses /\ edits \in 0 .. MaxEdits

\* The close page opens for a trade that is not closed; the edit page for any.
EntryInit ==
    /\ mode \in Modes
    /\ status \in CASE mode = "create" -> {"none"} [] mode = "edit" -> {"open", "closed"}
                    [] mode = "close" -> {"open"}
    /\ verdict = "allowed" /\ preview = "none" /\ previews = {}
    /\ ticked = FALSE /\ ack = FALSE /\ told = "none" /\ step = "editing" /\ chosen = {}
    /\ entryStored = 0 /\ created = 0 /\ closings = 0
    /\ warning = FALSE /\ retrying = FALSE /\ lost = FALSE /\ presses = 0 /\ edits = 0

-----------------------------------------------------------------------------
(* The form                                                                *)

\* processCheckStatus: a block beats an unticked item, which beats a warning.
CheckStatus ==
    IF preview = "blocked" THEN "blocked"
    ELSE IF ~ticked THEN "incomplete"
    ELSE IF preview = "confirm" THEN "warning"
    ELSE "valid"
HardBlocked == mode # "close" /\ CheckStatus = "blocked"

\* The user changes a price, the size, the symbol or the account; or another trade of the
\* account changes what the policy says.
Reconsider(v) ==
    /\ step \in {"editing", "saving"} /\ mode # "close"
    /\ edits < MaxEdits /\ edits' = edits + 1
    /\ v # verdict /\ verdict' = v
    /\ UNCHANGED <<mode, preview, previews, ticked, ack, told, step, chosen, entryStored, status,
                   created, closings, warning, retrying, lost, presses>>

\* The form asks for a preview of its contents, 180 ms after the last edit.
AskPreview ==
    /\ step = "editing" /\ mode # "close"
    /\ previews' = previews \cup {verdict}
    /\ UNCHANGED <<mode, verdict, preview, ticked, ack, told, step, chosen, entryStored, status,
                   created, closings, warning, retrying, lost, presses, edits>>

\* A preview arrives, of whichever edit; or fails, and the form forgets the last one.
SeePreview(v) ==
    /\ v \in previews /\ previews' = previews \ {v}
    /\ preview' \in {v, "none"}
    /\ UNCHANGED <<mode, verdict, ticked, ack, told, step, chosen, entryStored, status, created,
                   closings, warning, retrying, lost, presses, edits>>

\* Ticking the checklist; the box of the acknowledgement, offered while a confirmation is
\* asked for and kept when it no longer is; picking an image.
TickChecklist ==
    /\ step = "editing" /\ ~ticked /\ ticked' = TRUE
    /\ UNCHANGED <<mode, verdict, preview, previews, ack, told, step, chosen, entryStored, status,
                   created, closings, warning, retrying, lost, presses, edits>>
Acknowledge ==
    /\ step = "editing" /\ mode # "close"
    /\ told = "confirm" \/ preview = "confirm"
    /\ ack' = ~ack
    /\ UNCHANGED <<mode, verdict, preview, previews, ticked, told, step, chosen, entryStored,
                   status, created, closings, warning, retrying, lost, presses, edits>>
PickImage(image) ==
    /\ step = "editing"
    /\ image \notin chosen /\ (mode = "close" => image = "exit")
    /\ chosen' = chosen \cup {image}
    /\ UNCHANGED <<mode, verdict, preview, previews, ticked, ack, told, step, entryStored, status,
                   created, closings, warning, retrying, lost, presses, edits>>

\* submit: the button is disabled while busy and for a blocked preview.
Submit ==
    /\ step = "editing" /\ ~HardBlocked
    /\ presses < MaxPresses /\ presses' = presses + 1
    /\ step' = "saving"
    /\ retrying' = (told = "upload") /\ told' = "none"
    /\ UNCHANGED <<mode, verdict, preview, previews, ticked, ack, chosen, entryStored, status,
                   created, closings, warning, lost, edits>>

-----------------------------------------------------------------------------
(* The save                                                                *)

\* create_trade's gate, update_trade, close_trade.
Refusal ==
    CASE mode = "create" /\ verdict = "blocked" -> "blocked"
      [] mode = "create" /\ verdict = "confirm" /\ ~ack -> "confirm"
      [] mode = "close" /\ status = "closed" -> "conflict"
      [] OTHER -> "none"

CarryOut ==
    /\ created' = IF mode = "create" THEN created + 1 ELSE created
    /\ closings' = IF mode = "close" THEN closings + 1 ELSE closings
    /\ status' = CASE mode = "create" -> "open" [] mode = "close" -> "closed"
                   [] mode = "edit" -> status

\* After a save the images are uploaded one after the other; then the trade page opens.
AfterSave == IF "entry" \in chosen THEN "entry_image"
             ELSE IF "exit" \in chosen THEN "exit_image" ELSE "left"

Saved ==
    /\ step = "saving" /\ Refusal = "none"
    /\ CarryOut
    /\ step' = AfterSave
    /\ UNCHANGED <<mode, verdict, preview, previews, ticked, ack, told, chosen, entryStored,
                   warning, retrying, lost, presses, edits>>

Refused ==
    /\ step = "saving" /\ Refusal # "none"
    /\ step' = "editing" /\ told' = Refusal
    /\ UNCHANGED <<mode, verdict, preview, previews, ticked, ack, chosen, entryStored, status,
                   created, closings, warning, retrying, lost, presses, edits>>

\* The network fails before the API has done its work, or after.
SaveLost ==
    /\ step = "saving"
    /\ step' = "editing" /\ told' = "unable"
    /\ \/ UNCHANGED <<created, closings, status, lost>>
       \/ Refusal = "none" /\ CarryOut /\ lost' = TRUE
    /\ UNCHANGED <<mode, verdict, preview, previews, ticked, ack, chosen, entryStored, warning,
                   retrying, presses, edits>>

Upload ==
    /\ step \in {"entry_image", "exit_image"}
    /\ entryStored' = IF step = "entry_image" THEN entryStored + 1 ELSE entryStored
    /\ step' = IF step = "entry_image" /\ "exit" \in chosen THEN "exit_image" ELSE "left"
    /\ UNCHANGED <<mode, verdict, preview, previews, ticked, ack, told, chosen, status, created,
                   closings, warning, retrying, lost, presses, edits>>

\* Mutant: a new trade's form stays as well.
UploadFailsAndStays ==
    /\ step \in {"entry_image", "exit_image"}
    /\ step' = "editing" /\ told' = "upload"
    /\ UNCHANGED <<mode, verdict, preview, previews, ticked, ack, chosen, entryStored, status,
                   created, closings, warning, retrying, lost, presses, edits>>

\* Too large, not an image, the storage fails.  Edit and close stay and ask to save again;
\* a new trade is left with a warning for its page, lest it be created twice.
UploadFails ==
    /\ step \in {"entry_image", "exit_image"}
    /\ IF mode = "create" THEN step' = "left" /\ warning' = TRUE /\ UNCHANGED told
       ELSE step' = "editing" /\ told' = "upload" /\ UNCHANGED warning
    /\ UNCHANGED <<mode, verdict, preview, previews, ticked, ack, chosen, entryStored, status,
                   created, closings, retrying, lost, presses, edits>>

\* consumeUploadWarning on the trade page.
ReadWarning ==
    /\ step = "left" /\ warning
    /\ warning' = FALSE
    /\ UNCHANGED <<mode, verdict, preview, previews, ticked, ack, told, step, chosen, entryStored,
                   status, created, closings, retrying, lost, presses, edits>>

\* A sync closes the trade, or the user reopens it by an edit in another tab.
ChangeElsewhere ==
    /\ mode # "create" /\ step \in {"editing", "saving"} /\ edits < MaxEdits
    /\ edits' = edits + 1
    /\ status' = IF status = "open" THEN "closed" ELSE "open"
    /\ UNCHANGED <<mode, verdict, preview, previews, ticked, ack, told, step, chosen, entryStored,
                   created, closings, warning, retrying, lost, presses>>

EntryNext ==
    \/ \E v \in Verdicts : Reconsider(v) \/ SeePreview(v)
    \/ \E image \in {"entry", "exit"} : PickImage(image)
    \/ AskPreview \/ TickChecklist \/ Acknowledge \/ Submit
    \/ Saved \/ Refused \/ SaveLost \/ Upload \/ UploadFails \/ ReadWarning \/ ChangeElsewhere

EntrySpec == EntryInit /\ [][EntryNext]_entryVars

-----------------------------------------------------------------------------
(* Properties                                                              *)

\* While the form for a new trade is on the screen nothing has been journaled by it, so
\* that pressing Save again is safe whatever the error line says, unless the answer of a
\* save was lost; and it leaves with exactly one trade, also when an image failed.
OpenFormHasJournaledNothing ==
    mode = "create" /\ ~lost =>
        created = IF step \in {"editing", "saving"} THEN 0 ELSE 1

\* TradeForm.tsx:383 tells after a failed upload, "Trade saved, but chart upload failed:
\* ... Pick the image again and save.": the save it asks for is not refused.
UploadCanBeRetried ==
    retrying => told # "conflict"
==============================================================================
