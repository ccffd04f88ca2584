-------------------------------- MODULE WebApp --------------------------------
(* The pages of the web interface together with what is typed into them.    *)
EXTENDS SettingsEditor, FormFields

(* What either form lets through is converted without an exception, and the *)
(* server accepts it but for what the browser cannot know (validateStep and *)
(* toBootstrapPayload, validateSettings and valuesToSettings, against       *)
(* config.ValidateSettings); what the wizard lets through the editor does.  *)
ValidatedIsAccepted ==
  /\ Shows("/bootstrap") => WizardIsAccepted
  /\ OnSettings => EditorIsAccepted

(* What was saved can be edited: the settings stored from a form, shown in  *)
(* the editor, are valid there, convert to what is stored, and do not count *)
(* as a change of the logger (settingsToValues, loggerIdentityChanged).     *)
StoredIsEditable == OnSettings => StoredReopens

(* A refusal of the server is shown at a field that the refused check looks *)
(* at, on the step of the wizard that has this field (serverFieldError,     *)
(* stepForField), whatever was sent.                                        *)
RefusalAtItsField == Shows("/bootstrap") => RefusalsPlaced

(* The two forms, the server and the conversions between them agree.        *)
FormsAgree == ValidatedIsAccepted /\ StoredIsEditable /\ RefusalAtItsField

(* What the page sends: each form once, and with the token of its session.  *)
RequestsSound == TypeOK /\ OneSubmission /\ TokenReplaced

(* What the editor shows: the user's edits, and the changes of others only. *)
EditorHonest == EditsKept /\ ConflictIsForeign

(* Getting in ends: every page comes to rest, every form can be used again, *)
(* and nobody is kept in a wizard that is closed.                           *)
AccessProgress == AccessSettles /\ FormUsable /\ LoserLeavesWizard

(* Editing goes on: every change is noticed and every save ends. *)
EditorProgress == ChangeNoticed /\ SaveEnds
=============================================================================
