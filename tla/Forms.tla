-------------------------------- MODULE Forms --------------------------------
(***************************************************************************)
(* The forms of the app side by side, as a merchant has them open: a card   *)
(* of the settings, a form of the order pages and the studio of the Voice   *)
(* Lab.  They share no state.                                               *)
(***************************************************************************)
EXTENDS SettingsForms, OrderDesk, VoiceLab

formsVars == <<settingsVars, deskVars, labVars>>

FormsInit == SettingsInit /\ DeskInit /\ LabInit

FormsNext ==
  \/ SettingsNext /\ UNCHANGED <<deskVars, labVars>>
  \/ DeskNext /\ UNCHANGED <<settingsVars, labVars>>
  \/ LabNext /\ UNCHANGED <<settingsVars, deskVars>>

FormsSpec == FormsInit /\ [][FormsNext]_formsVars

-----------------------------------------------------------------------------
(***************************************************************************)
(* What the forms of the app say and send is what was meant: a settings     *)
(* card tells the truth of its last save, the order pages send once what    *)
(* was typed once, and the studio of the Voice Lab tells of one call.       *)
(***************************************************************************)
FormsKeepTheirWord == CardTellsTheTruth /\ DeskSendsOnce /\ StudioTellsOneCall
=============================================================================
