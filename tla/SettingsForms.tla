--------------------------- MODULE SettingsForms ---------------------------
(***************************************************************************)
(* The cards of the settings pages (ShopIdentityForm, ShopAgentForm,        *)
(* ShopDetailsForm, ProfileForm, AppearanceForm, AvatarForm), the server    *)
(* actions that save them and the rows the API keeps.                       *)
(*                                                                          *)
(* A field of a shop card is left to the browser: it starts from a default, *)
(* and the form is reset to its defaults when the action has answered.  An  *)
(* input and a box follow a default that changes; a select keeps the one it *)
(* was mounted with.  The fields of the profile and appearance cards, and   *)
(* the preview of a picture, are state of the component, and survive.       *)
(***************************************************************************)
EXTENDS Naturals, FiniteSets

CONSTANTS
  FieldValues, \* what a field may hold; "" is an empty field, an unticked list or the default accent
  System,      \* of which the theme that follows the device
  MaxSaves,    \* bound: saves of this card
  MaxOthers    \* bound: saves of the same card in another window

ASSUME SettingsAssumption ==
  "" \in FieldValues /\ System \in FieldValues \ {""} /\ MaxSaves \in Nat /\ MaxOthers \in Nat

VARIABLES
  savedRow,  \* the row of the database
  card,      \* the card of this window
  saves,     \* saves so far
  others     \* saves of the other window so far

settingsVars == <<savedRow, card, saves, others>>

Cards == {"identity", "agent", "details", "profile", "appearance", "avatar"}
ShopCards == {"identity", "agent", "details"}

(* One field stands for the fields of a card that are alike. *)
Fields(k) ==
  CASE k = "identity" -> {"name"}
    [] k = "agent" -> {"callLanguages", "confirmationProcess"}
    [] k = "details" -> {"sector", "deliveryZones"}
    [] k = "profile" -> {"name"}
    [] k = "appearance" -> {"accentColor", "themeMode"}
    [] k = "avatar" -> {"file"}

Required == {"name", "themeMode"}             \* the browser does not send an empty one
Selects == {"confirmationProcess", "sector"}  \* left out of the request when empty

CardRows(k) == {r \in [Fields(k) -> FieldValues] : \A f \in Fields(k) \cap Required : r[f] # ""}
Values(k) == UNION {[S -> FieldValues] : S \in SUBSET Fields(k)}
NoValues == [f \in {} |-> ""]

CardRecord(k) ==
  [kind : {k}, mounted : CardRows(k), given : CardRows(k), shows : [Fields(k) -> FieldValues], preview : BOOLEAN,
   stage : {"idle", "sent", "saved", "refused"}, sent : [Fields(k) -> FieldValues],
   values : Values(k), status : {"none", "saved", "refused"}, touched : BOOLEAN]

SettingsTypeOK ==
  /\ card \in CardRecord(card.kind) /\ savedRow \in CardRows(card.kind)
  /\ saves \in 0 .. MaxSaves /\ others \in 0 .. MaxOthers

(* AgentDto: at least one language. *)
ValidRow(row) == "callLanguages" \in DOMAIN row => row["callLanguages"] # ""

(* Bound: what is typed into a field; empty or not is all that is told apart of most. *)
Typable(f) == IF f \in Required THEN FieldValues ELSE {"", System}

(* Bound: the rows a card starts from, and what another window saves. *)
Usual(k) == {r \in CardRows(k) : ValidRow(r) /\ \A f \in Fields(k) : r[f] \in {"", System}}

SettingsInit ==
  \E k \in Cards :
    /\ savedRow \in Usual(k)
    /\ card = [kind |-> k, mounted |-> savedRow, given |-> savedRow, shows |-> savedRow,
               preview |-> FALSE, stage |-> "idle", sent |-> savedRow, values |-> NoValues,
               status |-> "none", touched |-> FALSE]
    /\ saves = 0 /\ others = 0

-----------------------------------------------------------------------------
(* What a card shows and sends *)

(* pick: what was typed when a save was refused, or else the shop as the page was rendered. *)
Pick(values, f, fallback) == IF f \in DOMAIN values THEN values[f] ELSE fallback

(* React sets the option a select is reset to once, when it is mounted. *)
ShowsDefaults(c) ==
  [f \in Fields(c.kind) |-> IF f \in Selects THEN c.mounted[f] ELSE Pick(c.values, f, c.given[f])]

(* text and optional: a select that is empty is not part of the request. *)
Body(c) == [f \in {g \in Fields(c.kind) : g \in Selects => c.shows[g] # ""} |-> c.shows[f]]

Changed(c) == c.shows # c.given

(* The button of the card, and the browser's own check of the form. *)
MaySubmit(c) ==
  /\ c.stage = "idle"
  /\ \A f \in Fields(c.kind) \cap Required : c.shows[f] # ""
  /\ c.kind \in {"profile", "appearance"} => Changed(c)

Sends(c) == [c EXCEPT !.stage = "sent", !.sent = c.shows, !.touched = FALSE]

-----------------------------------------------------------------------------
(* The merchant *)

(* An edit hides the result of the last save. *)
Type(f, x) ==
  /\ card.kind # "avatar" /\ x # card.shows[f]
  /\ saves < MaxSaves \/ card.stage # "idle"  \* bound: nothing is typed after the last save
  /\ card' = [card EXCEPT !.shows[f] = x, !.status = "none", !.touched = card.stage # "idle"]
  /\ UNCHANGED <<savedRow, saves, others>>

DefaultLook == [accentColor |-> "", themeMode |-> System]

(* AppearanceForm's "Reset to default": shown unless the default is picked already. *)
ResetAppearance ==
  /\ card.kind = "appearance" /\ card.shows # DefaultLook
  /\ card' = [card EXCEPT !.shows = DefaultLook, !.status = "none", !.touched = card.stage # "idle"]
  /\ UNCHANGED <<savedRow, saves, others>>

SaveCard ==
  /\ card.kind # "avatar" /\ MaySubmit(card) /\ saves < MaxSaves
  /\ card' = Sends(card)
  /\ saves' = saves + 1
  /\ UNCHANGED <<savedRow, others>>

(* AvatarForm: a picture that passes the check is previewed and sent at once. *)
PickPicture(x) ==
  /\ card.kind = "avatar" /\ card.stage = "idle" /\ saves < MaxSaves /\ x # ""
  /\ card' = Sends([card EXCEPT !.shows["file"] = x, !.preview = TRUE, !.status = "none"])
  /\ saves' = saves + 1
  /\ UNCHANGED <<savedRow, others>>

(* A picture of the wrong type or size is not sent; the stored one stays in place. *)
RefusePicture ==
  /\ card.kind = "avatar" /\ card.stage = "idle" /\ card.status # "none"
  /\ card' = [card EXCEPT !.status = "none"]
  /\ UNCHANGED <<savedRow, saves, others>>

RemovePicture ==
  /\ card.kind = "avatar" /\ card.stage = "idle" /\ saves < MaxSaves /\ card.given["file"] # ""
  /\ card' = Sends([card EXCEPT !.shows["file"] = ""])
  /\ saves' = saves + 1
  /\ UNCHANGED <<savedRow, others>>

-----------------------------------------------------------------------------
(* The API and the answer *)

(* A field that is not in the request is emptied. *)
Written(c) == [f \in Fields(c.kind) |-> IF f \in DOMAIN Body([c EXCEPT !.shows = c.sent]) THEN c.sent[f] ELSE ""]

AcceptSave ==
  /\ card.stage = "sent" /\ ValidRow(Written(card))
  /\ savedRow' = Written(card)
  /\ \E answer \in {"saved", "refused"} : card' = [card EXCEPT !.stage = answer] \* the answer may be lost
  /\ UNCHANGED <<saves, others>>

(* The API refuses the values, or too many requests, or cannot be reached. *)
RefuseSave ==
  /\ card.stage = "sent"
  /\ card' = [card EXCEPT !.stage = "refused"]
  /\ UNCHANGED <<savedRow, saves, others>>

(* The state the action returns: a refused save of the shop sends back what was typed. *)
ReturnedValues(c) ==
  IF c.stage = "refused" /\ c.kind \in ShopCards THEN Body([c EXCEPT !.shows = c.sent]) ELSE NoValues

(* A saved card comes with the page rendered anew.  A shop card is then reset; *)
(* the picture that was previewed makes room for the stored one.              *)
AfterAnswer(c, row) ==
  LET d == [c EXCEPT !.stage = "idle", !.status = c.stage, !.values = ReturnedValues(c),
                     !.given = IF c.stage = "saved" THEN row ELSE c.given]
  IN  CASE c.kind \in ShopCards -> [d EXCEPT !.shows = ShowsDefaults(d), !.touched = FALSE]
        [] c.kind = "avatar" -> [d EXCEPT !.shows = d.given, !.preview = FALSE]
        [] OTHER -> d

CardAnswers ==
  /\ card.stage \in {"saved", "refused"}
  /\ card' = AfterAnswer(card, savedRow)
  /\ UNCHANGED <<savedRow, saves, others>>

(* Another window saves the same card. *)
SavesElsewhere(row) ==
  /\ others < MaxOthers /\ others' = others + 1
  /\ row # savedRow /\ savedRow' = row
  /\ UNCHANGED <<card, saves>>

SettingsNext ==
  \/ \E f \in Fields(card.kind) : \E x \in Typable(f) : Type(f, x)
  \/ \E x \in FieldValues : PickPicture(x)
  \/ SaveCard \/ ResetAppearance \/ RefusePicture \/ RemovePicture \/ AcceptSave \/ RefuseSave \/ CardAnswers
  \/ \E row \in Usual(card.kind) : SavesElsewhere(row)

-----------------------------------------------------------------------------
(***************************************************************************)
(* What a card shows beside the result of its last save: under "saved", in  *)
(* every input and box, what the shop's row held when the page was rendered *)
(* for it; under a refusal, what the merchant had typed.  A picture that    *)
(* was refused is not shown.  It says nothing of a select, which goes back  *)
(* to the option it was mounted with whatever became of the save.           *)
(***************************************************************************)
CardTellsTheTruth ==
  ~card.touched /\ card.stage = "idle" =>
    /\ \A f \in Fields(card.kind) \ Selects :
         /\ card.status = "saved" /\ others = 0 => card.shows[f] = savedRow[f]
         /\ card.status = "refused" /\ card.kind # "avatar" => card.shows[f] = card.sent[f]
    /\ card.kind = "avatar" => card.shows = card.given /\ ~card.preview
=============================================================================
