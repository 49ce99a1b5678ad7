----------------------------- MODULE OrderDesk -----------------------------
(***************************************************************************)
(* The forms of the order pages (NewOrderForm, CsvImportForm, EditableOrder, *)
(* CallNowButton, RetryCallButton) and the server actions they run, one form *)
(* at a time.                                                               *)
(*                                                                          *)
(* A form that ran an action is reset to its defaults by React when the     *)
(* action has answered, whatever the answer; what a component keeps in its  *)
(* own state, as the items of a new order or the name of the picked file,   *)
(* stays.  What is typed into a field is told apart by when it was typed.   *)
(***************************************************************************)
EXTENDS Naturals, Sequences, SequencesExt

CONSTANTS
  MaxTyped,  \* bound: how often something is typed into a field, or a file is picked, in any window
  MaxItems,  \* bound: items of an order
  MaxSends   \* bound: requests of the form

ASSUME DeskAssumption == MaxTyped \in Nat /\ MaxItems \in Nat \ {0} /\ MaxSends \in Nat

VARIABLES
  form,      \* the form in this window
  ask,       \* its request, and after the answer the last one
  facts,     \* the order as the page was rendered
  row,       \* the order in the database
  made,      \* how many orders came of each thing typed
  typed,     \* things typed so far
  sends      \* requests so far

deskVars == <<form, ask, facts, row, made, typed, sends>>

Forms == {"new", "import", "edit", "call", "retry"}

(* The fields left to the browser; the phone goes with the customer. *)
FormFields(k) ==
  CASE k = "new" -> {"customer"} [] k = "import" -> {"file"} [] k = "edit" -> {"customer", "total"}
    [] OTHER -> {}

Versions == 0 .. MaxTyped  \* 0: empty, or as the order was first stored
Entries(k) == [FormFields(k) -> Versions]
Untouched(k) == [f \in FormFields(k) |-> 0]
Products == {"", "p"}
NoItems == <<"">>  \* one empty line

DeskTypeOK ==
  /\ form \in [kind : Forms, open : BOOLEAN, fields : Entries(form.kind), named : BOOLEAN,
               items : UNION {[1 .. n -> Products] : n \in 1 .. MaxItems}, note : {"none", "error", "done"}]
  /\ ask \in [stage : {"none", "sent", "saved", "refused"}, fields : Entries(form.kind),
              mounted : BOOLEAN, alone : BOOLEAN]
  /\ facts \in [fields : Entries(form.kind), queued : BOOLEAN]
  /\ row \in [fields : Entries(form.kind), call : {"none", "pending", "ended"}]
  /\ made \in [Versions -> 0 .. MaxSends] /\ typed \in Versions /\ sends \in 0 .. MaxSends

Rendered(r) == [fields |-> r.fields, queued |-> r.call = "pending"]

DeskInit ==
  \E k \in Forms :
    /\ row = [fields |-> Untouched(k), call |-> IF k = "retry" THEN "ended" ELSE "none"]
    /\ facts = Rendered(row)
    /\ form = [kind |-> k, open |-> k \in {"call", "retry"}, fields |-> Untouched(k), named |-> FALSE,
               items |-> NoItems, note |-> "none"]
    /\ ask = [stage |-> "none", fields |-> Untouched(k), mounted |-> TRUE, alone |-> TRUE]
    /\ made = [v \in Versions |-> 0] /\ typed = 0 /\ sends = 0

-----------------------------------------------------------------------------
(* The merchant *)

Defaults == IF form.kind = "edit" THEN facts.fields ELSE Untouched(form.kind)

OpenForm ==
  /\ ~form.open
  /\ form' = [form EXCEPT !.open = TRUE, !.fields = Defaults, !.named = FALSE, !.items = NoItems]
  /\ UNCHANGED <<ask, facts, row, made, typed, sends>>

(* An edit cannot be left while it is saved; a dialog can be closed any time. *)
CloseForm ==
  /\ form.open /\ form.kind \in {"new", "import", "edit"}
  /\ form.kind = "edit" => ask.stage = "none"
  /\ form' = [form EXCEPT !.open = FALSE, !.fields = Untouched(form.kind), !.named = FALSE, !.items = NoItems]
  /\ ask' = [ask EXCEPT !.mounted = FALSE]
  /\ UNCHANGED <<facts, row, made, typed, sends>>

TypeField(f) ==
  /\ form.open /\ typed < MaxTyped
  /\ typed' = typed + 1
  /\ form' = [form EXCEPT !.fields[f] = typed', !.named = form.kind = "import"]
  /\ UNCHANGED <<ask, facts, row, made, sends>>

(* The file dialog was left without a file. *)
UnpickFile ==
  /\ form.kind = "import" /\ form.open /\ form.named
  /\ form' = [form EXCEPT !.fields["file"] = 0, !.named = FALSE]
  /\ UNCHANGED <<ask, facts, row, made, typed, sends>>

AddItem == Len(form.items) < MaxItems /\ form' = [form EXCEPT !.items = Append(@, "")]
DropItem(i) == Len(form.items) > 1 /\ form' = [form EXCEPT !.items = RemoveAt(@, i)]
NameItem(i, p) == form.items[i] # p /\ form' = [form EXCEPT !.items[i] = p]

ItemsChange ==
  /\ form.kind = "new" /\ form.open
  /\ AddItem \/ \E i \in DOMAIN form.items : DropItem(i) \/ \E p \in Products : NameItem(i, p)
  /\ UNCHANGED <<ask, facts, row, made, typed, sends>>

(* What disables the button, and the browser's check of the fields. *)
MaySend ==
  /\ form.open /\ ask.stage = "none"
  /\ form.kind = "new" => form.fields["customer"] # 0 /\ \A i \in DOMAIN form.items : form.items[i] # ""
  /\ form.kind = "import" => form.named
  /\ form.kind \in {"call", "retry"} => form.note # "done"
  /\ form.kind = "call" => ~facts.queued

SendForm ==
  /\ MaySend /\ sends < MaxSends
  /\ ask' = [stage |-> "sent", fields |-> form.fields, mounted |-> TRUE, alone |-> TRUE]
  /\ sends' = sends + 1
  /\ UNCHANGED <<form, facts, row, made, typed>>

-----------------------------------------------------------------------------
(* The server action, the API and the answer *)

(* The API takes the request; an answer that is lost reads as a refusal. *)
AskAccepted ==
  /\ ask.stage = "sent"
  /\ CASE form.kind = "new" -> made' = [made EXCEPT ![ask.fields["customer"]] = @ + 1] /\ UNCHANGED row
       [] form.kind = "import" ->
            /\ ask.fields["file"] # 0
            /\ made' = [made EXCEPT ![ask.fields["file"]] = @ + 1] /\ UNCHANGED row
       [] form.kind = "edit" -> row' = [row EXCEPT !.fields = ask.fields] /\ UNCHANGED made
       [] OTHER -> row.call # "pending" /\ row' = [row EXCEPT !.call = "pending"] /\ UNCHANGED made
  /\ \E answer \in {"saved", "refused"} : ask' = [ask EXCEPT !.stage = answer]
  /\ UNCHANGED <<form, facts, typed, sends>>

(* The values do not pass, no file came along, a call is pending, or the API cannot be reached. *)
AskRefused ==
  /\ ask.stage = "sent" /\ ask' = [ask EXCEPT !.stage = "refused"]
  /\ UNCHANGED <<form, facts, row, made, typed, sends>>

(* The state that the action returns: createOrder says nothing of a success. *)
NoteAfter == IF ask.stage = "refused" THEN "error" ELSE IF form.kind = "new" THEN "none" ELSE "done"

(* The effects of the components close a form that says it succeeded. *)
ClosesForm == form.kind \in {"new", "edit"} /\ NoteAfter = "done"

(* Mutated form: the fields are state of the component as well. *)
FieldsKept(fields) == fields

(* React resets the form that ran the action; one that was opened since keeps its fields. *)
FieldsAfter(fields) == IF ask.mounted THEN Defaults ELSE fields

AskAnswered ==
  /\ ask.stage \in {"saved", "refused"}
  /\ ask' = [ask EXCEPT !.stage = "none"]
  /\ facts' = IF ask.stage = "saved" THEN Rendered(row) ELSE facts
  /\ form' = [form EXCEPT !.note = NoteAfter, !.open = @ /\ ~ClosesForm,
                          !.fields = IF ClosesForm THEN Untouched(form.kind) ELSE FieldsAfter(@)]
  /\ UNCHANGED <<row, made, typed, sends>>

-----------------------------------------------------------------------------
(* Other windows, calls and live events *)

EditedElsewhere ==
  /\ form.kind = "edit" /\ typed < MaxTyped /\ typed' = typed + 1
  /\ row' = [row EXCEPT !.fields = [f \in FormFields("edit") |-> typed']]
  /\ ask' = [ask EXCEPT !.alone = FALSE]
  /\ UNCHANGED <<form, facts, made, sends>>

CallChanges ==
  /\ form.kind \in {"call", "retry"}
  /\ \E c \in {"pending", "ended"} \ {row.call} :
       (c = "ended" => row.call = "pending") /\ row' = [row EXCEPT !.call = c]
  /\ UNCHANGED <<form, ask, facts, made, typed, sends>>

(* A live event renders the page anew; a field nobody typed into follows. *)
PageFollows ==
  /\ facts # Rendered(row) /\ facts' = Rendered(row)
  /\ form' = [form EXCEPT !.fields =
       [f \in DOMAIN @ |-> IF form.open /\ @[f] = facts.fields[f] THEN row.fields[f] ELSE @[f]]]
  /\ UNCHANGED <<ask, row, made, typed, sends>>

DeskNext ==
  \/ OpenForm \/ CloseForm \/ UnpickFile \/ ItemsChange \/ SendForm
  \/ \E f \in FormFields(form.kind) : TypeField(f)
  \/ AskAccepted \/ AskRefused \/ AskAnswered
  \/ EditedElsewhere \/ CallChanges \/ PageFollows

-----------------------------------------------------------------------------
(***************************************************************************)
(* What was typed once becomes an order once, and a file that was picked    *)
(* once is imported once, though the dialog of a new order stays open after *)
(* a success and the import's keeps the name of the file.  An edit that was *)
(* saved, with nobody else saving, is what the page shows, if a live event  *)
(* or its own answer rendered it.                                           *)
(***************************************************************************)
DeskSendsOnce ==
  /\ \A v \in Versions : made[v] <= 1
  /\ form.kind = "edit" /\ form.note = "done" /\ ask.stage = "none" /\ ask.alone =>
       row.fields = ask.fields /\ facts.fields = row.fields
=============================================================================
