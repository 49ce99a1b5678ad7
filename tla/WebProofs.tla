------------------------------ MODULE WebProofs ------------------------------
(***************************************************************************)
(* The parts around the calls, composed: the runs of WebSpec are runs of     *)
(* every part, so what was proved of a part holds of the composition, also   *)
(* where somebody is registered from the start.  The invariants of the parts *)
(* hold together, and imply the types once those of the forms are added.     *)
(***************************************************************************)
EXTENDS MC_Web, AccountProofs, AgentProofs, FigureProofs, ScreenProofs, ImportProofs

-----------------------------------------------------------------------------
(* The types of a card of the settings *)

(* A required field is never empty in the row, nor in what was sent. *)
Filled(t) == \A f \in Fields(card.kind) \cap Required : t[f] # ""

CardTypes ==
  /\ CardInv /\ card.preview \in BOOLEAN /\ card.values \in Values(card.kind)
  /\ Filled(card.mounted) /\ Filled(card.given) /\ Filled(savedRow) /\ (card.stage # "idle" => Filled(card.sent))
  /\ saves \in 0 .. MaxSaves /\ others \in 0 .. MaxOthers

LEMMA SettingsBounds == MaxSaves \in Nat /\ MaxOthers \in Nat
  BY SettingsAssumption

(* With the required fields filled, a card has its type. *)
LEMMA CardHasType == CardTypes => SettingsTypeOK
<1> SUFFICES ASSUME CardTypes PROVE SettingsTypeOK
  OBVIOUS
<1>1. CardShape(card) /\ savedRow \in Texts(card.kind)
  BY DEF CardTypes, CardInv
<1>2. card.mounted \in CardRows(card.kind) /\ card.given \in CardRows(card.kind) /\ savedRow \in CardRows(card.kind)
  BY <1>1 DEF CardTypes, Filled, CardRows, CardShape, Texts
<1>3. card \in CardRecord(card.kind)
  BY <1>1, <1>2 DEF CardTypes, CardRecord, CardShape, Texts
<1> QED BY <1>2, <1>3 DEF CardTypes, SettingsTypeOK

LEMMA NoValuesAreValues == \A k : NoValues \in Values(k)
<1> SUFFICES ASSUME NEW k PROVE NoValues \in Values(k)
  OBVIOUS
<1>1. NoValues \in [{} -> FieldValues]
  BY DEF NoValues
<1>2. {} \in SUBSET Fields(k)
  OBVIOUS
<1> QED BY <1>1, <1>2 DEF Values

(* A card opens with a row that has its required fields. *)
LEMMA CardTypesStart == SettingsInit => CardTypes
<1> SUFFICES ASSUME SettingsInit PROVE CardTypes
  OBVIOUS
<1>1. PICK k \in Cards :
        /\ savedRow \in Usual(k)
        /\ card = [kind |-> k, mounted |-> savedRow, given |-> savedRow, shows |-> savedRow,
                   preview |-> FALSE, stage |-> "idle", sent |-> savedRow, values |-> NoValues, status |-> "none", touched |-> FALSE]
  BY DEF SettingsInit
<1>2. card.kind = k /\ card.mounted = savedRow /\ card.given = savedRow /\ card.preview = FALSE /\ card.values = NoValues /\ card.stage = "idle"
  BY <1>1
<1>3. \A f \in Fields(k) \cap Required : savedRow[f] # ""
  BY <1>1 DEF Usual, CardRows
<1>4. saves \in 0 .. MaxSaves /\ others \in 0 .. MaxOthers
  BY SettingsBounds DEF SettingsInit
<1> QED BY <1>2, <1>3, <1>4, CardsStart, NoValuesAreValues DEF CardTypes, Filled

(* The card that an answer leaves. *)
LEMMA AnswerHasType ==
  ASSUME NEW c, CardShape(c), NEW r, c.stage \in {"saved", "refused"}, c.preview \in BOOLEAN
  PROVE  AfterAnswer(c, r).values \in Values(c.kind) /\ AfterAnswer(c, r).preview \in BOOLEAN
<1>1. /\ c.kind \in Cards /\ c.sent \in Texts(c.kind)
      /\ c = [kind |-> c.kind, mounted |-> c.mounted, given |-> c.given, shows |-> c.shows, preview |-> c.preview, stage |-> c.stage,
              sent |-> c.sent, values |-> c.values, status |-> c.status, touched |-> c.touched]
  BY DEF CardShape
<1>2. PICK g : g = IF c.stage = "saved" THEN r ELSE c.given
  OBVIOUS
<1>3. PICK vals : vals = ReturnedValues(c)
  OBVIOUS
<1>4. vals \in Values(c.kind)
  <2>1. CASE c.stage = "refused" /\ c.kind \in ShopCards
    <3>1. PICK b : b = [c EXCEPT !.shows = c.sent]
      OBVIOUS
    <3>2. b.kind = c.kind /\ b.shows = c.sent
      BY <1>1, <3>1
    <3>3. vals = Body(b)
      BY <1>3, <2>1, <3>1 DEF ReturnedValues
    <3>4. PICK S \in SUBSET Fields(c.kind) : S = {x \in Fields(c.kind) : x \in Selects => c.sent[x] # ""}
      OBVIOUS
    <3>5. vals = [x \in S |-> c.sent[x]]
      BY <3>2, <3>3, <3>4 DEF Body
    <3>6. \A x \in S : c.sent[x] \in FieldValues
      BY <1>1 DEF Texts
    <3>7. vals \in [S -> FieldValues]
      BY <3>5, <3>6
    <3> QED BY <3>7 DEF Values
  <2>2. CASE ~(c.stage = "refused" /\ c.kind \in ShopCards)
    BY <1>3, <2>2, NoValuesAreValues DEF ReturnedValues
  <2> QED BY <2>1, <2>2
<1>5. PICK d : d = [c EXCEPT !.stage = "idle", !.status = c.stage, !.values = ReturnedValues(c),
                             !.given = IF c.stage = "saved" THEN r ELSE c.given]
  OBVIOUS
<1>6. d = [kind |-> c.kind, mounted |-> c.mounted, given |-> g, shows |-> c.shows, preview |-> c.preview, stage |-> "idle",
           sent |-> c.sent, values |-> vals, status |-> c.stage, touched |-> c.touched]
  BY <1>1, <1>2, <1>3, <1>5
<1>7. PICK e : e = AfterAnswer(c, r)
  OBVIOUS
<1>8. e = CASE c.kind \in ShopCards -> [d EXCEPT !.shows = ShowsDefaults(d), !.touched = FALSE]
            [] c.kind = "avatar" -> [d EXCEPT !.shows = d.given, !.preview = FALSE]
            [] OTHER -> d
  BY <1>5, <1>7 DEF AfterAnswer
<1>9. e.values = vals /\ e.preview \in BOOLEAN
  <2>1. CASE c.kind \in ShopCards
    <3>1. PICK sh : sh = ShowsDefaults(d)
      OBVIOUS
    <3>2. e = [d EXCEPT !.shows = sh, !.touched = FALSE]
      BY <1>8, <2>1, <3>1 DEF ShopCards
    <3> QED BY <1>6, <3>2
  <2>2. CASE c.kind = "avatar"
    <3>1. e = [d EXCEPT !.shows = d.given, !.preview = FALSE]
      BY <1>8, <2>2 DEF ShopCards
    <3> QED BY <1>6, <3>1
  <2>3. CASE c.kind \notin ShopCards /\ c.kind # "avatar"
    BY <1>6, <1>8, <2>3
  <2> QED BY <2>1, <2>2, <2>3
<1> QED BY <1>4, <1>7, <1>9

(* Every step of a card keeps its types. *)
LEMMA CardTypesKept == CardTypes /\ [SettingsNext]_settingsVars => CardTypes'
<1> SUFFICES ASSUME CardTypes, [SettingsNext]_settingsVars PROVE CardTypes'
  OBVIOUS
<1>1. /\ CardShape(card) /\ savedRow \in Texts(card.kind) /\ card.preview \in BOOLEAN /\ card.values \in Values(card.kind)
      /\ Filled(card.mounted) /\ Filled(card.given) /\ Filled(savedRow) /\ (card.stage # "idle" => Filled(card.sent))
      /\ saves \in 0 .. MaxSaves /\ others \in 0 .. MaxOthers
  BY DEF CardTypes, CardInv
<1>2. card = [kind |-> card.kind, mounted |-> card.mounted, given |-> card.given, shows |-> card.shows, preview |-> card.preview,
              stage |-> card.stage, sent |-> card.sent, values |-> card.values, status |-> card.status,
              touched |-> card.touched]
  BY <1>1 DEF CardShape
<1>3. CardInv'
  BY CardsKept DEF CardTypes
<1>4. SUFFICES /\ card'.preview \in BOOLEAN /\ card'.values \in Values(card'.kind)
               /\ Filled(card.mounted)' /\ Filled(card.given)' /\ Filled(savedRow)' /\ (card'.stage # "idle" => Filled(card.sent)')
               /\ saves' \in 0 .. MaxSaves /\ others' \in 0 .. MaxOthers
  BY <1>3 DEF CardTypes
<1>5. MaxSaves \in Nat /\ MaxOthers \in Nat /\ saves \in Nat /\ others \in Nat
  BY <1>1, SettingsBounds
<1>6. CASE UNCHANGED settingsVars
  BY <1>1, <1>6 DEF settingsVars, Filled
<1>7. CASE (\E f \in Fields(card.kind) : \E x \in Typable(f) : Type(f, x)) \/ ResetAppearance \/ RefusePicture
  <2>1. PICK t, s, w : card' = [card EXCEPT !.shows = t, !.status = s, !.touched = w]
    <3>1. CASE \E f \in Fields(card.kind) : \E x \in Typable(f) : Type(f, x)
      <4>0. PICK f \in Fields(card.kind) : \E x \in Typable(f) : Type(f, x)
        BY <3>1
      <4>1. PICK x \in Typable(f) : Type(f, x)
        BY <4>0
      <4>2. card' = [card EXCEPT !.shows = [card.shows EXCEPT ![f] = x], !.status = "none", !.touched = card.stage # "idle"]
        BY <1>2, <4>1 DEF Type
      <4> QED BY <4>2
    <3>2. CASE ResetAppearance
      BY <3>2 DEF ResetAppearance
    <3>3. CASE RefusePicture
      <4>1. card' = [card EXCEPT !.shows = card.shows, !.status = "none", !.touched = card.touched]
        BY <1>2, <3>3 DEF RefusePicture
      <4> QED BY <4>1
    <3> QED BY <1>7, <3>1, <3>2, <3>3
  <2>2. /\ card'.kind = card.kind /\ card'.mounted = card.mounted /\ card'.given = card.given /\ card'.preview = card.preview
        /\ card'.values = card.values /\ card'.stage = card.stage /\ card'.sent = card.sent
    BY <1>2, <2>1
  <2>3. UNCHANGED <<savedRow, saves, others>>
    BY <1>7 DEF Type, ResetAppearance, RefusePicture
  <2> QED BY <1>1, <2>2, <2>3 DEF Filled
<1>8. CASE (\E x \in FieldValues : PickPicture(x)) \/ SaveCard \/ RemovePicture
  <2>1. PICK c : /\ card' = Sends(c) /\ c = [kind |-> card.kind, mounted |-> card.mounted, given |-> card.given, shows |-> c.shows,
                      preview |-> c.preview, stage |-> card.stage, sent |-> card.sent, values |-> card.values,
                      status |-> c.status, touched |-> card.touched]
                 /\ c.preview \in BOOLEAN /\ (card.kind # "avatar" => c = card)
    <3>1. CASE SaveCard
      BY <1>1, <1>2, <3>1 DEF SaveCard
    <3>2. CASE \E x \in FieldValues : PickPicture(x)
      <4>1. PICK x \in FieldValues : PickPicture(x)
        BY <3>2
      <4>2. PICK c : c = [card EXCEPT !.shows["file"] = x, !.preview = TRUE, !.status = "none"]
        OBVIOUS
      <4>3. c = [kind |-> card.kind, mounted |-> card.mounted, given |-> card.given, shows |-> [card.shows EXCEPT !["file"] = x], preview |-> TRUE,
                 stage |-> card.stage, sent |-> card.sent, values |-> card.values, status |-> "none",
                 touched |-> card.touched]
        BY <1>2, <4>2
      <4> QED BY <4>1, <4>2, <4>3 DEF PickPicture
    <3>3. CASE RemovePicture
      <4>1. PICK c : c = [card EXCEPT !.shows["file"] = ""]
        OBVIOUS
      <4>2. c = [kind |-> card.kind, mounted |-> card.mounted, given |-> card.given, shows |-> [card.shows EXCEPT !["file"] = ""],
                 preview |-> card.preview, stage |-> card.stage, sent |-> card.sent, values |-> card.values,
                 status |-> card.status, touched |-> card.touched]
        BY <1>2, <4>1
      <4> QED BY <1>1, <3>3, <4>1, <4>2 DEF RemovePicture
    <3> QED BY <1>8, <3>1, <3>2, <3>3
  <2>2. card' = [kind |-> card.kind, mounted |-> card.mounted, given |-> card.given, shows |-> c.shows, preview |-> c.preview, stage |-> "sent",
                 sent |-> c.shows, values |-> card.values, status |-> c.status, touched |-> FALSE]
    <3>1. card' = [c EXCEPT !.stage = "sent", !.sent = c.shows, !.touched = FALSE]
      BY <2>1 DEF Sends
    <3>2. PICK sh, pv, st : sh = c.shows /\ pv = c.preview /\ st = c.status
      OBVIOUS
    <3>3. c = [kind |-> card.kind, mounted |-> card.mounted, given |-> card.given, shows |-> sh, preview |-> pv, stage |-> card.stage,
               sent |-> card.sent, values |-> card.values, status |-> st, touched |-> card.touched]
      BY <2>1, <3>2
    <3>4. card' = [c EXCEPT !.stage = "sent", !.sent = sh, !.touched = FALSE]
      BY <3>1, <3>2
    <3>5. card' = [kind |-> card.kind, mounted |-> card.mounted, given |-> card.given, shows |-> sh, preview |-> pv, stage |-> "sent",
                   sent |-> sh, values |-> card.values, status |-> st, touched |-> FALSE]
      BY <3>3, <3>4
    <3> QED BY <3>2, <3>5
  <2>3. /\ card'.kind = card.kind /\ card'.mounted = card.mounted /\ card'.given = card.given /\ card'.preview = c.preview
        /\ card'.values = card.values /\ card'.sent = c.shows
    BY <2>2
  <2>4. \A f \in Fields(card.kind) \cap Required : c.shows[f] # ""
    <3>1. CASE card.kind = "avatar"
      BY <3>1 DEF Fields, Required
    <3>2. CASE card.kind # "avatar"
      BY <1>8, <2>1, <3>2 DEF SaveCard, PickPicture, RemovePicture, MaySubmit
    <3> QED BY <3>1, <3>2
  <2>5. savedRow' = savedRow /\ others' = others /\ saves' = saves + 1 /\ saves < MaxSaves
    BY <1>8 DEF SaveCard, PickPicture, RemovePicture
  <2>6. Filled(card.mounted)' /\ Filled(card.given)' /\ Filled(savedRow)' /\ Filled(card.sent)'
    BY <1>1, <2>3, <2>4, <2>5 DEF Filled
  <2>7. saves' \in 0 .. MaxSaves /\ others' \in 0 .. MaxOthers
    BY <1>1, <1>5, <2>5
  <2> QED BY <1>1, <2>1, <2>3, <2>6, <2>7
<1>9. CASE AcceptSave \/ RefuseSave
  <2>1. PICK answer \in {"saved", "refused"} :
          /\ card' = [card EXCEPT !.stage = answer] /\ others' = others /\ saves' = saves /\ card.stage = "sent"
          /\ savedRow' = savedRow \/ savedRow' = Written(card)
    BY <1>9 DEF AcceptSave, RefuseSave
  <2>2. Written(card) = card.sent
    BY <1>1, WrittenAsSent
  <2>3. /\ card'.kind = card.kind /\ card'.mounted = card.mounted /\ card'.given = card.given /\ card'.preview = card.preview
        /\ card'.values = card.values /\ card'.sent = card.sent
    BY <1>2, <2>1
  <2>4. Filled(card.sent)
    BY <1>1, <2>1
  <2> QED BY <1>1, <2>1, <2>2, <2>3, <2>4 DEF Filled
<1>10. CASE CardAnswers
  <2>1. card.stage \in {"saved", "refused"} /\ card' = AfterAnswer(card, savedRow) /\ UNCHANGED <<savedRow, saves, others>>
    BY <1>10 DEF CardAnswers
  <2>2. card'.values \in Values(card.kind) /\ card'.preview \in BOOLEAN
    BY <1>1, <2>1, AnswerHasType
  <2>3. /\ card'.kind = card.kind /\ card'.stage = "idle"
        /\ card'.given = (IF card.stage = "saved" THEN savedRow ELSE card.given) /\ card'.mounted = card.mounted
    BY <1>1, <2>1, AnswerToCard
  <2> QED BY <1>1, <2>1, <2>2, <2>3 DEF Filled
<1>11. CASE \E r \in Usual(card.kind) : SavesElsewhere(r)
  <2>1. PICK r \in Usual(card.kind) : SavesElsewhere(r)
    BY <1>11
  <2>2. savedRow' = r /\ UNCHANGED <<card, saves>> /\ others' = others + 1 /\ others < MaxOthers
    BY <2>1 DEF SavesElsewhere
  <2>3. Filled(r)
    BY DEF Usual, CardRows, Filled
  <2>4. Filled(card.mounted)' /\ Filled(card.given)' /\ Filled(savedRow)' /\ (card'.stage # "idle" => Filled(card.sent)')
    BY <1>1, <2>2, <2>3 DEF Filled
  <2>5. saves' \in 0 .. MaxSaves /\ others' \in 0 .. MaxOthers
    BY <1>1, <1>5, <2>2
  <2> QED BY <1>1, <2>2, <2>4, <2>5
<1> QED BY <1>6, <1>7, <1>8, <1>9, <1>10, <1>11 DEF SettingsNext

-----------------------------------------------------------------------------
(* The types of a form of the order pages *)

(* The items of a new order: at least one line, at most as many as the bound. *)
Items == UNION {[1 .. n -> Products] : n \in 1 .. MaxItems}

(* The items are a sequence no longer than the bound, and the sequences up to the bound are items. *)
LEMMA ItemsLength ==
  ASSUME NEW s \in Items
  PROVE  Len(s) \in 1 .. MaxItems /\ s \in [1 .. Len(s) -> Products] /\ s \in Seq(Products)
<1>1. PICK n \in 1 .. MaxItems : s \in [1 .. n -> Products]
  BY DEF Items
<1>2. n \in Nat
  BY DeskAssumption
<1>3. s \in Seq(Products) /\ Len(s) = n
  BY <1>1, <1>2
<1> QED BY <1>1, <1>3

LEMMA OfLength ==
  ASSUME NEW s \in Seq(Products), Len(s) \in 1 .. MaxItems
  PROVE  s \in Items
<1>1. s \in [1 .. Len(s) -> Products]
  OBVIOUS
<1> QED BY <1>1 DEF Items

LEMMA DeskBounds == MaxItems \in Nat /\ MaxItems # 0 /\ MaxSends \in Nat
  BY DeskAssumption

(* What an added and a removed line leave. *)
LEMMA ItemAppended ==
  ASSUME NEW P, NEW s \in Seq(P), NEW x \in P
  PROVE  Append(s, x) \in Seq(P) /\ Len(Append(s, x)) = Len(s) + 1
OBVIOUS

LEMMA ItemsJoined ==
  ASSUME NEW P, NEW a \in Seq(P), NEW b \in Seq(P)
  PROVE  a \o b \in Seq(P) /\ Len(a \o b) = Len(a) + Len(b)
OBVIOUS

LEMMA ItemRemoved ==
  ASSUME NEW P, NEW s \in Seq(P), NEW i \in 1 .. Len(s)
  PROVE  RemoveAt(s, i) \in Seq(P) /\ Len(RemoveAt(s, i)) = Len(s) - 1
<1>1. PICK n \in Nat : n = Len(s)
  OBVIOUS
<1>2. i \in 1 .. n /\ i \in Nat /\ i - 1 \in Nat /\ i - 1 <= n /\ i + 1 \in Nat
  BY <1>1
<1>3. PICK a, b : a = SubSeq(s, 1, i - 1) /\ b = SubSeq(s, i + 1, n)
  OBVIOUS
<1>4. a \in Seq(P) /\ Len(a) = i - 1
  BY <1>1, <1>2, <1>3
<1>5. b \in Seq(P) /\ Len(b) = n - i
  BY <1>1, <1>2, <1>3
<1>6. RemoveAt(s, i) = a \o b
  BY <1>1, <1>3 DEF RemoveAt
<1>7. a \o b \in Seq(P) /\ Len(a \o b) = Len(a) + Len(b)
  BY <1>4, <1>5, ItemsJoined
<1> QED BY <1>1, <1>2, <1>4, <1>5, <1>6, <1>7

LEMMA WithinBound ==
  ASSUME NEW top \in Nat, NEW n \in 1 .. top, NEW m, (m = n + 1 /\ n < top) \/ (m = n - 1 /\ n > 1)
  PROVE  m \in 1 .. top
OBVIOUS

(* Every change of the lines leaves items. *)
LEMMA ItemsChanged ==
  ASSUME NEW s \in Items, NEW t,
         \/ Len(s) < MaxItems /\ t = Append(s, "")
         \/ \E i \in DOMAIN s : \/ Len(s) > 1 /\ t = RemoveAt(s, i)
                                \/ \E p \in Products : t = [s EXCEPT ![i] = p]
  PROVE  t \in Items
<1>0. s \in Seq(Products) /\ Len(s) \in 1 .. MaxItems
  BY ItemsLength
<1>1. s \in [1 .. Len(s) -> Products]
  BY ItemsLength
<1>2. CASE Len(s) < MaxItems /\ t = Append(s, "")
  <2>1. "" \in Products
    BY DEF Products
  <2>2. t \in Seq(Products) /\ Len(t) = Len(s) + 1
    BY <1>0, <1>2, <2>1, ItemAppended
  <2>3. PICK n, m : n = Len(s) /\ m = Len(t)
    OBVIOUS
  <2>4. n \in 1 .. MaxItems /\ n < MaxItems /\ m = n + 1 /\ MaxItems \in Nat
    BY <1>0, <1>2, <2>2, <2>3, DeskBounds
  <2>5. m \in 1 .. MaxItems
    BY <2>4, WithinBound
  <2> QED BY <2>2, <2>3, <2>5, OfLength
<1>3. ASSUME NEW i \in DOMAIN s, Len(s) > 1, t = RemoveAt(s, i)
      PROVE  t \in Items
  <2>1. i \in 1 .. Len(s)
    BY <1>1, <1>3
  <2>2. t \in Seq(Products) /\ Len(t) = Len(s) - 1
    BY <1>0, <1>3, <2>1, ItemRemoved
  <2>3. PICK n, m : n = Len(s) /\ m = Len(t)
    OBVIOUS
  <2>4. n \in 1 .. MaxItems /\ n > 1 /\ m = n - 1 /\ MaxItems \in Nat
    BY <1>0, <1>3, <2>2, <2>3, DeskBounds
  <2>5. m \in 1 .. MaxItems
    BY <2>4, WithinBound
  <2> QED BY <2>2, <2>3, <2>5, OfLength
<1>4. ASSUME NEW i \in DOMAIN s, NEW p \in Products, t = [s EXCEPT ![i] = p]
      PROVE  t \in Items
  <2>1. t \in [1 .. Len(s) -> Products]
    BY <1>1, <1>4
  <2> QED BY <1>0, <2>1 DEF Items
<1> QED BY <1>2, <1>3, <1>4

(* A request that is under way was sent. *)
DeskTypes == DeskInv /\ DeskTypeOK /\ (ask.stage # "none" => sends >= 1)

LEMMA DeskTypesStart == DeskInit => DeskTypes
<1> SUFFICES ASSUME DeskInit PROVE DeskTypes
  OBVIOUS
<1>1. PICK k \in Forms :
    /\ row = [fields |-> Untouched(k), call |-> IF k = "retry" THEN "ended" ELSE "none"]
    /\ facts = Rendered(row)
    /\ form = [kind |-> k, open |-> k \in {"call", "retry"}, fields |-> Untouched(k), named |-> FALSE,
               items |-> NoItems, note |-> "none"]
    /\ ask = [stage |-> "none", fields |-> Untouched(k), mounted |-> TRUE, alone |-> TRUE]
    /\ made = [v \in Versions |-> 0] /\ typed = 0 /\ sends = 0
  BY DEF DeskInit
<1>2. Untouched(k) \in Entries(k)
  BY DeskVersions DEF Untouched, Entries
<1>3. PICK u : u = Untouched(k)
  OBVIOUS
<1>4. form.kind = k
  BY <1>1
<1>5. NoItems \in Items
  <2>1. NoItems \in Seq(Products) /\ Len(NoItems) = 1
    BY DEF NoItems, Products
  <2>2. 1 \in 1 .. MaxItems
    BY DeskAssumption
  <2> QED BY <2>1, <2>2, OfLength
<1>6. form \in [kind : Forms, open : BOOLEAN, fields : Entries(k), named : BOOLEAN, items : Items,
                note : {"none", "error", "done"}]
  BY <1>1, <1>2, <1>5
<1>7. ask \in [stage : {"none", "sent", "saved", "refused"}, fields : Entries(k), mounted : BOOLEAN, alone : BOOLEAN]
  BY <1>1, <1>2
<1>8. row \in [fields : Entries(k), call : {"none", "pending", "ended"}]
  BY <1>1, <1>2
<1>9. facts \in [fields : Entries(k), queued : BOOLEAN]
  BY <1>1, <1>8 DEF Rendered
<1>10. made \in [Versions -> 0 .. MaxSends] /\ typed \in Versions /\ sends \in 0 .. MaxSends
  BY <1>1, DeskVersions, DeskAssumption
<1>11. ask.stage = "none"
  BY <1>1
<1> QED BY <1>4, <1>6, <1>7, <1>8, <1>9, <1>10, <1>11, DeskStart DEF DeskTypes, DeskTypeOK, Items

(* Every step of a form keeps its types. *)
LEMMA DeskTypesKept == DeskTypes /\ [DeskNext]_deskVars => DeskTypes'
<1> SUFFICES ASSUME DeskTypes, [DeskNext]_deskVars PROVE DeskTypes'
  OBVIOUS
<1>1. DeskInv /\ DeskInv'
  BY DeskKept DEF DeskTypes
<1>2. PICK k, E : k = form.kind /\ E = Entries(k)
  OBVIOUS
<1> DEFINE FormOf == [kind : Forms, open : BOOLEAN, fields : E, named : BOOLEAN, items : Items,
                      note : {"none", "error", "done"}]
           AskOf == [stage : {"none", "sent", "saved", "refused"}, fields : E, mounted : BOOLEAN, alone : BOOLEAN]
           FactsOf == [fields : E, queued : BOOLEAN]
           RowOfOrder == [fields : E, call : {"none", "pending", "ended"}]
<1>3. /\ form \in FormOf /\ ask \in AskOf /\ facts \in FactsOf /\ row \in RowOfOrder
      /\ made \in [Versions -> 0 .. MaxSends] /\ typed \in Versions /\ sends \in 0 .. MaxSends
      /\ ask.stage # "none" => sends >= 1
  BY <1>2 DEF DeskTypes, DeskTypeOK, Items
<1>4. SUFFICES /\ form' \in FormOf /\ form'.kind = form.kind /\ ask' \in AskOf /\ facts' \in FactsOf /\ row' \in RowOfOrder
               /\ made' \in [Versions -> 0 .. MaxSends] /\ typed' \in Versions /\ sends' \in 0 .. MaxSends
               /\ ask'.stage # "none" => sends' >= 1
  <2>1. E = Entries(form.kind)
    BY <1>2
  <2> QED BY <1>1, <2>1 DEF DeskTypes, DeskTypeOK, Items
<1>5. E = [FormFields(k) -> Versions]
  BY <1>2 DEF Entries
<1>6. Untouched(form.kind) \in E
  BY <1>2, <1>5, DeskVersions DEF Untouched
<1>7. Defaults \in E
  BY <1>3, <1>6 DEF Defaults
<1>8. \A f, v : v \in Versions => [form.fields EXCEPT ![f] = v] \in E
  BY <1>3, <1>5
<1>9. NoItems \in Items
  <2>1. NoItems \in Seq(Products) /\ Len(NoItems) = 1
    BY DEF NoItems, Products
  <2>2. 1 \in 1 .. MaxItems
    BY DeskAssumption
  <2> QED BY <2>1, <2>2, OfLength
<1>10. Rendered(row) \in FactsOf
  BY <1>3 DEF Rendered
<1>11. CASE UNCHANGED deskVars
  BY <1>3, <1>11 DEF deskVars
<1>12. CASE OpenForm
  BY <1>3, <1>7, <1>9, <1>12 DEF OpenForm
<1>13. CASE CloseForm
  BY <1>3, <1>6, <1>9, <1>13 DEF CloseForm
<1>14. ASSUME NEW f \in FormFields(form.kind), TypeField(f)
       PROVE  /\ form' \in FormOf /\ form'.kind = form.kind /\ typed' \in Versions
              /\ UNCHANGED <<ask, facts, row, made, sends>>
  <2>1. typed' \in Versions
    BY <1>3, <1>14, DeskVersions DEF TypeField
  <2>2. PICK g : g = [form.fields EXCEPT ![f] = typed']
    OBVIOUS
  <2>3. g \in E
    BY <1>8, <2>1, <2>2
  <2>4. PICK b \in BOOLEAN : b = (form.kind = "import")
    OBVIOUS
  <2>5. form' = [form EXCEPT !.fields = g, !.named = b]
    BY <1>3, <1>14, <2>2, <2>4 DEF TypeField
  <2>6. form' \in FormOf /\ form'.kind = form.kind
    BY <1>3, <2>3, <2>5
  <2> QED BY <1>14, <2>1, <2>6 DEF TypeField
<1>15. CASE UnpickFile
  <2>1. PICK g : g = [form.fields EXCEPT !["file"] = 0]
    OBVIOUS
  <2>2. g \in E
    BY <1>8, <2>1, DeskVersions
  <2>3. form' = [form EXCEPT !.fields = g, !.named = FALSE]
    BY <1>3, <1>15, <2>1 DEF UnpickFile
  <2> QED BY <1>3, <1>15, <2>2, <2>3 DEF UnpickFile
<1>16. CASE ItemsChange
  <2>1. PICK t : /\ form' = [form EXCEPT !.items = t]
                 /\ \/ Len(form.items) < MaxItems /\ t = Append(form.items, "")
                    \/ \E i \in DOMAIN form.items :
                         \/ Len(form.items) > 1 /\ t = RemoveAt(form.items, i)
                         \/ \E p \in Products : t = [form.items EXCEPT ![i] = p]
    <3>1. CASE AddItem
      <4>1. form' = [form EXCEPT !.items = Append(form.items, "")] /\ Len(form.items) < MaxItems
        BY <1>3, <3>1 DEF AddItem
      <4> QED BY <4>1
    <3>2. ASSUME NEW i \in DOMAIN form.items, DropItem(i)
          PROVE  /\ form' = [form EXCEPT !.items = RemoveAt(form.items, i)] /\ Len(form.items) > 1
      BY <1>3, <3>2 DEF DropItem
    <3>3. ASSUME NEW i \in DOMAIN form.items, NEW p \in Products, NameItem(i, p)
          PROVE  form' = [form EXCEPT !.items = [form.items EXCEPT ![i] = p]]
      BY <1>3, <3>3 DEF NameItem
    <3> QED BY <1>16, <3>1, <3>2, <3>3 DEF ItemsChange
  <2>2. form.items \in Items
    BY <1>3
  <2>3. t \in Items
    BY <2>1, <2>2, ItemsChanged
  <2> QED BY <1>3, <1>16, <2>1, <2>3 DEF ItemsChange
<1>17. CASE SendForm
  <2>1. sends' \in 0 .. MaxSends /\ sends' >= 1
    BY <1>3, <1>17, DeskAssumption DEF SendForm
  <2>2. ask' \in AskOf
    BY <1>3, <1>17 DEF SendForm
  <2> QED BY <1>3, <1>17, <2>1, <2>2 DEF SendForm
<1>18. CASE AskAccepted
  <2>1. ask' \in AskOf /\ ask.stage = "sent" /\ UNCHANGED <<form, facts, typed, sends>>
    BY <1>3, <1>18 DEF AskAccepted
  <2>2. row' \in RowOfOrder
    <3>1. row' = row \/ row' = [row EXCEPT !.fields = ask.fields] \/ row' = [row EXCEPT !.call = "pending"]
      BY <1>18 DEF AskAccepted
    <3> QED BY <1>3, <3>1
  <2>3. made' \in [Versions -> 0 .. MaxSends]
    <3>1. made' \in [Versions -> Nat] /\ \A v \in Versions : made'[v] <= 1
      BY <1>1 DEF DeskInv, DeskShape, SentOnce
    <3>2. 1 <= MaxSends /\ MaxSends \in Nat
      BY <1>3, <2>1, DeskAssumption
    <3>3. \A v \in Versions : made'[v] \in 0 .. MaxSends
      <4>1. SUFFICES ASSUME NEW v \in Versions PROVE made'[v] \in 0 .. MaxSends
        OBVIOUS
      <4>2. made'[v] \in Nat /\ made'[v] <= 1
        BY <3>1
      <4> QED BY <3>2, <4>2
    <3> QED BY <3>1, <3>3
  <2> QED BY <1>3, <2>1, <2>2, <2>3
<1>19. CASE AskRefused
  BY <1>3, <1>19 DEF AskRefused
<1>20. CASE AskAnswered
  <2>1. ask' \in AskOf /\ ask'.stage = "none" /\ UNCHANGED <<row, made, typed, sends>>
    BY <1>3, <1>20 DEF AskAnswered
  <2>2. facts' \in FactsOf
    BY <1>3, <1>10, <1>20 DEF AskAnswered
  <2>3. PICK g : g = IF ClosesForm THEN Untouched(form.kind) ELSE FieldsAfter(form.fields)
    OBVIOUS
  <2>4. g \in E
    BY <1>3, <1>6, <1>7, <2>3 DEF FieldsAfter
  <2>5. PICK b \in BOOLEAN : b = (form.open /\ ~ClosesForm)
    OBVIOUS
  <2>6. PICK n \in {"none", "error", "done"} : n = NoteAfter
    BY DEF NoteAfter
  <2>7. form' = [form EXCEPT !.note = n, !.open = b, !.fields = g]
    BY <1>3, <1>20, <2>3, <2>5, <2>6 DEF AskAnswered
  <2>8. form' \in FormOf /\ form'.kind = form.kind
    BY <1>3, <2>4, <2>7
  <2> QED BY <1>3, <2>1, <2>2, <2>8
<1>21. CASE EditedElsewhere
  <2>1. typed' \in Versions /\ form.kind = "edit"
    BY <1>3, <1>21, DeskVersions DEF EditedElsewhere
  <2>2. [f \in FormFields("edit") |-> typed'] \in E
    BY <1>2, <1>5, <2>1
  <2>3. row' \in RowOfOrder
    BY <1>3, <1>21, <2>2 DEF EditedElsewhere
  <2>4. ask' \in AskOf /\ ask'.stage = ask.stage
    BY <1>3, <1>21 DEF EditedElsewhere
  <2> QED BY <1>3, <1>21, <2>1, <2>3, <2>4 DEF EditedElsewhere
<1>22. CASE CallChanges
  BY <1>3, <1>22 DEF CallChanges
<1>23. CASE PageFollows
  <2>1. PICK g : g = [f \in DOMAIN form.fields |->
                        IF form.open /\ form.fields[f] = facts.fields[f] THEN row.fields[f] ELSE form.fields[f]]
    OBVIOUS
  <2>2. g \in E
    <3>1. form.fields \in [FormFields(k) -> Versions] /\ row.fields \in [FormFields(k) -> Versions]
      BY <1>3, <1>5
    <3> QED BY <1>5, <2>1, <3>1
  <2>3. form' = [form EXCEPT !.fields = g]
    BY <1>3, <1>23, <2>1 DEF PageFollows
  <2>4. form' \in FormOf /\ form'.kind = form.kind
    BY <1>3, <2>2, <2>3
  <2> QED BY <1>3, <1>10, <1>23, <2>4 DEF PageFollows
<1> QED
  <2>1. CASE \E f \in FormFields(form.kind) : TypeField(f)
    BY <1>3, <1>14, <2>1
  <2> QED BY <1>11, <1>12, <1>13, <1>15, <1>16, <1>17, <1>18, <1>19, <1>20, <1>21, <1>22, <1>23, <2>1 DEF DeskNext

-----------------------------------------------------------------------------
(* The types of the Voice Lab *)

(* No call moves further than the bound, nor does an answer tell of one that did. *)
RowsWithin(l) == \A i \in 1 .. Len(l) : l[i].row.version <= MaxMoves

LabTypes ==
  /\ LabInv /\ runs \in 0 .. MaxRuns /\ Len(line) <= MaxWaiting
  /\ (\A c \in KnownCalls : calls[c].version <= MaxMoves) /\ RowsWithin(line)

LEMMA LabBounds == MaxRuns \in Nat /\ MaxWaiting \in Nat \ {0} /\ MaxMoves \in Nat \ {0}
  BY LabAssumption, WebAssumption

(* Within the bound, a state of a call has its type. *)
LEMMA RowWithin ==
  ASSUME NEW r \in LabRows, r.version <= MaxMoves
  PROVE  r \in LabRow
<1>1. CASE r = NotThere
  BY <1>1 DEF LabRow
<1>2. CASE r # NotThere
  <2>1. r \in [stage : CallStages, version : Nat \ {0}]
    BY <1>2 DEF LabRows
  <2>2. r.version \in 1 .. MaxMoves
    BY <2>1, LabBounds
  <2> QED BY <2>1, <2>2 DEF LabRow
<1> QED BY <1>1, <1>2

(* What the page shows is no newer than the call, so within the bound as well. *)
LEMMA LabHasType == LabTypes => LabTypeOK
<1> SUFFICES ASSUME LabTypes PROVE LabTypeOK
  OBVIOUS
<1>1. /\ calls \in [KnownCalls -> LabRows] /\ newest \in [KnownCalls -> LabRows] /\ lab \in Studio
      /\ \A c \in KnownCalls : newest[c].version <= calls[c].version /\ lab.list[c].version <= calls[c].version
      /\ lab.row.version <= calls[lab.shown].version
      /\ \A c \in KnownCalls : calls[c].version <= MaxMoves
  BY DEF LabTypes, LabInv
<1>2. lab.shown \in KnownCalls /\ lab.row \in LabRows /\ lab.list \in [KnownCalls -> LabRows]
  BY <1>1, LabFields
<1>3. ASSUME NEW r \in LabRows, NEW c \in KnownCalls, r.version <= calls[c].version
      PROVE  r \in LabRow
  <2>1. r.version \in Nat /\ calls[c].version \in Nat
    <3>1. calls[c] \in LabRows
      BY <1>1
    <3> QED BY <3>1, RowsHaveVersions
  <2>2. PICK a, b \in Nat : a = r.version /\ b = calls[c].version
    BY <2>1
  <2>3. a <= b /\ b <= MaxMoves
    BY <1>1, <1>3, <2>2
  <2>4. a <= MaxMoves
    BY <2>2, <2>3, LabBounds
  <2> QED BY <2>2, <2>4, RowWithin
<1>4. ASSUME NEW c \in KnownCalls
      PROVE  calls[c] \in LabRow /\ newest[c] \in LabRow /\ lab.list[c] \in LabRow
  <2>1. calls[c] \in LabRows /\ newest[c] \in LabRows /\ lab.list[c] \in LabRows
    BY <1>1, <1>2
  <2>2. calls[c].version <= calls[c].version
    BY <2>1, RowsHaveVersions
  <2> QED BY <1>1, <1>3, <2>1, <2>2
<1>5. lab.row \in LabRow
  BY <1>1, <1>2, <1>3
<1>6. calls \in [KnownCalls -> LabRow] /\ newest \in [KnownCalls -> LabRow] /\ lab.list \in [KnownCalls -> LabRow]
  BY <1>1, <1>2, <1>4
<1>7. lab \in [selected : KnownCalls, shown : KnownCalls, row : LabRow, list : [KnownCalls -> LabRow],
               audio : KnownCalls \cup {Silence}, heard : BOOLEAN, polling : BOOLEAN, notice : {"none", "success", "error"}]
  BY <1>1, <1>5, <1>6 DEF Studio
<1>8. line \in Seq(LabRuns) /\ Len(line) <= MaxWaiting
  BY DEF LabTypes, LabInv, LineOK
<1>9. Len(line) <= MaxWaiting + 1
  BY <1>8, LabBounds
<1>10. ASSUME NEW i \in DOMAIN line
       PROVE  /\ line[i].kind \in {"details", "dispatch", "create"}
              /\ line[i].answer \in {"none", "ok", "failed"} /\ line[i].row \in LabRow
  <2>1. i \in 1 .. Len(line) /\ line[i] \in LabRuns
    BY <1>8, <1>10
  <2>2. line[i].row.version <= MaxMoves
    BY <2>1 DEF LabTypes, RowsWithin
  <2> QED BY <2>1, <2>2, RowWithin DEF LabRuns
<1>11. runs \in 0 .. MaxRuns
  BY DEF LabTypes
<1> QED BY <1>6, <1>7, <1>9, <1>10, <1>11 DEF LabTypeOK

LEMMA LabTypesStart == LabInit => LabTypes
<1> SUFFICES ASSUME LabInit PROVE LabTypes
  OBVIOUS
<1>1. ASSUME NEW c \in KnownCalls PROVE calls[c].version <= MaxMoves
  <2>1. calls[c] \in {NotThere} \cup [stage : CallStages, version : {1}]
    BY DEF LabInit
  <2>2. calls[c].version \in {0, 1}
    BY <2>1 DEF NotThere
  <2> QED BY <2>2, LabBounds
<1>2. Len(line) = 0 /\ runs = 0
  BY DEF LabInit
<1>3. RowsWithin(line)
  BY <1>2 DEF RowsWithin
<1>4. 0 \in 0 .. MaxRuns /\ 0 <= MaxWaiting
  BY LabBounds
<1> QED BY <1>1, <1>2, <1>3, <1>4, LabStart DEF LabTypes

(* One more run, the first one answered, or the first one gone. *)
LEMMA LongerLine ==
  ASSUME NEW l \in Seq(LabRuns), RowsWithin(l), NEW r \in LabRuns, r.row.version <= MaxMoves
  PROVE  RowsWithin(Append(l, r)) /\ Append(l, r) \in Seq(LabRuns) /\ Len(Append(l, r)) = Len(l) + 1
<1>1. PICK n, m : n = Len(l) /\ m = Append(l, r)
  OBVIOUS
<1>2. n \in Nat /\ m \in Seq(LabRuns) /\ Len(m) = n + 1 /\ m[n + 1] = r /\ \A i \in 1 .. n : m[i] = l[i]
  BY <1>1
<1>3. ASSUME NEW i \in 1 .. n + 1 PROVE m[i].row.version <= MaxMoves
  <2>1. CASE i = n + 1
    BY <1>2, <2>1
  <2>2. CASE i \in 1 .. n
    BY <1>1, <1>2, <2>2 DEF RowsWithin
  <2> QED BY <1>1, <2>1, <2>2
<1> QED BY <1>1, <1>2, <1>3 DEF RowsWithin

LEMMA LineGoesOn ==
  ASSUME NEW l \in Seq(LabRuns), l # <<>>, RowsWithin(l)
  PROVE  RowsWithin(Tail(l)) /\ Tail(l) \in Seq(LabRuns) /\ Len(Tail(l)) = Len(l) - 1 /\ Len(l) \in Nat \ {0}
<1>1. PICK n, m : n = Len(l) /\ m = Tail(l)
  OBVIOUS
<1>2. m \in Seq(LabRuns) /\ n \in Nat \ {0} /\ Len(m) = n - 1 /\ \A i \in 1 .. n - 1 : m[i] = l[i + 1]
  BY <1>1
<1>3. ASSUME NEW i \in 1 .. n - 1 PROVE m[i].row.version <= MaxMoves
  <2>1. i + 1 \in 1 .. n
    BY <1>2
  <2> QED BY <1>1, <1>2, <2>1 DEF RowsWithin
<1> QED BY <1>1, <1>2, <1>3 DEF RowsWithin

LEMMA LineAnswered ==
  ASSUME NEW l \in Seq(LabRuns), l # <<>>, RowsWithin(l), NEW r, r.version <= MaxMoves, NEW a
  PROVE  /\ RowsWithin([l EXCEPT ![1].answer = a, ![1].row = r])
         /\ Len([l EXCEPT ![1].answer = a, ![1].row = r]) = Len(l)
<1>1. PICK n, m : n = Len(l) /\ m = [l EXCEPT ![1].answer = a, ![1].row = r]
  OBVIOUS
<1>2. n \in Nat /\ 1 \in 1 .. n /\ DOMAIN l = 1 .. n /\ l[1] \in LabRuns
  BY <1>1
<1>3. PICK run : run = [l[1] EXCEPT !.answer = a, !.row = r]
  OBVIOUS
<1>4. run.row = r
  BY <1>2, <1>3 DEF LabRuns
<1>5. m = [l EXCEPT ![1] = run]
  BY <1>1, <1>3
<1>6. l \in [1 .. n -> LabRuns]
  BY <1>1
<1>7. m \in [1 .. n -> LabRuns \cup {run}] /\ m[1] = run /\ \A i \in 1 .. n : i # 1 => m[i] = l[i]
  BY <1>2, <1>5, <1>6
<1>8. Len(m) = n
  BY <1>2, <1>7
<1>9. ASSUME NEW i \in 1 .. n PROVE m[i].row.version <= MaxMoves
  BY <1>1, <1>4, <1>7 DEF RowsWithin
<1> QED BY <1>1, <1>8, <1>9 DEF RowsWithin

(* Every step of the Voice Lab keeps its types. *)
LEMMA LabTypesKept == LabTypes /\ [LabNext]_labVars => LabTypes'
<1> SUFFICES ASSUME LabTypes, [LabNext]_labVars PROVE LabTypes'
  OBVIOUS
<1>1. /\ LabInv /\ runs \in 0 .. MaxRuns /\ Len(line) <= MaxWaiting /\ RowsWithin(line) /\ line \in Seq(LabRuns)
      /\ calls \in [KnownCalls -> LabRows] /\ (\A c \in KnownCalls : calls[c].version <= MaxMoves)
  BY DEF LabTypes, LabInv, LineOK
<1>2. LabInv'
  BY <1>1, LabKept
<1>3. PICK w : w = Len(line)
  OBVIOUS
<1>4. w \in Nat /\ w <= MaxWaiting
  BY <1>1, <1>3
<1>5. SUFFICES /\ runs' \in 0 .. MaxRuns /\ Len(line') <= MaxWaiting /\ RowsWithin(line')
               /\ \A c \in KnownCalls : calls'[c].version <= MaxMoves
  BY <1>2 DEF LabTypes, RowsWithin
<1>6. NotThere \in LabRows /\ NotThere.version <= MaxMoves
  BY LabBounds DEF NotThere, LabRows
<1>7. ASSUME NEW k \in {"details", "dispatch", "create"}, NEW c \in KnownCalls, NEW h \in BOOLEAN
      PROVE  LabRun(k, c, h) \in LabRuns /\ LabRun(k, c, h).row = NotThere
  BY <1>6 DEF LabRun, LabRuns
<1>8. ASSUME NEW k \in {"details", "dispatch", "create"}, NEW c \in KnownCalls, NEW h \in BOOLEAN,
             Asks(LabRun(k, c, h))
      PROVE  runs' \in 0 .. MaxRuns /\ Len(line') <= MaxWaiting /\ RowsWithin(line') /\ calls' = calls
  <2>1. PICK r \in LabRuns : r = LabRun(k, c, h) /\ r.row = NotThere
    BY <1>7
  <2>2. line' = Append(line, r) /\ runs' = runs + 1 /\ runs < MaxRuns /\ w < MaxWaiting /\ calls' = calls
    BY <1>3, <1>8, <2>1 DEF Asks
  <2>3. RowsWithin(line') /\ Len(line') = w + 1
    BY <1>1, <1>3, <1>6, <2>1, <2>2, LongerLine
  <2>4. w + 1 <= MaxWaiting
    BY <1>4, <2>2, LabBounds
  <2>5. runs' \in 0 .. MaxRuns
    BY <1>1, <2>2, LabBounds
  <2> QED BY <2>2, <2>3, <2>4, <2>5
<1>9. ASSUME NEW a, NEW r, r.version <= MaxMoves, line # <<>>, Says(a, r)
      PROVE  Len(line') <= MaxWaiting /\ RowsWithin(line')
  BY <1>1, <1>9, LineAnswered DEF Says
<1>10. lab.selected \in KnownCalls /\ TestCall \in KnownCalls
  BY <1>1, LabFields DEF LabInv, KnownCalls
<1>11. CASE UNCHANGED labVars
  BY <1>1, <1>11 DEF labVars, RowsWithin
<1>12. CASE TogglePolling
  BY <1>1, <1>12 DEF TogglePolling, RowsWithin
<1>13. ASSUME NEW c \in KnownCalls, SelectCall(c) \/ DispatchClicked(c)
       PROVE  runs' \in 0 .. MaxRuns /\ Len(line') <= MaxWaiting /\ RowsWithin(line') /\ calls' = calls
  BY <1>8, <1>13 DEF SelectCall, DispatchClicked
<1>14. CASE PollFires \/ RefreshClicked \/ CreateSubmitted
  <2>1. runs' \in 0 .. MaxRuns /\ Len(line') <= MaxWaiting /\ RowsWithin(line') /\ calls' = calls
    BY <1>8, <1>10, <1>14 DEF PollFires, RefreshClicked, CreateSubmitted
  <2> QED BY <1>1, <2>1
<1>15. ASSUME NEW c \in KnownCalls, CallGoesOn(c)
       PROVE  /\ UNCHANGED <<line, runs>>
              /\ \A x \in KnownCalls : calls'[x].version <= MaxMoves
  <2>1. PICK s \in NextStages(calls[c].stage) : calls' = [calls EXCEPT ![c] = MovedTo(calls[c], s)]
    BY <1>15 DEF CallGoesOn
  <2>2. PICK r : r = MovedTo(calls[c], s)
    OBVIOUS
  <2>3. r.version = calls[c].version + 1
    BY <2>2 DEF MovedTo
  <2>4. PICK v \in Nat : v = calls[c].version
    <3>1. calls[c] \in LabRows
      BY <1>1
    <3> QED BY <3>1, RowsHaveVersions
  <2>5. v + 1 <= MaxMoves
    <3>1. v < MaxMoves
      BY <1>15, <2>4 DEF CallGoesOn
    <3> QED BY <2>4, <3>1, LabBounds
  <2>6. calls' = [calls EXCEPT ![c] = r] /\ r.version <= MaxMoves
    BY <2>1, <2>2, <2>3, <2>4, <2>5
  <2>7. \A x \in KnownCalls : calls'[x].version <= MaxMoves
    BY <1>1, <2>6
  <2> QED BY <1>15, <2>7 DEF CallGoesOn
<1>16. CASE DetailsRead
  <2>1. line # <<>> /\ Head(line).call \in KnownCalls /\ UNCHANGED <<calls, runs>>
    BY <1>1, <1>16, HeadOfLine DEF DetailsRead, AtHead
  <2>2. PICK a : Says(a, calls[Head(line).call])
    BY <1>16 DEF DetailsRead
  <2>3. Len(line') <= MaxWaiting /\ RowsWithin(line')
    BY <1>1, <1>9, <2>1, <2>2
  <2> QED BY <1>1, <2>1, <2>3
<1>17. CASE RunFails \/ DispatchDone \/ CreateDone \/ CreateTooLate
  <2>1. line # <<>> /\ runs' = runs
    BY <1>17 DEF RunFails, DispatchDone, CreateDone, CreateTooLate, AtHead
  <2>2. Len(line') <= MaxWaiting /\ RowsWithin(line')
    BY <1>6, <1>9, <1>17, <2>1 DEF RunFails, DispatchDone, CreateDone, CreateTooLate
  <2>3. \A c \in KnownCalls : calls'[c].version <= MaxMoves
    <3>1. CASE RunFails
      BY <1>1, <3>1 DEF RunFails
    <3>2. CASE DispatchDone
      <4>1. PICK c, r : r.version <= MaxMoves /\ calls' = [calls EXCEPT ![c] = r]
        BY <3>2 DEF DispatchDone
      <4> QED BY <1>1, <4>1
    <3>3. CASE CreateDone \/ CreateTooLate
      <4>1. PICK s : calls' = [calls EXCEPT ![TestCall] = [stage |-> s, version |-> 1]]
        BY <3>3 DEF CreateDone, CreateTooLate
      <4>2. PICK r : r = [stage |-> s, version |-> 1]
        OBVIOUS
      <4>3. calls' = [calls EXCEPT ![TestCall] = r] /\ r.version <= MaxMoves
        BY <4>1, <4>2, LabBounds
      <4> QED BY <1>1, <4>3
    <3> QED BY <1>17, <3>1, <3>2, <3>3
  <2> QED BY <1>1, <2>1, <2>2, <2>3
<1>18. ASSUME line # <<>>, line' = Tail(line)
       PROVE  Len(line') <= MaxWaiting /\ RowsWithin(line')
  <2>1. RowsWithin(line') /\ Len(line') = w - 1
    BY <1>1, <1>3, <1>18, LineGoesOn
  <2>2. w - 1 <= MaxWaiting
    BY <1>4, LabBounds
  <2> QED BY <2>1, <2>2
<1>19. CASE DetailsShown
  <2>1. line # <<>> /\ line' = Tail(line) /\ UNCHANGED <<calls, runs>>
    BY <1>19 DEF DetailsShown
  <2> QED BY <1>1, <1>18, <2>1
<1>20. CASE NoticeShown
  <2>1. line # <<>> /\ UNCHANGED <<calls, runs>> /\ Head(line).call \in KnownCalls
    BY <1>1, <1>20, HeadOfLine DEF NoticeShown
  <2>2. CASE line' = Tail(line)
    BY <1>1, <1>18, <2>1, <2>2
  <2>3. CASE line' = Append(Tail(line), LabRun("details", Head(line).call, TRUE))
    <3>1. PICK r \in LabRuns : r = LabRun("details", Head(line).call, TRUE) /\ r.row = NotThere
      BY <1>7, <2>1
    <3>2. PICK rest : rest = Tail(line)
      OBVIOUS
    <3>3. RowsWithin(rest) /\ rest \in Seq(LabRuns) /\ Len(rest) = w - 1
      BY <1>1, <1>3, <2>1, <3>2, LineGoesOn
    <3>4. line' = Append(rest, r)
      BY <2>3, <3>1, <3>2
    <3>5. RowsWithin(line') /\ Len(line') = (w - 1) + 1
      BY <1>6, <3>1, <3>3, <3>4, LongerLine
    <3>6. (w - 1) + 1 <= MaxWaiting
      BY <1>4, LabBounds
    <3> QED BY <1>1, <2>1, <3>5, <3>6
  <2> QED BY <1>20, <2>2, <2>3 DEF NoticeShown
<1>21. CASE AudioFollows
  BY <1>1, <1>21 DEF AudioFollows, RowsWithin
<1> QED
  <2>1. CASE \E c \in KnownCalls : SelectCall(c) \/ DispatchClicked(c) \/ CallGoesOn(c)
    <3>1. PICK c \in KnownCalls : SelectCall(c) \/ DispatchClicked(c) \/ CallGoesOn(c)
      BY <2>1
    <3>2. CASE SelectCall(c) \/ DispatchClicked(c)
      BY <1>1, <1>13, <3>2
    <3>3. CASE CallGoesOn(c)
      BY <1>1, <1>15, <3>3 DEF RowsWithin
    <3> QED BY <3>1, <3>2, <3>3
  <2> QED BY <1>11, <1>12, <1>14, <1>16, <1>17, <1>19, <1>20, <1>21, <2>1 DEF LabNext

-----------------------------------------------------------------------------
(* The composition *)

(* The invariants of these parts have the types in them. *)
LEMMA GeminiHasType == SessionInv => GeminiTypeOK
<1> SUFFICES ASSUME SessionInv PROVE GeminiTypeOK
  OBVIOUS
<1>1. messages \in 0 .. MaxMessages /\ asked \in 0 .. 2 * messages /\ acks \in 0 .. asked /\ MaxMessages \in Nat
  BY GeminiAssumption DEF SessionInv, Counts
<1>2. acks \in 0 .. 2 * MaxMessages /\ asked \in 0 .. 2 * MaxMessages
  BY <1>1
<1> QED BY <1>1, <1>2 DEF SessionInv, SessionTypes, GeminiTypeOK

LEMMA ConsoleHasType == ConsoleInv => ConsoleTypeOK
<1> SUFFICES ASSUME ConsoleInv PROVE ConsoleTypeOK
  OBVIOUS
<1> QED BY DEF ConsoleInv, ConsoleTypeOK, Served, PageRow, SocketStates

(***************************************************************************)
(* Every part starts as its own module says; who is registered from the     *)
(* start has shop 0.                                                        *)
(***************************************************************************)
LEMMA RegisteredIsSound ==
  ASSUME NEW p \in Passwords
  PROVE  LET account == [NewAccount(p, 0, None) EXCEPT !.verified = TRUE, !.verifyCooling = FALSE]
         IN  /\ Sound(account) /\ account # NoAccount
             /\ account.shop = 0 /\ account.avatar = None /\ account.resetLink = None /\ account.changedAt = 0
<1>1. 0 \in Keys /\ None # 0
  BY AccountsAssumption, WebAssumption DEF Keys
<1>2. PICK account : account = [NewAccount(p, 0, None) EXCEPT !.verified = TRUE, !.verifyCooling = FALSE]
  OBVIOUS
<1>3. account =
    [pwd |-> p, shop |-> 0, admin |-> FALSE, verified |-> TRUE,
     verifyLink |-> None, verifyOld |-> FALSE, verifyCooling |-> FALSE,
     resetLink |-> None, resetOld |-> FALSE, resetCooling |-> FALSE,
     changedAt |-> 0, avatar |-> None]
  BY <1>2 DEF NewAccount
<1>4. account \in AccountRow
  BY <1>1, <1>3, AccountsAssumption DEF AccountRow, Ticks
<1>5. account # NoAccount
  <2>1. account.shop = 0
    BY <1>3
  <2>2. NoAccount.shop = None
    BY DEF NoAccount
  <2> QED BY <1>1, <2>1, <2>2
<1>6. Sound(account)
  BY <1>3, <1>4 DEF Sound
<1>7. account.shop = 0 /\ account.avatar = None /\ account.resetLink = None /\ account.changedAt = 0
  BY <1>3
<1> QED BY <1>2, <1>5, <1>6, <1>7

(* The invariant of the accounts holds with nobody registered, and with the first account. *)
LEMMA RegisteredAccounts == SomeAccounts => AccountsInv
<1> SUFFICES ASSUME SomeAccounts PROVE AccountsInv
  OBVIOUS
<1>1. PICK known : known = IF part \in {"passwords", "pictures"} THEN {AdminEmail} ELSE {}
  OBVIOUS
<1>2. /\ accounts = [e \in Emails |-> IF e \in known THEN Registered ELSE NoAccount]
      /\ shops = (IF known = {} THEN {} ELSE {0})
      /\ sessions = (IF part = "pictures" THEN {[who |-> e, iat |-> 0] : e \in known} ELSE {})
      /\ mails = {} /\ pictures = {} /\ used = [t \in Keys |-> 0] /\ fresh = 1 /\ now = 0
      /\ req = [r \in Requests |-> Idle]
  BY <1>1 DEF SomeAccounts
<1>3. FirstPassword \in Passwords
  BY WebAssumption DEF FirstPassword
<1>4. PICK account : account = Registered
  OBVIOUS
<1>5. /\ Sound(account) /\ account # NoAccount /\ account.shop = 0 /\ account.avatar = None
      /\ account.resetLink = None /\ account.changedAt = 0
  BY <1>3, <1>4, RegisteredIsSound DEF Registered
<1>6. known \subseteq {AdminEmail} /\ AdminEmail \in Emails
  BY <1>1, WebAssumption
<1>7. accounts = [e \in Emails |-> IF e \in known THEN account ELSE NoAccount]
  BY <1>2, <1>4
<1>8. \A e \in Emails : /\ accounts[e] = IF e \in known THEN account ELSE NoAccount
                        /\ Exists(e) <=> e \in known
  BY <1>5, <1>7 DEF Exists
<1>9. \A r \in Requests : req[r] = Idle /\ req[r].at = "idle"
  BY <1>2 DEF Idle
<1>10. 0 \in Keys /\ 1 \in Keys /\ 0 \in Ticks /\ Keys \subseteq Nat /\ None \notin Nat
  BY AccountsAssumption, WebAssumption DEF Keys, Ticks
<1>11. RowsInv
  <2>1. accounts \in [Emails -> AccountRow \cup {NoAccount}]
    BY <1>5, <1>7 DEF Sound
  <2>2. sessions \subseteq [who : Emails, iat : Nat] /\ \A s \in sessions : s.who \in known
    BY <1>2, <1>6
  <2> QED BY <1>2, <1>5, <1>6, <1>8, <1>10, <2>1, <2>2 DEF RowsInv
<1>12. RequestsInv
  BY <1>2, <1>9 DEF RequestsInv
<1>13. ShopsInv
  BY <1>2, <1>5, <1>6, <1>8, <1>10 DEF ShopsInv
<1>14. \A e \in Emails : Avatars[e] = None /\ Links[e] = None
  BY <1>5, <1>8 DEF Avatars, Links
<1>15. LinksInv /\ PicturesInv
  BY <1>2, <1>9, <1>10, <1>14 DEF LinksInv, PicturesInv, Uploading, Replacing
<1>16. TimesInv
  <2>1. 0 <= ChangedAt(now)
    BY <1>2 DEF ChangedAt, Second
  <2> QED BY <1>5, <1>8, <1>9, <2>1 DEF TimesInv
<1> QED BY <1>11, <1>12, <1>13, <1>15, <1>16 DEF AccountsInv

(***************************************************************************)
(* A step of the composition is a step of one part, and lets the others be. *)
(***************************************************************************)
LEMMA WebStep ==
  ASSUME [WebNext]_webVars
  PROVE  /\ part' = part
         /\ \/ AccountParts /\ UNCHANGED <<lateVars, geminiVars, clock, tableVars, shopVars, screenVars>>
            \/ ShopParts /\ UNCHANGED <<accountVars, lateVars, geminiVars, clock, tableVars, shopVars, screenVars>>
            \/ CallParts /\ UNCHANGED <<agentVars, officeVars, geminiVars, clock, tableVars, shopVars, screenVars>>
            \/ /\ part = "agent" /\ AgentNext
               /\ UNCHANGED <<artifactVars, officeVars, geminiVars, clock, tableVars, shopVars, screenVars>>
            \/ /\ part = "session" /\ GeminiNext
               /\ UNCHANGED <<officeVars, lateVars, clock, tableVars, shopVars, screenVars>>
            \/ FigureParts /\ UNCHANGED <<officeVars, lateVars, geminiVars, screenVars>>
            \/ ScreenParts /\ UNCHANGED <<officeVars, lateVars, geminiVars, clock, tableVars, shopVars>>
            \/ UNCHANGED webVars
BY DEF WebNext, webVars

LEMMA WebMovesAccounts == [WebNext]_webVars => [AccountsNext]_accountVars
<1> SUFFICES ASSUME [WebNext]_webVars PROVE [AccountsNext]_accountVars
  OBVIOUS
<1>1. CASE AccountParts
  <2>1. AccountsMove
    BY <1>1 DEF AccountParts
  <2>2. FirstPassword \in Passwords
    BY WebAssumption DEF FirstPassword
  <2>3. \A r \in Requests : SignUpStep(r, {FirstPassword}) => SignUpStep(r, Passwords)
    BY <2>2 DEF SignUpStep
  <2> QED BY <2>1, <2>3 DEF AccountsMove, AccountsNext
<1>2. CASE UNCHANGED accountVars
  BY <1>2
<1> QED BY <1>1, <1>2, WebStep DEF officeVars, webVars

LEMMA WebMovesPages == [WebNext]_webVars => [PagesNext]_pagesVars
<1> SUFFICES ASSUME [WebNext]_webVars PROVE [PagesNext]_pagesVars
  OBVIOUS
<1>1. CASE ShopParts
  <2>1. FirstTab \in Tabs
    BY WebAssumption DEF FirstTab
  <2> QED BY <1>1, <2>1 DEF ShopParts, PagesNext
<1>2. CASE UNCHANGED pagesVars
  BY <1>2
<1> QED BY <1>1, <1>2, WebStep DEF AccountParts, officeVars, webVars

LEMMA WebMovesCalls ==
  [WebNext]_webVars => [TranscriptStep \/ RecordingStep]_artifactVars /\ [AgentNext]_agentVars /\ [GeminiNext]_geminiVars
<1> SUFFICES ASSUME [WebNext]_webVars
             PROVE  [TranscriptStep \/ RecordingStep]_artifactVars /\ [AgentNext]_agentVars /\ [GeminiNext]_geminiVars
  OBVIOUS
<1>1. CASE UNCHANGED <<lateVars, geminiVars>>
  BY <1>1 DEF lateVars
<1>2. CASE CallParts /\ UNCHANGED <<agentVars, geminiVars>>
  BY <1>2 DEF CallParts
<1>3. CASE AgentNext /\ UNCHANGED <<artifactVars, geminiVars>>
  BY <1>3
<1>4. CASE GeminiNext /\ UNCHANGED lateVars
  BY <1>4 DEF lateVars
<1> QED BY <1>1, <1>2, <1>3, <1>4, WebStep DEF webVars

LEMMA WebMovesFigures ==
  [WebNext]_webVars =>
    /\ [FiguresNext]_figureVars
    /\ [ShopFiguresNext]_shopFigureVars \/ (UNCHANGED shopVars /\ \E t \in Moments : t > clock /\ clock' = t)
<1> SUFFICES ASSUME [WebNext]_webVars
             PROVE  /\ [FiguresNext]_figureVars
                    /\ \/ [ShopFiguresNext]_shopFigureVars
                       \/ UNCHANGED shopVars /\ \E t \in Moments : t > clock /\ clock' = t
  OBVIOUS
<1>1. CASE UNCHANGED <<clock, tableVars, shopVars>>
  BY <1>1 DEF tableVars, shopVars, figureVars, shopFigureVars
<1>2. CASE FiguresNext /\ UNCHANGED shopVars
  <2>1. UNCHANGED clock \/ \E t \in Moments : t > clock /\ clock' = t
    <3>1. \A m \in Merchants : ShopMoves(m) => UNCHANGED clock
      BY DEF ShopMoves, SignsUp, Cancels, Completes, JoinsTheTeam, Subscribes, SetShop
    <3>2. Writes => UNCHANGED clock
      BY <3>1 DEF Writes, OrderPlaced, CallInserted
    <3>3. \A c \in CallRows, status \in CallStatus : StatusWritten(c, status) => UNCHANGED clock
      BY DEF StatusWritten
    <3>4. \A o \in OrderRows : OrderDeleted(o) => UNCHANGED clock
      BY DEF OrderDeleted
    <3> QED BY <1>2, <3>2, <3>3, <3>4 DEF FiguresNext, TimePasses
  <2> QED BY <1>2, <2>1 DEF shopVars, shopFigureVars
<1>3. CASE ShopFiguresNext /\ UNCHANGED tableVars
  <2>1. CASE UNCHANGED clock
    BY <1>3, <2>1 DEF tableVars, figureVars
  <2>2. CASE \E t \in ShopMoments : t > clock /\ clock' = t
    <3>1. TimePasses
      BY <1>3, <2>2, ShopFiguresAssumption DEF tableVars, TimePasses
    <3> QED BY <1>3, <3>1 DEF FiguresNext
  <2> QED BY <1>3, <2>1, <2>2 DEF ShopFiguresNext
<1> QED BY <1>1, <1>2, <1>3, WebStep DEF FigureParts, webVars

LEMMA WebMovesScreens ==
  [WebNext]_webVars =>
    /\ [ConsoleNext]_consoleVars /\ [ImportNext]_importVars
    /\ [SettingsNext]_settingsVars /\ [DeskNext]_deskVars /\ [LabNext]_labVars /\ [FormsNext]_formsVars
<1> SUFFICES ASSUME [WebNext]_webVars
             PROVE  /\ [ConsoleNext]_consoleVars /\ [ImportNext]_importVars
                    /\ [SettingsNext]_settingsVars /\ [DeskNext]_deskVars /\ [LabNext]_labVars /\ [FormsNext]_formsVars
  OBVIOUS
<1>1. ScreenParts \/ UNCHANGED screenVars
  BY WebStep DEF webVars
<1>2. CASE UNCHANGED screenVars
  BY <1>2 DEF screenVars, formsVars
<1>3. CASE ConsoleNext /\ UNCHANGED <<importVars, settingsVars, deskVars, labVars>>
  BY <1>3 DEF formsVars
<1>4. CASE ImportNext /\ UNCHANGED <<consoleVars, settingsVars, deskVars, labVars>>
  BY <1>4 DEF formsVars
<1>5. CASE SettingsNext /\ UNCHANGED <<consoleVars, importVars, deskVars, labVars>>
  BY <1>5 DEF FormsNext
<1>6. CASE DeskNext /\ UNCHANGED <<consoleVars, importVars, settingsVars, labVars>>
  BY <1>6 DEF FormsNext
<1>7. CASE LabNext /\ UNCHANGED <<consoleVars, importVars, settingsVars, deskVars>>
  BY <1>7 DEF FormsNext
<1> QED BY <1>1, <1>2, <1>3, <1>4, <1>5, <1>6, <1>7 DEF ScreenParts

(***************************************************************************)
(* The runs of the composition are runs of every part.                      *)
(***************************************************************************)
THEOREM WebRunsItsParts ==
  WebSpec => /\ PagesSpec /\ AllArtifactsSpec /\ AgentSpec /\ GeminiSpec
             /\ FiguresSpec /\ ConsoleSpec /\ ImportSpec /\ FormsSpec
<1>1. WebInit => /\ PagesInit /\ ArtifactsInit /\ AgentInit /\ GeminiInit
                 /\ FiguresInit /\ ConsoleInit /\ ImportInit /\ FormsInit
  BY DEF WebInit, FormsInit
<1> QED BY <1>1, WebMovesPages, WebMovesCalls, WebMovesFigures, WebMovesScreens, PTL
        DEF WebSpec, PagesSpec, AllArtifactsSpec, AgentSpec, GeminiSpec, FiguresSpec, ConsoleSpec, ImportSpec, FormsSpec

(***************************************************************************)
(* The invariants of the parts hold together.                               *)
(***************************************************************************)
WebInv ==
  /\ part \in Parts
  /\ AccountsInv /\ ArtifactsInv /\ PagesInv /\ FiguresTypeOK /\ ShopInv
  /\ AgentInv /\ SessionInv /\ ConsoleInv /\ ImportInv
  /\ CardTypes /\ DeskTypes /\ LabTypes

(* They hold at the start. *)
LEMMA WebStart == WebInit => WebInv
<1> SUFFICES ASSUME WebInit PROVE WebInv
  OBVIOUS
<1>1. /\ part \in Parts /\ SomeAccounts /\ PagesInit /\ ArtifactsInit /\ AgentInit /\ GeminiInit
      /\ FiguresInit /\ ShopFiguresInit /\ ConsoleInit /\ ImportInit /\ SettingsInit /\ DeskInit /\ LabInit
  BY DEF WebInit
<1>2. clock \in Moments
  BY <1>1 DEF FiguresInit
<1> QED BY <1>1, <1>2, RegisteredAccounts, InitialPages, InitialArtifacts, InitialAgent, InitialSession,
           InitialTypes, ShopStarts, ConsoleStart, ImportStart, CardTypesStart, DeskTypesStart, LabTypesStart
        DEF WebInv

(* The history of a shop stays in order while only the clock goes on. *)
LEMMA ClockKeepsShop ==
  ASSUME ShopInv, UNCHANGED shopVars, NEW t \in Moments, t > clock, clock' = t
  PROVE  ShopInv'
<1>1. clock \in Int /\ t \in Int /\ t >= clock
  BY MomentsAreInts DEF ShopInv
<1>2. /\ sales' = sales /\ dials' = dials
      /\ sales \in [ShopOrders -> [at : Moments, status : SaleStatus] \cup {NoOrder}]
      /\ dials \in [ShopOrders -> BoundedSeq(Dial, MaxDials)]
  BY DEF shopVars, ShopInv, ShopFiguresTypeOK
<1>3. ASSUME NEW u, u \in Int, u <= clock PROVE u <= t
  BY <1>1, <1>3
<1>4. ASSUME NEW o \in ShopOrders
      PROVE  IF Known(o)' THEN sales'[o].at <= t ELSE dials'[o] = <<>>
  <2>1. IF Known(o) THEN sales[o].at <= clock ELSE dials[o] = <<>>
    BY DEF ShopInv
  <2>2. CASE Known(o)
    <3>1. sales[o].at \in Moments
      BY <1>2, <2>2 DEF Known
    <3>2. sales[o].at \in Int
      BY <3>1, MomentsAreInts
    <3> QED BY <1>2, <1>3, <2>1, <2>2, <3>2 DEF Known
  <2> QED BY <1>2, <2>1, <2>2 DEF Known
<1>5. ASSUME NEW o \in ShopOrders, NEW n \in DOMAIN dials[o]
      PROVE  dials[o][n].at <= t
  <2>1. dials[o][n].at <= clock
    BY <1>5 DEF ShopInv
  <2>2. dials[o][n].at \in Int
    BY <1>2, SomeCalls, MomentsAreInts DEF Dial
  <2> QED BY <1>3, <2>1, <2>2
<1> QED BY <1>2, <1>4, <1>5 DEF ShopInv, ShopFiguresTypeOK

(* Every step keeps the invariants of all parts. *)
LEMMA WebKept == WebInv /\ [WebNext]_webVars => WebInv'
<1> SUFFICES ASSUME WebInv, [WebNext]_webVars PROVE WebInv'
  OBVIOUS
<1>1. part' \in Parts
  BY WebStep DEF WebInv
<1>2. AccountsInv' /\ PagesInv'
  BY WebMovesAccounts, WebMovesPages, AccountsStep, NextKeepsPages DEF WebInv
<1>3. ArtifactsInv' /\ AgentInv' /\ SessionInv'
  BY WebMovesCalls, NextKeepsArtifacts, NextKeepsAgent, NextKeepsSession DEF WebInv
<1>4. FiguresTypeOK' /\ ShopInv'
  BY WebMovesFigures, NextKeepsTypes, ShopNextKeeps, ClockKeepsShop DEF WebInv
<1>5. ConsoleInv' /\ ImportInv' /\ CardTypes' /\ DeskTypes' /\ LabTypes'
  BY WebMovesScreens, ConsoleKept, StepKeepsImport, CardTypesKept, DeskTypesKept, LabTypesKept DEF WebInv
<1> QED BY <1>1, <1>2, <1>3, <1>4, <1>5 DEF WebInv

LEMMA WebInvHolds == WebSpec => []WebInv
BY WebStart, WebKept, PTL DEF WebSpec

(* The part that moves has its types, as all of them do. *)
LEMMA WebInvTypes == WebInv => WebTypeOK
<1> SUFFICES ASSUME WebInv PROVE WebTypeOK
  OBVIOUS
<1>1. AccountsTypeOK /\ EveryShopOwned
  BY AccountsHaveTypes, ShopsHaveOwners DEF WebInv
<1>2. ArtifactsTypeOK /\ PagesTypeOK /\ FiguresTypeOK /\ ShopFiguresTypeOK /\ AgentTypeOK
  BY DEF WebInv, ArtifactsInv, PagesInv, ShopInv, AgentInv
<1>3. GeminiTypeOK /\ ConsoleTypeOK /\ ImportTypeOK
  BY GeminiHasType, ConsoleHasType, ImportHasType DEF WebInv
<1>4. SettingsTypeOK /\ DeskTypeOK /\ LabTypeOK
  BY CardHasType, LabHasType DEF WebInv, DeskTypes
<1>5. part \in Parts
  BY DEF WebInv
<1> QED BY <1>1, <1>2, <1>3, <1>4, <1>5 DEF WebTypeOK, Parts

(***************************************************************************)
(* Whatever part moves, its tables, requests and pages keep their types,     *)
(* and every shop has its one account.                                      *)
(***************************************************************************)
THEOREM WebTypes == WebSpec => []WebTypeOK
BY WebInvHolds, WebInvTypes, PTL

(***************************************************************************)
(* What the parts promise is kept by the composition too, also where the     *)
(* first account is there from the start.                                   *)
(***************************************************************************)
THEOREM WebKeepsItsWord ==
  WebSpec =>
    /\ [](ResetLinkOnce /\ AvatarStored) /\ NewSessionWorks /\ RefusedStaysRefused
    /\ []ShopFiguresAgree /\ []FiguresAgree /\ []RevenueSplits /\ CohortFiguresFinal
    /\ [](CompletedShopIsCallable /\ PaidPlanWasPaid /\ RedirectsLead)
    /\ [](TranscriptLacksOnlyOverlapped /\ UploadedIsStored)
    /\ []AgentWordKept /\ FinishedCallStays /\ []SessionAccountedFor
    /\ []PagesStayCurrent /\ []ImportKeepsRows /\ []FormsKeepTheirWord
<1>1. WebInv => ResetLinkOnce /\ AvatarStored
  BY PicturesAreStored DEF WebInv, AccountsInv, LinksInv, ResetLinkOnce
<1>2. WebSpec => NewSessionWorks /\ RefusedStaysRefused
  <2>1. WebInv => AccountsInv
    BY DEF WebInv
  <2> QED BY <2>1, WebInvHolds, WebMovesAccounts, IssuedStep, RefusedStep, PTL
          DEF WebSpec, NewSessionWorks, RefusedStaysRefused
<1>3. WebInv => ShopFiguresAgree
  BY ShopFiguresTell DEF WebInv, ShopFiguresAgree
<1> QED BY <1>1, <1>2, <1>3, WebInvHolds, WebRunsItsParts, FiguresAlwaysAgree, RevenueSplitsAlways,
           ShownFiguresAreFinal, CompletedShopHolds, PaidPlanHolds, RedirectsHold, TranscriptWholeHolds,
           UploadedHolds, AgentWordHolds, FinishedCallHolds, SessionsAreAccountedFor, PagesAreCurrent,
           ImportKeeps, FormsKeepWord, PTL
=============================================================================
