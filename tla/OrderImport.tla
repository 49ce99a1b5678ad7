----------------------------- MODULE OrderImport -----------------------------
(***************************************************************************)
(* The import of orders from a CSV file (OrdersService.importCsv) and the   *)
(* dialect of the exports (csvCell). A text is a sequence of characters; of *)
(* the alphabet only what the dialect and the checks tell apart is kept.     *)
(***************************************************************************)
EXTENDS Naturals, Sequences, FiniteSets, SequencesExt

CONSTANTS
  Rows,       \* bound: the rows a user may write, each a text per column
  Headers,    \* bound: the header lines, as sequences of column names
  MaxRowsIn,  \* bound: rows of the sheet
  ImportLimit \* MAX_IMPORT_ROWS

Columns == {"customer", "phone", "item", "quantity", "total"}
Comma == ","
Quote == "\""
LineBreaks == {"\n", "\r"}
Semicolon == ";"
Spaces == {" ", "\t"}
Formula == {"=", "+", "-", "@", "\t", "\r"}
Digits == {"0", "1", "2"}

\* No cell holds a line break: the file is cut into lines before any quote is read.
ASSUME ImportAssumption ==
  /\ ImportLimit \in Nat \ {0} /\ MaxRowsIn \in Nat
  /\ Rows \subseteq [Columns -> Seq(STRING)]
  /\ \A row \in Rows, c \in Columns : Range(row[c]) \cap LineBreaks = {}
  /\ Headers \subseteq Seq(STRING)

VARIABLES
  sheet,    \* what the user writes: its header, quoting and rows
  upload,   \* the import in progress or answered
  stored,   \* the orders the imports inserted
  imports    \* how many of them

importVars == <<sheet, upload, stored, imports>>

BlankLine == <<>>
Editing == [stage |-> "editing"]
Refused == [stage |-> "refused"]

-----------------------------------------------------------------------------
(* Writing a line *)

Has(text, c) == \E i \in DOMAIN text : text[i] = c
Joined(texts, sep) ==
  Head(texts) \o FlattenSeq([i \in 1 .. Len(texts) - 1 |-> <<sep>> \o texts[i + 1]])
InQuotes(text) ==
  LET doubled == [i \in DOMAIN text |-> IF text[i] = Quote THEN <<Quote, Quote>> ELSE <<text[i]>>]
  IN  <<Quote>> \o FlattenSeq(doubled) \o <<Quote>>
Quoted(text) ==
  IF \E c \in {Comma, Quote} \cup LineBreaks : Has(text, c) THEN InQuotes(text) ELSE text

\* A cell that a spreadsheet would run as a formula gets an apostrophe.
Neutral(text) == IF text # <<>> /\ text[1] \in Formula THEN <<"'">> \o text ELSE text
CsvCell(text) == Quoted(Neutral(text))

\* A spreadsheet quotes what must be, or every cell.
LineOf(texts, quoteAll) ==
  Joined([i \in DOMAIN texts |-> IF quoteAll THEN InQuotes(texts[i]) ELSE Quoted(texts[i])], Comma)

-----------------------------------------------------------------------------
(* parseCsvLine *)

\* Mutated form: a doubled quote ends the field.
ClosingQuoteFirst(line, start) ==
  LET at == {i \in start .. Len(line) : line[i] = Quote}
  IN  IF at = {} THEN Len(line) + 1 ELSE CHOOSE i \in at : \A j \in at : i <= j

\* Where the field opened before "start" is closed; a doubled quote does not close it.
ClosingQuote(line, start) ==
  LET close[i \in 1 .. Len(line) + 1] ==
        IF i > Len(line) THEN i
        ELSE IF line[i] # Quote THEN close[i + 1]
        ELSE IF i < Len(line) /\ line[i + 1] = Quote THEN close[i + 2]
        ELSE i
  IN  close[start]

\* The text between, each doubled quote read as one.
Unquoted(text) ==
  LET read[i \in 1 .. Len(text) + 2] ==
        IF i > Len(text) THEN <<>>
        ELSE <<text[i]>> \o read[IF text[i] = Quote THEN i + 2 ELSE i + 1]
  IN  read[1]

NextComma(line, start) ==
  LET at == {i \in start .. Len(line) : line[i] = Comma}
  IN  IF at = {} THEN Len(line) + 1 ELSE CHOOSE i \in at : \A j \in at : i <= j

\* A quoted field is left with the comma after it, if there is one.
AfterQuoted(line, end) ==
  LET past == IF end > Len(line) THEN end ELSE end + 1
  IN  IF past <= Len(line) /\ line[past] = Comma THEN past + 1 ELSE past

\* A line that ends with a comma or a quoted field has one empty cell more.
Cells(line) ==
  LET from[i \in 1 .. Len(line) + 1] ==
        IF i > Len(line) THEN <<<<>>>>
        ELSE IF line[i] = Quote
          THEN LET end == ClosingQuote(line, i + 1)
               IN  <<Unquoted(SubSeq(line, i + 1, end - 1))>> \o from[AfterQuoted(line, end)]
        ELSE LET comma == NextComma(line, i)
             IN  <<SubSeq(line, i, comma - 1)>>
                 \o (IF comma > Len(line) THEN <<>> ELSE from[comma + 1])
  IN  from[1]

-----------------------------------------------------------------------------
(* importCsv *)

\* The first column of each name; an alias counts as its name, any other name for nothing.
ColumnOf(names, column) ==
  LET at == {i \in DOMAIN names : names[i] = column}
  IN  IF at = {} THEN 0 ELSE CHOOSE i \in at : \A j \in at : i <= j
Missing(names) == {c \in Columns : ColumnOf(names, c) = 0}

\* A text without the spaces around it.
Trim(text) ==
  LET at == {i \in DOMAIN text : text[i] \notin Spaces}
  IN  IF at = {} THEN <<>>
      ELSE SubSeq(text, CHOOSE i \in at : \A j \in at : i <= j, CHOOSE i \in at : \A j \in at : j <= i)

\* The non-empty parts of a list in one cell, trimmed.
ListParts(text) ==
  LET parts == FoldLeft(LAMBDA acc, c : IF c = Semicolon THEN Append(acc, <<>>)
                                        ELSE Append(Front(acc), Append(Last(acc), c)),
                        <<<<>>>>, text)
  IN  SelectSeq([i \in DOMAIN parts |-> Trim(parts[i])], LAMBDA p : p # <<>>)

IsQuantity(text) == text # <<>> /\ text[1] \in Digits /\ text # <<"0">>

\* An item takes the quantity at its own place in the list, else the first.
QuantityOf(quantities, i) == IF i <= Len(quantities) THEN quantities[i] ELSE quantities[1]

ItemsOf(row) ==
  LET items == ListParts(row["item"])
      quantities == ListParts(row["quantity"])
  IN  IF quantities = <<>> THEN <<>>
      ELSE [i \in DOMAIN items |-> [name |-> items[i], quantity |-> QuantityOf(quantities, i)]]

\* Every check of a row; one that fails is reported and the row is left out.
Valid(row) ==
  /\ row["customer"] # <<>>
  /\ row["phone"] # <<>> /\ row["phone"][1] \in Digits
  /\ ItemsOf(row) # <<>> /\ \A i \in DOMAIN ItemsOf(row) : IsQuantity(ItemsOf(row)[i].quantity)
  /\ row["total"] # <<>> /\ row["total"][1] \in Digits

OrderFrom(row) == [customer |-> row["customer"], phone |-> row["phone"],
                   items |-> ItemsOf(row), total |-> row["total"]]
OrdersFrom(rows) ==
  FlattenSeq([i \in DOMAIN rows |-> IF Valid(rows[i]) THEN <<OrderFrom(rows[i])>> ELSE <<>>])

\* A cell is trimmed; one that is not there is empty.
Trimmed(row) == [c \in Columns |-> Trim(row[c])]
RowOf(line, names) ==
  LET cells == Cells(line)
  IN  Trimmed([c \in Columns |-> LET at == ColumnOf(names, c)
                                 IN  IF at <= Len(cells) THEN cells[at] ELSE <<>>])

\* Lines without a text are dropped before anything is counted.
WithoutBlanks(lines) ==
  FlattenSeq([i \in DOMAIN lines |-> IF lines[i] = BlankLine THEN <<>> ELSE <<lines[i]>>])
LinesOf(s) ==
  LET lines == [i \in DOMAIN s.rows |->
                  IF s.rows[i] = BlankLine THEN BlankLine
                  ELSE LineOf([k \in DOMAIN s.header |->
                                 IF s.header[k] \in Columns THEN s.rows[i][s.header[k]] ELSE <<"x">>],
                              s.quoteAll)]
  IN  WithoutBlanks(lines)

\* The whole file is read and checked before the first row is written.
Upload ==
  /\ upload.stage = "editing"
  /\ LET lines == LinesOf(sheet)
         rows == [i \in DOMAIN lines |-> RowOf(lines[i], sheet.header)]
         good == OrdersFrom(rows)
         bad == {i \in DOMAIN rows : ~Valid(rows[i])}
     IN  upload' = IF lines = <<>> \/ Missing(sheet.header) # {} \/ Len(lines) > ImportLimit THEN Refused
                   ELSE [stage |-> IF good = <<>> THEN "answered" ELSE "writing",
                         good |-> good, errors |-> {i + 1 : i \in bad}]
  /\ UNCHANGED <<sheet, stored, imports>>

\* One transaction inserts them all, or none when it fails or the API stops.
Insert ==
  /\ upload.stage = "writing"
  /\ upload' = [upload EXCEPT !.stage = "answered"]
  /\ stored' = stored \o upload.good /\ imports' = imports + 1
  /\ UNCHANGED sheet

InsertFails ==
  /\ upload.stage = "writing" /\ upload' = Refused
  /\ UNCHANGED <<sheet, stored, imports>>

\* The answer is lost, or the user sends the file again: nothing recognises it.
SendsAgain ==
  /\ upload.stage \in {"answered", "refused"} /\ imports < 2
  /\ upload' = Editing
  /\ UNCHANGED <<sheet, stored, imports>>

WritesRow ==
  /\ upload = Editing /\ imports = 0 /\ Len(sheet.rows) < MaxRowsIn
  /\ \E row \in Rows \cup {BlankLine} : sheet' = [sheet EXCEPT !.rows = Append(@, row)]
  /\ UNCHANGED <<upload, stored, imports>>

ImportInit ==
  /\ sheet \in [header : Headers, quoteAll : BOOLEAN, rows : {<<>>}]
  /\ upload = Editing /\ stored = <<>> /\ imports = 0

ImportNext == WritesRow \/ Upload \/ Insert \/ InsertFails \/ SendsAgain
ImportSpec == ImportInit /\ [][ImportNext]_importVars

ImportTypeOK ==
  /\ sheet.header \in Headers /\ Range(sheet.rows) \subseteq Rows \cup {BlankLine}
  /\ upload.stage \in {"editing", "writing", "answered", "refused"}
  /\ \A i \in DOMAIN stored : DOMAIN stored[i] = {"customer", "phone", "items", "total"}
  /\ imports \in 0 .. 2

-----------------------------------------------------------------------------
(***************************************************************************)
(* An import keeps the rows: what is inserted is, import by import, the good *)
(* rows of the sheet in their order, each text as it was written but for the *)
(* spaces around it, whatever the order of the columns, the quoting or the   *)
(* characters in a cell; each other row is reported at its place; and a line *)
(* of an export read by the same parser gives back its cells. (No cell holds *)
(* a line break: see the README.)                                            *)
(***************************************************************************)
ImportKeepsRows ==
  LET written == WithoutBlanks(sheet.rows)
      trimmed == [i \in DOMAIN written |-> Trimmed(written[i])]
      orders == OrdersFrom(trimmed)
      bad == {i + 1 : i \in {j \in DOMAIN trimmed : ~Valid(trimmed[j])}}
      Exported(row) == Joined(<<CsvCell(row["customer"]), CsvCell(row["item"])>>, Comma)
  IN  /\ stored = FlattenSeq([n \in 1 .. imports |-> orders])
      /\ upload.stage = "answered" => upload.errors = bad /\ upload.good = orders
      /\ upload = Editing =>
           \A i \in DOMAIN written :
             SubSeq(Cells(Exported(written[i])), 1, 2)
               = <<Neutral(written[i]["customer"]), Neutral(written[i]["item"])>>
=============================================================================
