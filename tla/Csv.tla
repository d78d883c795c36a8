--------------------------------- MODULE Csv ---------------------------------
(***************************************************************************)
(* The spreadsheet format a collection is exported to and imported from    *)
(* (packages/security/src/csv.ts, packages/core/src/collections.ts), as    *)
(* operators on texts.  A text is a sequence of characters.                *)
(***************************************************************************)
EXTENDS Integers, Sequences, SequencesExt

CONSTANTS
    RowLimit,       \* parseCsv's maxRows, the header excluded
    SizeLimit,      \* parseCsv's maxBytes
    Columns,        \* the columns an import knows
    Required,       \* and those it needs
    Unreadable

ASSUME CsvAssumption ==
    RowLimit \in Nat /\ SizeLimit \in Nat /\ Required \subseteq Columns

Quote == "\""
Comma == ","
CR == "\r"
LF == "\n"
Space == " "
ByteOrderMark == "BOM"
Blanks == {Space, CR, LF, "\t", ByteOrderMark}
Formula == {"=", "+", "-", "@", "\t", CR}
-----------------------------------------------------------------------------
\* Writing.  A cell a spreadsheet would take for a formula is made text first.
Guarded(cell) ==
    IF cell # <<>> /\ Head(cell) \in Formula THEN <<"'">> \o cell ELSE cell

QuotedCell(cell) == <<Quote>> \o Guarded(cell) \o <<Quote>>
CsvCell(cell) ==
    <<Quote>>
    \o FlattenSeq([i \in DOMAIN Guarded(cell) |->
           LET c == Guarded(cell)[i] IN IF c = Quote THEN <<c, c>> ELSE <<c>>])
    \o <<Quote>>

Joined(texts, between) ==
    FlattenSeq([i \in DOMAIN texts |-> IF i = 1 THEN texts[i] ELSE between \o texts[i]])

CsvRow(cells) == Joined([i \in DOMAIN cells |-> CsvCell(cells[i])], <<Comma>>)
ToCsv(rows) == Joined([i \in DOMAIN rows |-> CsvRow(rows[i])], <<CR, LF>>)
-----------------------------------------------------------------------------
\* Reading, one character at a time.  "closing" and "return" stand for the
\* looks ahead: after a quote inside quotes, and after a carriage return.
Blank == [rows |-> <<>>, row |-> <<>>, field |-> <<>>, mode |-> "plain", problem |-> "none"]

EndField(s) == [s EXCEPT !.row = Append(@, s.field), !.field = <<>>]

\* endRow: a row with nothing in it is no row.
EndRow(s) ==
    LET row == Append(s.row, s.field)
        rows == IF row = <<<<>>>> THEN s.rows ELSE Append(s.rows, row)
    IN  [s EXCEPT !.rows = rows, !.row = <<>>, !.field = <<>>,
                  !.problem = IF Len(rows) > RowLimit + 1 THEN "limit" ELSE @]

Plain(s, c) ==
    CASE c = Quote /\ s.field # <<>> -> [s EXCEPT !.problem = "format"]
      [] c = Quote /\ s.field = <<>> -> [s EXCEPT !.mode = "quoted"]
      [] c = Comma -> EndField(s)
      [] c = LF -> EndRow(s)
      [] c = CR -> [EndRow(s) EXCEPT !.mode = "return"]
      [] OTHER -> [s EXCEPT !.field = Append(@, c)]

Reads(s, c) ==
    CASE s.problem # "none" -> s
      [] s.mode = "quoted" /\ c = Quote -> [s EXCEPT !.mode = "closing"]
      [] s.mode = "quoted" /\ c # Quote -> [s EXCEPT !.field = Append(@, c)]
      [] s.mode = "closing" /\ c = Quote -> [s EXCEPT !.mode = "quoted", !.field = Append(@, c)]
      [] s.mode = "return" /\ c = LF -> [s EXCEPT !.mode = "plain"]
      [] OTHER -> Plain([s EXCEPT !.mode = "plain"], c)

\* trim, of a cell.
Trimmed(cell) ==
    LET marks == {i \in DOMAIN cell : cell[i] \notin Blanks}
    IN  IF marks = {} THEN <<>>
        ELSE SubSeq(cell, CHOOSE i \in marks : \A j \in marks : i <= j,
                          CHOOSE i \in marks : \A j \in marks : i >= j)

\* parseCsv: a header and its rows, or the problem with the file.
ParseCsv(text) ==
    LET body == IF text # <<>> /\ Head(text) = ByteOrderMark THEN Tail(text) ELSE text
        read == FoldLeft(Reads, Blank, body)
        last == IF read.field # <<>> \/ read.row # <<>> THEN EndRow(read) ELSE read
        problem == CASE Len(text) > SizeLimit -> "limit"
                     [] read.problem # "none" -> read.problem
                     [] read.mode = "quoted" -> "format"
                     [] last.rows = <<>> -> "format"
                     [] OTHER -> last.problem
    IN  IF problem = "none"
        THEN [problem |-> problem, rows |-> Tail(last.rows),
              header |-> [j \in DOMAIN Head(last.rows) |-> Trimmed(Head(last.rows)[j])]]
        ELSE [problem |-> problem, header |-> <<>>, rows |-> <<>>]

\* mapCsvRows: each row of the right length as a record, with its cells trimmed
\* and the line of the file it is on.
Records(doc) ==
    [i \in {j \in DOMAIN doc.rows : Len(doc.rows[j]) = Len(doc.header)} |->
        [c \in Range(doc.header) |->
            LET columns == {j \in DOMAIN doc.header : doc.header[j] = c}
            IN  Trimmed(doc.rows[i][CHOOSE j \in columns : \A k \in columns : j >= k])]]

\* validateCollectionCsvHeader: one message for each thing wrong with it.
HeaderIsGood(header) ==
    /\ Range(header) \subseteq Columns
    /\ Required \subseteq Range(header)
    /\ IsInjective(header)
-----------------------------------------------------------------------------
\* Money: an amount is its whole part and the digits after the point.
FormatCents(cents) ==
    [whole |-> cents \div 100, fraction |-> <<(cents % 100) \div 10, cents % 10>>]

\* parseMoneyToCents
ParseMoney(amount) ==
    LET f == amount.fraction
    IN  CASE Len(f) = 0 -> amount.whole * 100
          [] Len(f) = 1 -> amount.whole * 100 + f[1] * 10
          [] Len(f) = 2 -> amount.whole * 100 + f[1] * 10 + f[2]
          [] OTHER -> Unreadable
=============================================================================
