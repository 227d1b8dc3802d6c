------------------------------ MODULE ScheduleSheet ------------------------------
(***************************************************************************)
(* The reading of an Excel file with the master table of starts, before    *)
(* ScheduleImport has rows to reconcile: the first sheet with a header is  *)
(* read row by row; a row that is only a date opens a day, and dates the   *)
(* rows below it that have no date of their own.  Source:                  *)
(* schedule_import.py.                                                     *)
(*                                                                         *)
(* A cell is what the code can read from it.  One cell may be read as a    *)
(* day of the table and, beside a name, as a time: "10.10".  A written     *)
(* date is [on, year], with the year None where it is left out.  Names are *)
(* of a kind.  A text has a size, of which a comment holds MaxComment; the *)
(* places, the shift and notes in brackets are left out, and so are the    *)
(* separators of a comment.                                                *)
(***************************************************************************)
EXTENDS Naturals, Sequences, FiniteSets, SequencesExt

CONSTANTS
    Uploads,          \* files that users choose
    Rows,             \* rows of their sheets
    MaxFile,          \* MAX_IMPORT_BYTES
    MaxSheets,        \* sheets that are searched for a header
    MaxParsed,        \* MAX_IMPORT_ROWS
    MaxExtra,         \* MAX_EXTRA_COLUMNS, cells read to the right of the comment
    MaxComment,       \* MAX_COMMENT
    MaxRows,          \* bound of a sheet
    ThisYear,
    Unread,           \* the text of a time that was not understood
    None

VARIABLES
    reading,          \* how far the file is
    sheets,           \* sheets looked at
    sheet,            \* rows below the header that were read
    day,              \* current_date
    parsed            \* rows of the result

vars == <<reading, sheets, sheet, day, parsed>>

Init == reading = "chosen" /\ sheets = 0 /\ sheet = <<>> /\ day = None /\ parsed = <<>>

-----------------------------------------------------------------------------
(* The file.                                                               *)

\* The payload alone is looked at: the file's name and its type are not passed on.
Accepted(file) == file.size \in 1..MaxFile /\ file.content = "workbook"

Upload(file) ==
    /\ reading = "chosen"
    /\ reading' = IF Accepted(file) THEN "looking" ELSE "refused"
    /\ UNCHANGED <<sheets, sheet, day, parsed>>

\* A sheet without a header is passed over.
Look(found) ==
    /\ reading = "looking" /\ sheets < MaxSheets
    /\ sheets' = sheets + 1
    /\ reading' = IF found THEN "rows" ELSE "looking"
    /\ UNCHANGED <<sheet, day, parsed>>

NoHeader ==
    /\ reading = "looking" /\ reading' = "refused"
    /\ UNCHANGED <<sheets, sheet, day, parsed>>

-----------------------------------------------------------------------------
(* Dates and times.                                                        *)


\* _resolve_year: a date without a year is of the year of the day above.
Resolved(written, context) ==
    [on |-> written.on,
     year |-> CASE written.year # None -> written.year
                [] written.year = None /\ context # None -> context.year
                [] OTHER -> ThisYear]

\* A date that replaces that of the day: an Excel date or serial number, a text
\* with a date and a time, a text that can be a date only.
Dating == {"date", "serial", "dated", "date only"}
TimeOf(cell) ==
    LET own == IF cell.form \in Dating THEN Resolved(cell.day, day) ELSE None
        other == IF own = day THEN None ELSE own
    IN [day |-> other,
        from |-> cell.from,
        to |-> IF cell.to # None /\ cell.to >= cell.from THEN cell.to ELSE None,
        note |-> cell.from = None /\ other = None
                 /\ cell.form \in {"serial", "dated", "words", "note"}]

-----------------------------------------------------------------------------
(* The rows.                                                               *)

Named(row) == row.name.kind # "blank"
Filled(row) ==
    (IF Named(row) THEN {"name"} ELSE {})
    \cup (IF row.time.form # "blank" THEN {"time"} ELSE {})
    \cup (IF row.place THEN {"place"} ELSE {})
    \cup (IF row.comment # None THEN {"comment"} ELSE {})

\* A date in the column of names, or in that of times, with nothing beside it.
Written(row) == IF Named(row) THEN row.name.day ELSE row.time.day
OpensDay(row) ==
    Written(row) # None /\ Filled(row) = (IF Named(row) THEN {"name"} ELSE {"time"})

\* A slot without a name is kept for the report; a comment alone is not.
Kept(row) == Named(row) \/ row.time.form # "blank" \/ row.place

\* The cells read after the places, from left to right.
IsPhone(cell) == cell.phone
CellsRead(row) ==
    LET extra == SubSeq(row.extra, 1, Min({MaxExtra, Len(row.extra)}))
    IN SelectSeq(<<row.comment>> \o extra, LAMBDA cell : cell # None)

\* The first phone is the row's; a second one goes to the comment like a text.
PhoneAt(row) == SelectInSeq(CellsRead(row), IsPhone)
PhoneOf(row) == IF PhoneAt(row) = 0 THEN None ELSE CellsRead(row)[PhoneAt(row)]
Comments(row) ==
    IF PhoneAt(row) = 0 THEN CellsRead(row) ELSE RemoveAt(CellsRead(row), PhoneAt(row))

\* Every text once, where it stands first.
Distinct(texts) ==
    FoldLeft(LAMBDA kept, text : IF text \in ToSet(kept) THEN kept ELSE Append(kept, text), <<>>, texts)

\* _clip: the texts that are whole before the limit.
Size(texts) == FoldLeft(LAMBDA sum, text : sum + text.size, 0, texts)
Clip(texts) ==
    SubSeq(texts, 1, Max({k \in 0..Len(texts) : Size(SubSeq(texts, 1, k)) <= MaxComment}))

Slot(row) ==
    [at |-> Len(sheet) + 1, kind |-> "skip", day |-> day, from |-> None, to |-> None,
     phone |-> None, comment |-> <<>>, clipped |-> FALSE, error |-> day = None]
Line(row) ==
    LET time == TimeOf(row.time)
        dated == IF time.day # None THEN time.day ELSE day
        full == Distinct(Comments(row) \o (IF time.note THEN <<Unread>> ELSE <<>>))
    IN [at |-> Len(sheet) + 1, kind |-> row.name.kind, day |-> dated,
        from |-> time.from, to |-> time.to, phone |-> PhoneOf(row),
        comment |-> Clip(full), clipped |-> Clip(full) # full,
        error |-> row.name.kind = "skip" /\ dated = None]
Parse(row) == IF Named(row) THEN Line(row) ELSE Slot(row)

OpenDay(row) ==
    /\ OpensDay(row)
    /\ day' = Resolved(Written(row), day)
    /\ UNCHANGED parsed

DataRow(row) ==
    /\ ~OpensDay(row)
    /\ parsed' = IF Kept(row) THEN Append(parsed, Parse(row)) ELSE parsed
    /\ UNCHANGED day

\* What is below MaxParsed parsed rows is not read.
ReadRow(row) ==
    /\ reading = "rows" /\ Len(parsed) < MaxParsed /\ Len(sheet) < MaxRows
    /\ sheet' = Append(sheet, row)
    /\ OpenDay(row) \/ DataRow(row)
    /\ UNCHANGED <<reading, sheets>>

\* A header without rows is refused, whatever the sheets behind it hold.
EndOfSheet ==
    /\ reading = "rows"
    /\ reading' = IF parsed = <<>> THEN "refused" ELSE "parsed"
    /\ UNCHANGED <<sheets, sheet, day, parsed>>

Choose ==
    /\ reading \in {"parsed", "refused"}
    /\ reading' = "chosen" /\ sheets' = 0 /\ sheet' = <<>> /\ day' = None /\ parsed' = <<>>

Next ==
    \/ \E file \in Uploads : Upload(file)
    \/ \E found \in BOOLEAN : Look(found)
    \/ NoHeader
    \/ \E row \in Rows : ReadRow(row)
    \/ EndOfSheet \/ Choose

Spec == Init /\ [][Next]_vars

-----------------------------------------------------------------------------
(* What the rows say, without reading them in order.                       *)

DaysAbove(k) == {j \in 1..(k - 1) : OpensDay(sheet[j])}
DayAbove(k) ==
    IF DaysAbove(k) = {} THEN None
    ELSE LET dated == {j \in DaysAbove(k) : Written(sheet[j]).year # None}
         IN [on |-> Written(sheet[Max(DaysAbove(k))]).on,
             year |-> IF dated = {} THEN ThisYear ELSE Written(sheet[Max(dated)]).year]

\* Every row is dated by what is written beside its name, else by the nearest
\* day above it; a year that is left out is that of the last one written above.
DatesAreRead ==
    \A i \in DOMAIN parsed :
        LET e == parsed[i]
            row == sheet[e.at]
        IN e.day = IF Named(row) /\ row.time.form \in Dating
                   THEN LET above == DayAbove(e.at) IN
                        [on |-> row.time.day.on,
                         year |-> CASE row.time.day.year # None -> row.time.day.year
                                    [] row.time.day.year = None /\ above # None -> above.year
                                    [] OTHER -> ThisYear]
                   ELSE DayAbove(e.at)

\* What stands in the cells read, and a time that was not understood, except
\* beside a date, but is neither the row's phone nor in its comment.
Lost(e) ==
    LET row == sheet[e.at]
    IN (ToSet(CellsRead(row)) \cup (IF row.time.form \in {"words", "note"} THEN {Unread} ELSE {}))
         \ ({e.phone} \cup ToSet(e.comment))

\* No row but the days and bare comments is left out, and none is read twice; a
\* text of a named row, or a time that was not understood, is lost only where
\* the comment is full, and exactly then the row carries a warning.  What
\* stands beyond MaxExtra cells after the comment is not claimed.
NothingIsLost ==
    /\ \A i, j \in DOMAIN parsed : i < j => parsed[i].at < parsed[j].at
    /\ {parsed[i].at : i \in DOMAIN parsed}
         = {k \in DOMAIN sheet : ~OpensDay(sheet[k]) /\ Kept(sheet[k])}
    /\ \A i \in DOMAIN parsed : Named(sheet[parsed[i].at]) =>
         /\ parsed[i].clipped <=> Lost(parsed[i]) # {}
         /\ Lost(parsed[i]) # {} =>
              \E text \in Lost(parsed[i]) : Size(parsed[i].comment) + text.size > MaxComment

=============================================================================
