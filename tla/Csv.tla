-------------------------------- MODULE Csv --------------------------------
(***************************************************************************)
(* parseCsv of contact/contact.service.ts, one iteration of its loop at a  *)
(* time, on the text of a table: "q" is the quote, "c" the comma, "r" and  *)
(* "n" the line end's characters, anything else an ordinary character.     *)
(***************************************************************************)
EXTENDS Integers, Sequences

CONSTANT Table   \* tables to read back

\* A table that ends in a row of one empty cell has the text of one without it.
ASSUME CsvAssumption ==
    \A t \in Table :
        /\ t \in Seq(Seq(Seq(STRING)))
        /\ \A i \in DOMAIN t : t[i] # <<>>
        /\ t # <<>> => t[Len(t)] # << <<>> >>

VARIABLES
    table_,   \* the table
    text,     \* its text
    pos,      \* i: characters read so far
    cur,      \* the cell being read
    cells,    \* the row being read
    out,      \* the rows read
    quoted    \* inQuotes

csvVars == <<table_, text, pos, cur, cells, out, quoted>>

-----------------------------------------------------------------------------
(* How a spreadsheet writes a table. *)

\* The concatenation of the sequences in ss from each of them on.
From(ss) ==
    LET rest[i \in 1 .. Len(ss) + 1] == IF i > Len(ss) THEN <<>> ELSE ss[i] \o rest[i + 1]
    IN  rest
Flat(ss) == From(ss)[1]

\* A cell with a special character is quoted, and its quotes are doubled.
Special  == {"q", "c", "r", "n"}
Quote(s) == IF \E i \in DOMAIN s : s[i] \in Special THEN <<"q">> ELSE <<>>
Chars(s) == [i \in 1 .. Len(s) |-> IF s[i] = "q" THEN <<"q", "q">> ELSE <<s[i]>>]
Cell(s)  == Quote(s) \o (Flat(Chars(s)) \o Quote(s))

Cells(r) == [i \in 1 .. Len(r) |-> (IF i = 1 THEN <<>> ELSE <<"c">>) \o Cell(r[i])]
EndOfLine == {<<"n">>, <<"r", "n">>}
Lines(t, eol, last) ==
    [i \in 1 .. Len(t) |-> Flat(Cells(t[i])) \o (IF i < Len(t) \/ last THEN eol ELSE <<>>)]

\* With either line end, and with or without one after the last row.
Texts(t) == {Flat(Lines(t, eol, last)) : eol \in EndOfLine, last \in BOOLEAN}

-----------------------------------------------------------------------------

CsvInit ==
    /\ table_ \in Table
    /\ text \in Texts(table_)
    /\ pos = 0 /\ cur = <<>> /\ cells = <<>> /\ out = <<>> /\ quoted = FALSE

Ahead(k) == IF pos + k <= Len(text) THEN text[pos + k] ELSE "end"

\* Within quotes: a doubled quote stands for one, a single one ends them.
CloseAtAnyQuote ==
    /\ quoted /\ pos < Len(text)
    /\ IF Ahead(1) = "q"
       THEN quoted' = FALSE /\ pos' = pos + 1 /\ UNCHANGED cur
       ELSE cur' = Append(cur, Ahead(1)) /\ pos' = pos + 1 /\ UNCHANGED quoted
    /\ UNCHANGED <<table_, text, cells, out>>

ReadQuoted ==
    /\ quoted /\ pos < Len(text)
    /\ CASE Ahead(1) = "q" /\ Ahead(2) = "q" ->
              cur' = Append(cur, "q") /\ pos' = pos + 2 /\ UNCHANGED quoted
         [] Ahead(1) = "q" /\ Ahead(2) # "q" ->
              quoted' = FALSE /\ pos' = pos + 1 /\ UNCHANGED cur
         [] OTHER -> cur' = Append(cur, Ahead(1)) /\ pos' = pos + 1 /\ UNCHANGED quoted
    /\ UNCHANGED <<table_, text, cells, out>>

ReadPlain ==
    /\ ~quoted /\ pos < Len(text)
    /\ pos' = pos + 1
    /\ quoted' = (Ahead(1) = "q")
    /\ cur' = CASE Ahead(1) \in {"c", "n"} -> <<>>
                [] Ahead(1) \in {"q", "r"} -> cur
                [] OTHER                   -> Append(cur, Ahead(1))
    /\ cells' = CASE Ahead(1) = "c" -> Append(cells, cur)
                  [] Ahead(1) = "n" -> <<>>
                  [] OTHER          -> cells
    /\ out' = IF Ahead(1) = "n" THEN Append(out, Append(cells, cur)) ELSE out
    /\ UNCHANGED <<table_, text>>

\* After the loop: the row that no line end has closed.
LastRow ==
    /\ pos = Len(text)
    /\ out' = IF cur # <<>> \/ cells # <<>> THEN Append(out, Append(cells, cur)) ELSE out
    /\ pos' = pos + 1
    /\ UNCHANGED <<table_, text, cur, cells, quoted>>

CsvNext == ReadQuoted \/ ReadPlain \/ LastRow

CsvSpec == CsvInit /\ [][CsvNext]_csvVars

-----------------------------------------------------------------------------

\* "Handles quoted fields with embedded commas/newlines and doubled quotes":
\* the cells come back as the spreadsheet had them, whatever its line ends.
CsvRoundTrip == pos > Len(text) => out = table_
=============================================================================
