--------------------------- MODULE BillReader ---------------------------
(***************************************************************************)
(* Input::getBillData: the bill of materials, a spreadsheet saved as       *)
(* comma separated text, is taken apart cell by cell into billData.  One   *)
(* step is one cell, or one name of a quoted list of identifiers.  A file  *)
(* that cannot be opened is a file without lines.                          *)
(*                                                                         *)
(* Of the characters of a line, only commas, quotes and digits matter.     *)
(* find answers Npos for what is not there, and what erase does with       *)
(* Npos + 1 = 0 is what happens to rows that have too few cells.           *)
(***************************************************************************)
EXTENDS Text

CONSTANTS Parts,       \* the parts that well-formed rows are about
          ListLimit    \* identifiers temp can have before push_back throws

Comma == ","
Quote == "\""

ASSUME BillAssumption == ListLimit \in Nat
ASSUME SeparatorsAreStrings == Comma \in STRING /\ Quote \in STRING

(* A cell, and what is left behind it; without a comma, all that is left,  *)
(* twice.                                                                  *)
Cell(text) == Substr(text, 0, Find(text, Comma))
AfterCellOrAll(text) ==
    IF Find(text, Comma) = Npos THEN <<>> ELSE Erase(text, Find(text, Comma) + 1)
AfterCell(text) == Erase(text, SizeT(Find(text, Comma) + 1))

EmptyPart ==
    [item |-> <<>>, quantity |-> <<>>, manufacturer |-> <<>>, partNumber |-> <<>>,
     identifier |-> <<>>, description |-> <<>>, dni |-> <<>>, status |-> <<>>,
     maxTemp |-> <<>>]

(* The cells that are only copied, and what comes behind each. *)
Behind == [item |-> "quantity", quantity |-> "manufacturer",
           manufacturer |-> "partNumber", partNumber |-> "identifier",
           dni |-> "status", status |-> "maxTemp"]

VARIABLES billFile,    \* the lines of the file
          billLines,   \* how many of them getline has taken
          billAt,      \* line, a cell, list (in a list), done or threw
          holder,      \* what is left of the line
          temp,        \* the part that is being read
          billData     \* the parts

billVars == <<billFile, billLines, billAt, holder, temp, billData>>

BillBegins == /\ billLines = 0
              /\ billAt = "line"
              /\ holder = <<>>
              /\ temp = EmptyPart
              /\ billData = <<>>
-------------------------------------------------------------------------
(* getline: only a line that begins with a digit is a part. *)
GetLine ==
    /\ billAt = "line"
    /\ billLines < Len(billFile)
    /\ billLines' = billLines + 1
    /\ holder' = billFile[billLines + 1]
    /\ billAt' = IF IsDigit(First(holder')) THEN "item" ELSE "line"
    /\ UNCHANGED <<billFile, temp, billData>>

EndOfFile ==
    /\ billAt = "line"
    /\ billLines = Len(billFile)
    /\ billAt' = "done"
    /\ UNCHANGED <<billFile, billLines, holder, temp, billData>>

CopyCell ==
    /\ billAt \in DOMAIN Behind
    /\ temp' = [temp EXCEPT ![billAt] = Cell(holder)]
    /\ holder' = AfterCell(holder)
    /\ billAt' = Behind[billAt]
    /\ UNCHANGED <<billFile, billLines, billData>>

(* An identifier goes to the end of temp.identifier, if there is memory.   *)
Push(name) ==
    /\ Len(temp.identifier) < ListLimit
    /\ temp' = [temp EXCEPT !.identifier = Append(@, name)]

OneIdentifier ==
    /\ billAt = "identifier"
    /\ First(holder) # Quote
    /\ Push(Cell(holder))
    /\ holder' = AfterCell(holder)
    /\ billAt' = "description"
    /\ UNCHANGED <<billFile, billLines, billData>>

OpenList ==
    /\ billAt = "identifier"
    /\ First(holder) = Quote
    /\ holder' = Erase(holder, 1)
    /\ billAt' = "list"
    /\ UNCHANGED <<billFile, billLines, temp, billData>>

(* A comma comes before the closing quote: another name follows. *)
ListName ==
    /\ billAt = "list"
    /\ First(holder) # Quote
    /\ Find(holder, Quote) > Find(holder, Comma)
    /\ Push(Cell(holder))
    /\ holder' = AfterCell(holder)
    /\ UNCHANGED <<billFile, billLines, billAt, billData>>

(* The last name of the list; without a closing quote it is found again    *)
(* and again.                                                              *)
LastListNameUnstored ==
    /\ billAt = "list"
    /\ First(holder) # Quote
    /\ Find(holder, Quote) <= Find(holder, Comma)
    /\ holder' = Erase(holder, Find(holder, Quote))
    /\ UNCHANGED <<billFile, billLines, billAt, temp, billData>>
LastListName ==
    /\ billAt = "list"
    /\ First(holder) # Quote
    /\ Find(holder, Quote) <= Find(holder, Comma)
    /\ Push(Substr(holder, 0, Find(holder, Quote)))
    /\ holder' = Erase(holder, Find(holder, Quote))
    /\ UNCHANGED <<billFile, billLines, billAt, billData>>

PushThrows ==
    /\ billAt = "list"
    /\ First(holder) # Quote
    /\ Len(temp.identifier) >= ListLimit
    /\ billAt' = "threw"
    /\ UNCHANGED <<billFile, billLines, holder, temp, billData>>

CloseListKeepingComma ==
    /\ billAt = "list"
    /\ First(holder) = Quote
    /\ holder' = Erase(holder, 1)
    /\ billAt' = "description"
    /\ UNCHANGED <<billFile, billLines, temp, billData>>
CloseList ==
    /\ billAt = "list"
    /\ First(holder) = Quote
    /\ holder' = Erase(holder, 2)
    /\ billAt' = "description"
    /\ UNCHANGED <<billFile, billLines, temp, billData>>

PlainDescription ==
    /\ billAt = "description"
    /\ First(holder) # Quote
    /\ temp' = [temp EXCEPT !.description = Cell(holder)]
    /\ holder' = AfterCell(holder)
    /\ billAt' = "dni"
    /\ UNCHANGED <<billFile, billLines, billData>>

(* Without a closing quote, Npos + 2 erases one character. *)
QuotedDescription ==
    /\ billAt = "description"
    /\ First(holder) = Quote
    /\ LET text == Erase(holder, 1)
       IN /\ temp' = [temp EXCEPT !.description = Substr(text, 0, Find(text, Quote))]
          /\ holder' = Erase(text, SizeT(Find(text, Quote) + 2))
    /\ billAt' = "dni"
    /\ UNCHANGED <<billFile, billLines, billData>>

(* What is left of the line is the temperature; the part is stored, and    *)
(* temp is as it was before.                                               *)
StorePartAndKeepList ==
    /\ billAt = "maxTemp"
    /\ billData' = Append(billData, [temp EXCEPT !.maxTemp = holder])
    /\ temp' = [EmptyPart EXCEPT !.identifier = temp.identifier]
    /\ holder' = <<>>
    /\ billAt' = "line"
    /\ UNCHANGED <<billFile, billLines>>
StorePart ==
    /\ billAt = "maxTemp"
    /\ billData' = Append(billData, [temp EXCEPT !.maxTemp = holder])
    /\ temp' = EmptyPart
    /\ holder' = <<>>
    /\ billAt' = "line"
    /\ UNCHANGED <<billFile, billLines>>
-------------------------------------------------------------------------
BillNext == \/ GetLine \/ EndOfFile \/ CopyCell \/ OneIdentifier
            \/ OpenList \/ ListName \/ LastListName \/ PushThrows \/ CloseList
            \/ PlainDescription \/ QuotedDescription \/ StorePart
-------------------------------------------------------------------------
(* The rows the bill is expected to have: plain cells without commas and   *)
(* quotes, a list of identifiers in quotes if there are several, and a     *)
(* description in quotes if there is a comma in it.  What is joined with   *)
(* commas, from the n-th text on; the cells of a part; its row.            *)
JoinedFrom(cells) ==
    LET from[n \in 1..Len(cells)] ==
           IF n = Len(cells) THEN cells[n] ELSE cells[n] \o <<Comma>> \o from[n + 1]
    IN from
Quoted(text) == <<Quote>> \o text \o <<Quote>>
CellsOf(part) ==
    <<part.item, part.quantity, part.manufacturer, part.partNumber,
      IF Len(part.identifier) = 1 THEN part.identifier[1]
      ELSE Quoted(JoinedFrom(part.identifier)[1]),
      IF Contains(part.description, Comma) THEN Quoted(part.description)
      ELSE part.description,
      part.dni, part.status, part.maxTemp>>
RowOf(part) == JoinedFrom(CellsOf(part))[1]

(* How many of the first lines are parts, and the n-th line that is one. *)
IsPart(line) == IsDigit(First(line))
PartsIn(lines) == Cardinality({m \in 1..lines : IsPart(billFile[m])})
PartLine(n) == billFile[Min({k \in 1..billLines : PartsIn(k) = n})]

(* Type invariant. *)
IsPartData(part) ==
    /\ DOMAIN part = DOMAIN EmptyPart
    /\ part.identifier \in Seq(Seq(STRING))
    /\ \A cell \in DOMAIN part \ {"identifier"} : part[cell] \in Seq(STRING)
BillTypeOK ==
    /\ billFile \in Seq(Seq(STRING))
    /\ billLines \in 0..Len(billFile)
    /\ billAt \in DOMAIN Behind \union
          {"line", "identifier", "list", "description", "maxTemp", "done", "threw"}
    /\ holder \in Seq(STRING)
    /\ IsPartData(temp)
    /\ billAt \in {"line", "done"} => temp = EmptyPart
    /\ \A n \in DOMAIN billData : IsPartData(billData[n])

(* What a part can be for its row to tell it: an identifier at least, no   *)
(* comma in a cell that is copied, none of the two in an identifier, no    *)
(* quote in the description, and a last identifier of a list that is not   *)
(* empty: its loop ends at the quote.                                      *)
FitsARow(part) ==
    /\ IsPartData(part) /\ part = [cell \in DOMAIN EmptyPart |-> part[cell]]
    /\ part.identifier # <<>>
    /\ \A cell \in DOMAIN part \ {"identifier", "description", "maxTemp"} :
          ~ Contains(part[cell], Comma)
    /\ \A n \in DOMAIN part.identifier :
          ~ Contains(part.identifier[n], Comma) /\ ~ Contains(part.identifier[n], Quote)
    /\ Len(part.identifier) > 1 => part.identifier[Len(part.identifier)] # <<>>
    /\ ~ Contains(part.description, Quote)

ASSUME PartsAssumption == \A part \in Parts : FitsARow(part)

(* Every row that begins with a digit becomes one part, and a well-formed  *)
(* one becomes the part it is about, whatever rows come before it, well-   *)
(* formed or not: nothing of an earlier row is left in it (Input.cpp:      *)
(* 14-114).                                                                *)
PartsAreReadBack ==
    /\ Len(billData) = PartsIn(billLines) - (IF billAt \in {"line", "done"} THEN 0 ELSE 1)
    /\ \A n \in DOMAIN billData : \A part \in Parts :
          PartLine(n) = RowOf(part) => billData[n] = part

(* The n-th cell of a row begins behind the comma that has n - 1 up to it, *)
(* or behind the last one, if there are fewer; it ends before the next.    *)
Commas(line) == {k \in DOMAIN line : line[k] = Comma}
UpTo(k, commas) == Cardinality({c \in commas : c <= k})
CellBegins(line, n) ==
    LET commas == Commas(line)
    IN Max({0} \union {k \in commas : UpTo(k, commas) < n})
CellEnds(line, n) ==
    LET begin == CellBegins(line, n)
    IN Min({Len(line) + 1} \union {k \in Commas(line) : k > begin})
Column(line, n) == SubSeq(line, CellBegins(line, n) + 1, CellEnds(line, n) - 1)

(* A row without quotes, however many cells it has: the cells go to the    *)
(* columns in order, one that is too short fills the rest with its last    *)
(* cell, and what is too many is taken for the temperature (Input.cpp:     *)
(* 19-92, where find answers npos).                                        *)
ColumnOf == [item |-> 1, quantity |-> 2, manufacturer |-> 3, partNumber |-> 4,
             identifier |-> 5, description |-> 6, dni |-> 7, status |-> 8, maxTemp |-> 9]
PlainPart(line) ==
    [cell \in DOMAIN ColumnOf |->
        CASE cell = "identifier" -> <<Column(line, ColumnOf[cell])>>
          [] cell = "maxTemp" -> SubSeq(line, CellBegins(line, ColumnOf[cell]) + 1, Len(line))
          [] OTHER -> Column(line, ColumnOf[cell])]
ShortRowRepeatsLastCell ==
    \A n \in DOMAIN billData :
       ~ Contains(PartLine(n), Quote) => billData[n] = PlainPart(PartLine(n))

(* The last quote of the row opens a cell: the list in it is never closed, *)
(* and the loop over its names has no other end than that of the memory.   *)
OpensLastCell(line) ==
    \E q \in DOMAIN line \ {1} : /\ line[q] = Quote
                                 /\ line[q - 1] = Comma
                                 /\ ~ Contains(SubSeq(line, q + 1, Len(line)), Quote)

(* A part without any identifier, whose identifier[0] saveData reads, only *)
(* comes of an empty pair of quotes in the row (Input.cpp:35-68,           *)
(* Output.cpp:56).                                                         *)
HasEmptyQuotes(line) ==
    \E q \in 2..Len(line) - 1 : /\ line[q - 1] = Comma
                                /\ line[q] = Quote /\ line[q + 1] = Quote
NoIdentifierMeansEmptyQuotes ==
    \A n \in DOMAIN billData :
       billData[n].identifier = <<>> => HasEmptyQuotes(PartLine(n))
=========================================================================
