------------------------------- MODULE Console -------------------------------
(***************************************************************************)
(* src/src/display.c and src/src/vga.c: the HAL's text console.  Every       *)
(* character goes out on the serial line; once HalpFbInit has found the      *)
(* Cirrus it is also painted on a screen of Cols by Rows characters.         *)
(***************************************************************************)
EXTENDS Integers, Sequences

CONSTANTS
  Cols, Rows,     \* what the font and the mode make of the screen
  VramRows,       \* rows of characters in the memory that is mapped
  Printable,      \* characters that advance the cursor
  MaxColumn       \* bound on HalpColumn, which the code never wraps

ConsoleAssumption ==
  /\ Cols \in Nat \ {0} /\ Rows \in Nat \ {0}
  /\ VramRows \in Nat /\ Rows < VramRows   \* the megabyte that is mapped holds more than the screen
  /\ MaxColumn \in Nat /\ Cols < MaxColumn

Blank == "blank"
Line  == [0 .. Cols - 1 -> Printable \cup {Blank}]
BlankLine == [c \in 0 .. Cols - 1 |-> Blank]

VARIABLES
  active,     \* HalpFbActive
  col, row,   \* HalpFbCol, HalpFbRow
  vram,       \* the painted rows of VRAM, those below the screen too
  column,     \* HalpColumn
  paper,      \* the last lines, as a terminal prints them on endless paper
  moved       \* a caller has put the cursor elsewhere since the screen was cleared

consoleVars == <<active, col, row, vram, column, paper, moved>>

Visible == 0 .. Rows - 1

Init ==
  /\ active = FALSE /\ col = 0 /\ row = 0 /\ column = 0
  /\ vram = [r \in 0 .. VramRows - 1 |-> BlankLine]
  /\ paper = <<BlankLine>> /\ moved = FALSE

\* HalpFbInit: clears the screen when the card, its aperture and the font are there.
HalpFbInit ==
  /\ ~active
  /\ \E found \in BOOLEAN :
       /\ active' = found
       /\ vram' = [r \in DOMAIN vram |-> IF found /\ r \in Visible THEN BlankLine ELSE vram[r]]
  /\ col' = 0 /\ row' = 0 /\ paper' = <<BlankLine>> /\ moved' = FALSE
  /\ UNCHANGED column

-----------------------------------------------------------------------------
(* Painting. *)

\* Mutant: the last line keeps what it had.
ScrolledKeepingLast(v) ==
  [r \in DOMAIN v |-> IF r + 1 \in Visible THEN v[r + 1] ELSE v[r]]

\* HalpFbScroll.
Scrolled(v) ==
  [r \in DOMAIN v |-> IF r + 1 \in Visible THEN v[r + 1] ELSE IF r = Rows - 1 THEN BlankLine ELSE v[r]]

\* HalpFbPutChar('\n'), on [col, row, vram].
NewLine(s) ==
  IF s.row + 1 < Rows THEN [s EXCEPT !.col = 0, !.row = @ + 1]
  ELSE [s EXCEPT !.col = 0, !.vram = Scrolled(@)]

\* Mutant: the line is wrapped one character late.
WrappedLate(s) == IF s.col > Cols THEN NewLine(s) ELSE s

Wrapped(s) == IF s.col >= Cols THEN NewLine(s) ELSE s

\* A glyph beyond the last column is painted at the beginning of the next
\* row's pixels, so only its row counts here.
Glyph(s, ch) ==
  [s EXCEPT !.vram = IF s.row \in DOMAIN @ /\ s.col < Cols THEN [@ EXCEPT ![s.row][s.col] = ch] ELSE @,
            !.col = @ + 1]

HalpFbPutChar(s, ch) ==
  CASE ch = "cr" -> [s EXCEPT !.col = 0]
    [] ch = "lf" -> NewLine(s)
    [] OTHER     -> Glyph(Wrapped(s), ch)

\* HalpPutChar: the line feed is preceded by a return of its own, and only a
\* line feed brings the column back.
Sent(ch) == IF ch = "lf" THEN 0 ELSE IF ch = "cr" THEN column ELSE column + 1

-----------------------------------------------------------------------------
(* The paper: no screen, no scrolling, only the last Rows lines kept. *)

Fed(p) == IF Len(p) = Rows THEN Append(Tail(p), BlankLine) ELSE Append(p, BlankLine)
Printed(p, pen, ch) ==
  CASE ch = "cr" -> p
    [] ch = "lf" -> Fed(p)
    [] OTHER     -> LET q == IF pen = Cols THEN Fed(p) ELSE p
                    IN  [q EXCEPT ![Len(q)][IF pen = Cols THEN 0 ELSE pen] = ch]

\* One turn of HalDisplayString's loop.
HalDisplayString(ch) ==
  /\ Sent(ch) <= MaxColumn
  /\ column' = Sent(ch)
  /\ IF active
       THEN LET s == HalpFbPutChar([col |-> col, row |-> row, vram |-> vram], ch)
            IN  /\ col' = s.col /\ row' = s.row /\ vram' = s.vram
                /\ paper' = IF moved THEN paper ELSE Printed(paper, col, ch)
       ELSE UNCHANGED <<col, row, vram, paper>>
  /\ UNCHANGED <<active, moved>>

\* HalpPrint writes the HAL's own lines to the serial line alone.
HalpPrint(ch) ==
  /\ Sent(ch) <= MaxColumn
  /\ column' = Sent(ch)
  /\ UNCHANGED <<active, col, row, vram, paper, moved>>

Accepted(at, limit) == at <= limit

\* Whoever owns the screen puts the cursor somewhere.
HalSetDisplayParameters(c, r) ==
  /\ IF active
       THEN /\ col' = IF Accepted(c, Cols) THEN c ELSE col
            /\ row' = IF Accepted(r, Rows) THEN r ELSE row
            /\ UNCHANGED column
       ELSE column' = c /\ UNCHANGED <<col, row>>
  /\ moved' = (moved \/ col' # col \/ row' # row)
  /\ paper' = IF moved' THEN <<BlankLine>> ELSE paper
  /\ UNCHANGED <<active, vram>>

Next ==
  \/ HalpFbInit
  \/ \E ch \in Printable \cup {"cr", "lf"} : HalDisplayString(ch) \/ HalpPrint(ch)
  \/ \E c \in 0 .. Cols + 1, r \in 0 .. VramRows : HalSetDisplayParameters(c, r)

-----------------------------------------------------------------------------
(* Properties. *)

TypeOK ==
  /\ active \in BOOLEAN /\ moved \in BOOLEAN
  /\ vram \in [0 .. VramRows - 1 -> Line]
  /\ paper \in Seq(Line) /\ Len(paper) \in 1 .. Rows
  /\ column \in 0 .. MaxColumn

\* A cursor that was asked for (HalQueryDisplayParameters) is one that
\* HalSetDisplayParameters takes back, and no glyph is painted beyond the
\* megabyte that is mapped.
CursorCanBePutBack ==
  /\ col <= Cols /\ row <= Rows
  /\ active => row < VramRows

\* "the Cirrus console shows it when active" (display.c:78): the screen shows
\* the last lines displayed, wrapped and overprinted as on paper, and nothing
\* else, as long as nobody else has moved the cursor.
ShowsTheLastLines ==
  active /\ ~moved =>
    /\ row = Len(paper) - 1
    /\ \A r \in Visible : vram[r] = IF r <= row THEN paper[r + 1] ELSE BlankLine
    /\ \A r \in DOMAIN vram \ Visible : vram[r] = BlankLine

\* The screen and its cursor (vga.c:144-157).
ScreenFollowsPaper == CursorCanBePutBack /\ ShowsTheLastLines
=============================================================================
