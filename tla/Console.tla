--------------------------------- MODULE Console ---------------------------------
(***************************************************************************)
(* What a program prints, and where on its line (src/runtime/Console.cpp): *)
(* values one after another, each with a space after it, texts, and grids  *)
(* whose columns line up.  A value is the width it is printed in.          *)
(***************************************************************************)
EXTENDS Integers, SequencesExt

CONSTANTS
  Cells,     \* widths of what is printed, ints and texts
  Grids,     \* arrays of numbers: whether of reals, and their rows of cells
  Asked,     \* arguments of prec()
  MaxColumn  \* bound: how far a line goes

ASSUME ConsoleAssumption ==
  /\ Cells \subseteq Nat /\ Asked \subseteq Int
  /\ Grids \subseteq [reals: BOOLEAN, rows: Seq(Seq(Nat) \ {<<>>}) \ {<<>>}]  \* checkExtent()
  /\ MaxColumn \in Nat

VARIABLES
  column,        \* characters on the line
  lineHasText,   \* lineHasText_
  scalarPlaces,  \* scalarPlaces_
  gridPlaces,    \* gridPlaces_
  printed        \* what was printed last, and where a grid's cells end

consoleVars == <<column, lineHasText, scalarPlaces, gridPlaces, printed>>

DefaultScalarPlaces == 7
DefaultGridPlaces == 6
MostPlaces == 24

Something == [what |-> "something"]

ConsoleInit ==
  /\ column = 0 /\ lineHasText = FALSE
  /\ scalarPlaces = DefaultScalarPlaces /\ gridPlaces = DefaultGridPlaces
  /\ printed = Something

-------------------------------------------------------------------------------
room == column < MaxColumn

\* emit() and the space every value has after it.
Emit(width) ==
  /\ column' = column + width + 1
  /\ lineHasText' = TRUE
  /\ UNCHANGED <<scalarPlaces, gridPlaces>>

\* Mutant: printf(), and the line is forgotten.
PrintIntBare(width) ==
  /\ room
  /\ column' = column + width + 1
  /\ printed' = Something
  /\ UNCHANGED <<lineHasText, scalarPlaces, gridPlaces>>

PrintInt(width) == room /\ Emit(width) /\ printed' = Something

\* A text up to its NUL, and a real spelled by Shortest.
PrintText(width) == room /\ Emit(width) /\ printed' = Something

\* fixed(): the point and the places after it.
Fraction(places) == IF places = 0 THEN 0 ELSE 1 + places

PrintFixed(width) == PrintText(width + Fraction(scalarPlaces))

\* printChar(): NUL is only the space; a newline begins a line, with a space on it.
PrintChar(c) ==
  /\ room
  /\ column' = CASE c = "NUL" -> column + 1 [] c = "newline" -> 1 [] c = "letter" -> column + 2
  /\ lineHasText' = TRUE
  /\ printed' = Something
  /\ UNCHANGED <<scalarPlaces, gridPlaces>>

\* cell(), collect(): what the rows need, the NULs of texts nothing.
Widths(grid) ==
  LET rows == grid.rows
      places == IF grid.reals THEN Fraction(gridPlaces) ELSE 0
  IN  UNION {{rows[i][c] + places : c \in DOMAIN rows[i]} : i \in DOMAIN rows}

\* Where the cells of a row end that begins at a column.
Ends(row, width, begin) == [c \in DOMAIN row |-> begin + c * width + 2 * (c - 1)]

\* printArray(): several rows begin on a line of their own, one row where it is.
PrintArray(grid) ==
  /\ room
  /\ LET rows == grid.rows
         width == Max(Widths(grid))
         breaks == Len(rows) > 1 /\ lineHasText
         begin(i) == IF i = 1 /\ ~breaks THEN column ELSE 0
         last == Ends(rows[Len(rows)], width, begin(Len(rows)))
     IN /\ column' = last[Len(last)] + 1
        /\ printed' = [what |-> "grid", empty |-> breaks /\ column = 0,
                       ends |-> [i \in DOMAIN rows |-> Ends(rows[i], width, begin(i))]]
  /\ lineHasText' = TRUE
  /\ UNCHANGED <<scalarPlaces, gridPlaces>>

EndLine ==
  /\ column' = 0
  /\ lineHasText' = FALSE
  /\ printed' = Something
  /\ UNCHANGED <<scalarPlaces, gridPlaces>>

\* setPlaces(), resetPlaces()
SetPlaces(asked) ==
  /\ scalarPlaces' = IF asked < 0 THEN DefaultScalarPlaces ELSE Min({asked, MostPlaces})
  /\ gridPlaces' = IF asked < 0 THEN DefaultGridPlaces ELSE Min({asked, MostPlaces})
  /\ printed' = Something
  /\ UNCHANGED <<column, lineHasText>>

ConsoleNext ==
  \/ \E w \in Cells : PrintInt(w) \/ PrintText(w) \/ PrintFixed(w)
  \/ \E c \in {"NUL", "newline", "letter"} : PrintChar(c)
  \/ \E grid \in Grids : PrintArray(grid)
  \/ EndLine
  \/ \E n \in Asked : SetPlaces(n)

ConsoleSpec == ConsoleInit /\ [][ConsoleNext]_consoleVars

-------------------------------------------------------------------------------
\* Whatever stood on the line before, the columns of a grid line up, and it is not
\* set off by an empty line (Console.cpp: printArray(), lineHasText_).
GridsLineUp ==
  printed.what = "grid" =>
    /\ \A i, j \in DOMAIN printed.ends :
         \A c \in DOMAIN printed.ends[i] \cap DOMAIN printed.ends[j] :
           printed.ends[i][c] = printed.ends[j][c]
    /\ ~printed.empty
===============================================================================
