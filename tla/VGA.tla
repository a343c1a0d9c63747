-------------------------------- MODULE VGA --------------------------------
(***************************************************************************)
(* The screen: VGADriver (drvr_vga.cpp), as operators from screen to       *)
(* screen.  A screen is a cursor and the elements of the text buffer;      *)
(* colors are left out.  ScrollDown has no caller.                         *)
(***************************************************************************)
EXTENDS Naturals, Sequences

CONSTANTS
  Width, Height   \* VGA_WIDTH_DEFAULT, VGA_HEIGHT_DEFAULT: 80, 25

ASSUME ScreenAssumption == Width \in Nat \ {0} /\ Height \in Nat \ {0}

VGA_TAB_STOPS == 3
Blank == "blank"

\* GetBufferSize, which counts bytes: two for an element.
GetBufferSize == Width * Height * 2

Elements == 0 .. GetBufferSize - 1
Visible  == 0 .. Width * Height - 1

Screens(chars) ==
  [row : 0 .. Height - 1, col : 0 .. Width - 1, cells : [Elements -> chars]]

\* Clear takes the bytes for elements, so that half of what MemorySet sets
\* is behind the screen; and MemorySet leaves out the last element.
ClearCells(cells) ==
  [e \in Elements |-> IF e < GetBufferSize - 1 THEN Blank ELSE cells[e]]

Clear(screen) == [row |-> 0, col |-> 0, cells |-> ClearCells(screen.cells)]

PutCharacter(screen, row, col, char) ==
  [screen EXCEPT !.cells[row * Width + col] = char]

\* Fault: below the last row there is another.
NewLine_NoWrap(screen) == [screen EXCEPT !.row = @ + 1, !.col = 0]

\* The first column of the next row; the screen does not scroll.
NewLine(screen) == [screen EXCEPT !.row = (@ + 1) % Height, !.col = 0]

\* Fault: at the end of a row the cursor stays in it.
Advance_SameRow(screen) == [screen EXCEPT !.col = (@ + 1) % Width]

Advance(screen) ==
  IF screen.col + 1 = Width THEN NewLine(screen)
  ELSE [screen EXCEPT !.col = (@ + 1) % Width]

WriteCharacter(screen, char) ==
  CASE char = "\n" -> NewLine(screen)
    [] char = "\t" -> [screen EXCEPT !.col = (@ + VGA_TAB_STOPS) % Width]
    [] OTHER       -> Advance(PutCharacter(screen, screen.row, screen.col, char))

\* The screen after the first n characters.
WriteString(screen, text) ==
  LET written[n \in 0 .. Len(text)] ==
        IF n = 0 THEN screen ELSE WriteCharacter(written[n - 1], text[n])
  IN  written[Len(text)]
=============================================================================
