------------------------------ MODULE Terminal ------------------------------
(***************************************************************************)
(* The line editor of the terminal (proc_terminal.cpp), on the keys of     *)
(* KeyCodes and the screen of VGA.  How it waits for a code is in          *)
(* KeyboardInput, and what the snakes draw between two of its steps is in  *)
(* Snakes; screen is what the terminal and setup_snakes write on it.       *)
(***************************************************************************)
EXTENDS VGA, KeyCodes, FiniteSets, FiniteSetsExt

CONSTANTS
  MAX_STR_INPUT,   \* 512
  Contents,        \* what operator new char[] may find in its memory
  Codes,           \* the scan codes of the keyboard
  MaxKeyed,        \* bound: the keyboard sends at most MaxKeyed of them
  EXIT_COMMAND, SNAKES_COMMAND,              \* "exit", "snakes"
  PROMPT, UNKNOWN_COMMAND, BUFFER_FULL, TURN_OFF   \* the other texts

\* The characters there are.
Chars == {Blank, "!"} \cup {SET_1[i] : i \in DOMAIN SET_1}
         \cup UNION {{text[i] : i \in DOMAIN text} :
                     text \in {PROMPT, UNKNOWN_COMMAND, BUFFER_FULL, TURN_OFF} \cup Contents}

\* A line is not longer than the screen: 512 characters, and 80 * 25.
ASSUME LineAssumption == MAX_STR_INPUT <= Width * Height

ASSUME TextAssumption ==
  /\ MAX_STR_INPUT \in Nat /\ MaxKeyed \in Nat
  /\ Codes \subseteq 0 .. 255
  /\ Contents \subseteq [1 .. MAX_STR_INPUT -> Chars]
  /\ \A text \in {PROMPT, UNKNOWN_COMMAND, BUFFER_FULL, TURN_OFF} : text \in Seq(Chars)
  /\ \A command \in {EXIT_COMMAND, SNAKES_COMMAND} :
       command \in Seq(Chars) /\ Len(command) \in 1 .. MAX_STR_INPUT

VARIABLES
  input,       \* input
  charOffset,  \* charOffset
  screen,      \* the cursor of the VGADriver, and the text buffer
  loop,        \* at the test of the outer loop, in the inner loop, or behind
  found,       \* history: what was in input at first
  keyed,       \* history: the scan codes so far
  lineStart    \* history: where the cursor was when the line began

terminalVars == <<input, charOffset, screen, loop, found, keyed, lineStart>>

\* The element of the text buffer that the cursor is on.
Cursor(scr) == scr.row * Width + scr.col

TerminalTypeOK ==
  /\ input \in [1 .. MAX_STR_INPUT -> Chars] /\ found \in Contents
  /\ charOffset \in 0 .. MAX_STR_INPUT
  /\ screen \in Screens(Chars) /\ lineStart \in Visible
  /\ loop \in {"test", "reading", "off"}
  /\ keyed \in Seq(Codes) /\ Len(keyed) <= MaxKeyed

\* Kernel::SwapIn has cleared the screen.
TerminalInit ==
  /\ input \in Contents /\ found = input
  /\ charOffset = 0
  /\ screen = Clear([row |-> 0, col |-> 0, cells |-> [e \in Elements |-> "!"]])
  /\ loop = "test" /\ keyed = <<>> /\ lineStart = 0

\* MemoryCompare of as many characters as the command has: neither the end of
\* the line nor what was typed behind the command is looked at.
Matches(command) == \A i \in DOMAIN command : input[i] = command[i]

ClearConsole(scr) == WriteString(Clear(scr), PROMPT)

\* The line is obeyed, unless it is empty: setup_snakes clears the screen
\* again.  The input is not cleared.
Obey ==
  /\ loop = "test" /\ ~Matches(EXIT_COMMAND)
  /\ screen' = LET prompt == ClearConsole(screen)
               IN  IF charOffset = 0 THEN prompt
                   ELSE IF Matches(SNAKES_COMMAND) THEN Clear(prompt)
                   ELSE WriteString(WriteString(prompt, UNKNOWN_COMMAND), PROMPT)
  /\ lineStart' = Cursor(screen')
  /\ charOffset' = 0
  /\ loop' = "reading"
  /\ UNCHANGED <<input, found, keyed>>

\* GetNextVirtualKey, in the test of the inner loop.
Receive(code) ==
  /\ loop = "reading"
  /\ code \in Codes /\ Len(keyed) < MaxKeyed
  /\ keyed' = Append(keyed, code)
  /\ UNCHANGED <<found, lineStart>>

Printable(code) ==
  /\ code # MORE_CODES
  /\ VirtualKeyIsPressed(VirtualKey(code)) /\ VirtualKeyIsPrintable(VirtualKey(code))
  /\ VirtualKey(code) # KEY_RETURN

Ignore(code) ==
  /\ Receive(code)
  /\ ~Printable(code) /\ (code = MORE_CODES \/ VirtualKey(code) # KEY_RETURN)
  /\ UNCHANGED <<input, charOffset, screen, loop>>

BufferFull(code) ==
  /\ Receive(code) /\ Printable(code)
  /\ charOffset = MAX_STR_INPUT
  /\ screen' = WriteString(screen, BUFFER_FULL)
  /\ UNCHANGED <<input, charOffset, loop>>

\* A character is shown and appended to the input.
Type(code) ==
  /\ Receive(code) /\ Printable(code)
  /\ charOffset < MAX_STR_INPUT
  /\ LET keychar == VirtualKeyToCharacter(VirtualKey(code))
     IN  /\ screen' = WriteCharacter(screen, keychar)
         /\ input' = [input EXCEPT ![charOffset + 1] = keychar]
  /\ charOffset' = charOffset + 1
  /\ UNCHANGED loop

Enter(code) ==
  /\ Receive(code)
  /\ code # MORE_CODES /\ VirtualKey(code) = KEY_RETURN
  /\ screen' = WriteCharacter(screen, "\n")
  /\ loop' = "test"
  /\ UNCHANGED <<input, charOffset>>

\* delete[] input, and a loop without end.
TurnOff ==
  /\ loop = "test" /\ Matches(EXIT_COMMAND)
  /\ screen' = WriteString(screen, TURN_OFF)
  /\ loop' = "off"
  /\ UNCHANGED <<input, charOffset, found, keyed, lineStart>>

TerminalNext ==
  \/ Obey \/ TurnOff
  \/ \E code \in Codes : Ignore(code) \/ BufferFull(code) \/ Type(code) \/ Enter(code)

TerminalSpec == TerminalInit /\ [][TerminalNext]_terminalVars
-----------------------------------------------------------------------------
(* Properties. *)

\* The presses of keys that have a character: releases, prefixes and other
\* keys are passed over.
IsPress(code) == code < Len(SET_1) /\ SET_1[code + 1] \notin {"none", "modifier"}
Character(code) == SET_1[code + 1]

Presses(codes) == {j \in DOMAIN codes : IsPress(codes[j])}

\* Those of the line that code number j is in, up to and with it; Return ends
\* its line.
LineTo(codes, j) ==
  {k \in Presses(codes) :
     k <= j /\ \A m \in Presses(codes) : m \in k .. j => Character(codes[m]) # "\n"}

\* How many there are.
Column(codes, j) == Cardinality(LineTo(codes, j))

\* What the comparisons with "exit" and "snakes" look at (proc_terminal.cpp
\* :28, 33) is the last line, and behind its end what is left of the lines
\* before, or of other data in the heap: each place has the character that
\* was typed there last, in any line.  So Enter does not clear the input,
\* although "Input buffer is full. Press enter to clear." (:52) says so: it only
\* makes room.  As charOffset is not looked at, a line that is the beginning of
\* a command is the command once it was typed in full.
InputIsOverlay ==
  /\ \A i \in 1 .. MAX_STR_INPUT :
       LET at == {j \in Presses(keyed) : Column(keyed, j) = i}
       IN  input[i] = IF at = {} THEN found[i] ELSE Character(keyed[Max(at)])
  /\ loop = "reading" => charOffset = Min({MAX_STR_INPUT, Column(keyed, Len(keyed))})

\* What was typed stands on the screen, from the prompt on and over the ends
\* of rows and of the screen, with the cursor behind it.  A tab moves the
\* cursor within its row, back over what is there, and the message that the
\* input is full goes on over everything: both are left out.
EchoIsLine ==
  loop = "reading" /\ Column(keyed, Len(keyed)) <= MAX_STR_INPUT
      /\ (\A i \in 1 .. charOffset : input[i] # "\t") =>
    /\ \A i \in 1 .. charOffset :
         screen.cells[(lineStart + i - 1) % (Width * Height)] = input[i]
    /\ Cursor(screen) = (lineStart + charOffset) % (Width * Height)
=============================================================================
