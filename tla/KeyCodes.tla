------------------------------ MODULE KeyCodes ------------------------------
(***************************************************************************)
(* From scan codes to virtual keys: the first table of key_codes.h and the *)
(* translation in PS2KeyboardDriver::GetNextVirtualKey (drvr_ps2kybd.cpp). *)
(*                                                                         *)
(* Of a VIRTUAL_KEYS value nobody reads the section and the row; what is   *)
(* left is the flags and the character.  The second table is for a scan    *)
(* code set that is never chosen.                                          *)
(***************************************************************************)
EXTENDS Naturals, Sequences

\* MakeVirtualKey, less section and row.
MakeVirtualKey(isPrintable, isPressed, code) ==
  [printable |-> isPrintable, pressed |-> isPressed, code |-> code]

\* Keys that are numbers below 0x100 have neither flag, those of the
\* modifiers and locks are pressed but not printable.
KEY_OTHER == MakeVirtualKey(FALSE, FALSE, "!")
KEY_MODIFIER == MakeVirtualKey(FALSE, TRUE, "!")
KEY_RETURN == MakeVirtualKey(TRUE, TRUE, "\n")

\* The characters of KEYBOARD_MAP_SET_1, from scan code 0 on.  The code of
\* KEY_BRACE_R, 0x71, is that of a q.
SET_1 ==
  <<"none", "none", "1", "2", "3", "4", "5", "6", "7", "8", "9", "0", "-", "=", "none", "\t",
    "q", "w", "e", "r", "t", "y", "u", "i", "o", "p", "[", "q", "\n", "modifier",
    "a", "s", "d", "f", "g", "h", "j", "k", "l", ";", "'", "tick", "modifier", "\\",
    "z", "x", "c", "v", "b", "n", "m", ",", ".", "/", "modifier", "*", "modifier", " ",
    "modifier", "none", "none", "none", "none", "none", "none", "none", "none", "none",
    "none", "modifier", "modifier", "7", "8", "9", "-", "4", "5", "6", "+",
    "1", "2", "3", "0", ".">>

KEYBOARD_MAP_SET_1 ==
  [code \in 0 .. 255 |->
     LET char == IF code < Len(SET_1) THEN SET_1[code + 1] ELSE "none"
     IN  CASE char = "none"     -> KEY_OTHER
           [] char = "modifier" -> KEY_MODIFIER
           [] OTHER             -> MakeVirtualKey(TRUE, TRUE, char)]

VirtualKeyIsPrintable(k) == k.printable
VirtualKeyIsPressed(k) == k.pressed
ReleaseVirtualKey(k) == [k EXCEPT !.pressed = FALSE]
VirtualKeyToCharacter(k) == IF VirtualKeyIsPrintable(k) THEN k.code ELSE "!"

\* The code after which GetNextVirtualKey calls itself for the key.
MORE_CODES == 224

\* Fault: a key that is released is like one that is pressed.
VirtualKey_StaysPressed(code) ==
  IF 128 < code /\ code < MORE_CODES THEN KEYBOARD_MAP_SET_1[code - 128]
  ELSE KEYBOARD_MAP_SET_1[code]

\* The key of any other code.
VirtualKey(code) ==
  IF 128 < code /\ code < MORE_CODES THEN ReleaseVirtualKey(KEYBOARD_MAP_SET_1[code - 128])
  ELSE KEYBOARD_MAP_SET_1[code]
=============================================================================
