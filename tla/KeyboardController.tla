------------------------- MODULE KeyboardController -------------------------
(***************************************************************************)
(* PS2KeyboardDriver::Load and SetScanCodeSet (drvr_ps2kybd.cpp) against   *)
(* the keyboard controller and the keyboard, which are modelled from the   *)
(* commands that Load sends them.                                          *)
(*                                                                         *)
(* The driver's waits (drvr_ps2kybd.h) read the data port, not the status  *)
(* port: they look at bits 0 and 1 of the last byte that arrived, and take *)
(* it out of the output buffer.  A byte stays readable until the next one  *)
(* arrives.  Answers take any time.                                        *)
(***************************************************************************)
EXTENDS Naturals, Sequences

CONSTANTS
  Configs,    \* the configuration bytes the firmware may leave
  Stale,      \* the bytes the data port may hold before Load
  SelfTests,  \* what the controller may answer to a self test; 85 for passed
  KeyCodes,   \* the scan codes of the keys
  MaxKeys     \* bound: the keyboard sends at most MaxKeys scan codes

ASSUME BytesAssumption ==
  /\ Configs \subseteq 0 .. 255 /\ Stale \subseteq 0 .. 255
  /\ SelfTests \subseteq 0 .. 255 /\ KeyCodes \subseteq 0 .. 255
  /\ MaxKeys \in Nat

VARIABLES
  data,        \* the byte in the data port
  outputFull,  \* it has not been read
  answers,     \* what the controller and the keyboard have yet to deliver
  config,      \* the controller's configuration byte
  expecting,   \* the next byte written to the data port is the configuration
  keysSent,    \* how many keys were pressed
  step,        \* where Load is
  kbLoaded     \* PS2KeyboardDriver::_isLoaded

controller == <<data, outputFull, answers, config, expecting, keysSent>>
keyboardVars == <<controller, step, kbLoaded>>

Bit(byte, b) == (byte \div 2^b) % 2 = 1

\* Bit 0 of the configuration: port 1 raises line 1.  Bit 4: port 1 is off.
WithBit(byte, b, on) ==
  IF Bit(byte, b) = on THEN byte ELSE IF on THEN byte + 2^b ELSE byte - 2^b

ACKNOWLEDGED == 250       \* KEYBOARD_COMMAND_ACKNOWLEDGED, 0xFA

\* The calls of Load, and of SetScanCodeSet at its end, in order.
LoadSteps ==
  <<<<"command", 173>>,        \* 0xAD, disable port 1
    <<"command", 167>>,        \* 0xA7, disable port 2
    <<"read", 0>>,             \* flush
    <<"command", 32>>,         \* 0x20, read the configuration
    <<"waitOutputFull", 0>>,
    <<"read", 0>>,
    <<"command", 96>>,         \* 0x60, write the configuration
    <<"data", 101>>,           \* 0b0110'0101
    <<"waitInputEmpty", 0>>,
    <<"command", 170>>,        \* 0xAA, controller self test
    <<"waitOutputFull", 0>>,
    <<"expect", 85>>,          \* 0x55
    <<"command", 174>>,        \* 0xAE, enable port 1
    <<"data", 244>>,           \* 0xF4, enable scanning
    <<"expect", ACKNOWLEDGED>>,
    <<"data", 255>>,           \* 0xFF, reset
    <<"waitOutputEmpty", 0>>,
    <<"expect", 170>>,         \* 0xAA
    <<"waitOutputEmpty", 0>>,
    <<"data", 240>>,           \* 0xF0, set the scan code set
    <<"waitOutputEmpty", 0>>,
    <<"data", 1>>>>            \* SCAN_1

KeyboardTypeOK ==
  /\ data \in 0 .. 255 /\ config \in 0 .. 255
  /\ outputFull \in BOOLEAN /\ expecting \in BOOLEAN /\ kbLoaded \in BOOLEAN
  /\ answers \in Seq(0 .. 255)
  /\ keysSent \in 0 .. MaxKeys
  /\ step \in 1 .. Len(LoadSteps) + 1

KeyboardInit ==
  /\ data \in Stale
  /\ outputFull \in BOOLEAN
  /\ answers = <<>>
  /\ config \in Configs
  /\ expecting = FALSE
  /\ keysSent = 0
  /\ step = 1
  /\ kbLoaded = FALSE
-----------------------------------------------------------------------------
(* The controller and the keyboard. *)

\* A byte arrives in the output buffer; line 1 rises if bit 0 is set.
Arrive ==
  /\ ~outputFull /\ answers # <<>>
  /\ data' = Head(answers) /\ answers' = Tail(answers)
  /\ outputFull' = TRUE
  /\ UNCHANGED <<config, expecting, keysSent>>

RaisesLine == Bit(config, 0)

\* A key is pressed, if the controller lets the keyboard send.
PressKey ==
  /\ ~Bit(config, 4) /\ keysSent < MaxKeys
  /\ \E code \in KeyCodes : answers' = Append(answers, code)
  /\ keysSent' = keysSent + 1
  /\ UNCHANGED <<data, outputFull, config, expecting>>

\* What a byte written to the command port does.
Command(byte) ==
  /\ config' = CASE byte = 173 -> WithBit(config, 4, TRUE)
                 [] byte = 167 -> WithBit(config, 5, TRUE)
                 [] byte = 174 -> WithBit(config, 4, FALSE)
                 [] OTHER      -> config
  /\ expecting' = (byte = 96)
  /\ CASE byte = 32  -> answers' = Append(answers, config)
       [] byte = 170 -> \E result \in SelfTests : answers' = Append(answers, result)
       [] OTHER      -> UNCHANGED answers
  /\ UNCHANGED <<data, outputFull, keysSent>>

\* What a byte written to the data port does: it is the configuration, or it
\* goes to the keyboard, which acknowledges it and after a reset says 0xAA.
Data(byte) ==
  /\ config' = IF expecting THEN byte ELSE config
  /\ expecting' = FALSE
  /\ answers' = IF expecting THEN answers
                ELSE answers \o IF byte = 255 THEN <<ACKNOWLEDGED, 170>>
                                ELSE <<ACKNOWLEDGED>>
  /\ UNCHANGED <<data, outputFull, keysSent>>

\* _readDataReg, which returns data.
ReadDataReg ==
  /\ outputFull' = FALSE
  /\ UNCHANGED <<data, answers, config, expecting, keysSent>>
-----------------------------------------------------------------------------
(* Load. *)

\* Fault: the wait for a full output buffer looks at the bit of the other one.
Waits_WrongBit(call) ==
  CASE call = "waitOutputFull"  -> ~Bit(data, 1)
    [] call = "waitOutputEmpty" -> Bit(data, 0)
    [] call = "waitInputEmpty"  -> Bit(data, 1)
    [] OTHER                    -> FALSE

\* The condition a wait loops on, on the byte it has read.
Waits(call) ==
  CASE call = "waitOutputFull"  -> ~Bit(data, 0)
    [] call = "waitOutputEmpty" -> Bit(data, 0)
    [] call = "waitInputEmpty"  -> Bit(data, 1)
    [] OTHER                    -> FALSE

\* One call of Load, or one turn of a wait.
LoadStep ==
  /\ step \in DOMAIN LoadSteps
  /\ LET call == LoadSteps[step][1]
         byte == LoadSteps[step][2]
     IN /\ CASE call = "command" -> Command(byte)
             [] call = "data"    -> Data(byte)
             [] OTHER            -> ReadDataReg
        /\ call = "expect" => data = byte
        /\ step' = IF Waits(call) THEN step ELSE step + 1
  /\ UNCHANGED kbLoaded

\* Load returns RES_UNKNOWN_DEVICE_ERROR.
LoadFails ==
  /\ step \in DOMAIN LoadSteps
  /\ LoadSteps[step][1] = "expect" /\ data # LoadSteps[step][2]
  /\ ReadDataReg
  /\ step' = 1
  /\ UNCHANGED kbLoaded

\* _isLoaded = true.
LoadEnds ==
  /\ step = Len(LoadSteps) + 1
  /\ kbLoaded' = TRUE
  /\ UNCHANGED <<controller, step>>
=============================================================================
