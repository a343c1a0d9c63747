----------------------------- MODULE MCTerminal -----------------------------
(***************************************************************************)
(* Short commands and texts on a small screen.                             *)
(***************************************************************************)
EXTENDS Terminal

MCExit   == <<"n", "x">>
MCSnakes == <<"x", "x">>
MCPrompt  == <<">">>
MCUnknown == <<"?", "\n">>
MCFull    == <<"f", "\n">>
MCTurnOff == <<".", "\n">>

\* Other data, and a heap in which somebody left the command to exit.
MCContents == {<<"z", "z", "z">>, <<"n", "x", "z">>}

\* n, x, the release of x, Tab, Return, and the prefix.
MCCodes == {49, 45, 173, 15, 28, MORE_CODES}
=============================================================================
