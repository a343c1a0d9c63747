-------------------------- MODULE MCKernelLifecycle --------------------------
(***************************************************************************)
(* The timer, the keyboard and a device at the second controller.          *)
(***************************************************************************)
EXTENDS KernelLifecycle

MCLines == {0, 1, 12}

\* Firmware that leaves the keyboard with interrupts, with interrupts of both
\* ports, and without.
MCConfigs == {69, 71, 52}

\* A scan code and an acknowledgement.
MCStale == {28, 250}

\* Passed, and failed.
MCSelfTests == {85, 252}

\* A key pressed and released.
MCKeyCodes == {30, 158}
=============================================================================
