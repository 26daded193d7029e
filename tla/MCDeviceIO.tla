----------------------------- MODULE MCDeviceIO -----------------------------
(***************************************************************************)
(* DeviceIO with two devices on one line, which share a bit map, one on a  *)
(* line that is served later, and a terminal.                              *)
(***************************************************************************)
EXTENDS DeviceIO

On(m, n) == {<<NETWORK, m>>, <<NETWORK, n>>, <<FLASH, 0>>, <<TERMINAL, n>>}

Devices03 == On(0, 3)

\* The two devices whose numbers interrupts.c exchanges.
Devices12 == On(1, 2)

=============================================================================
