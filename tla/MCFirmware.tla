------------------------------ MODULE MCFirmware ------------------------------
(* Firmware with one light and its button, and one request of each kind.   *)
EXTENDS Firmware

MCBit == {0}

\* Every command, with bit 0 or with all bits.
MCRequest == {<<EC_STATUS, 0>>, <<EC_TURNON, 1>>, <<EC_TURNOFF, END_DATA>>, <<EC_TURNALL, 0>>,
              <<EC_TURNALL, END_DATA>>, <<EC_TURNOFFBUTTON, 1>>, <<EC_TURNOFFBUTTON, END_DATA>>,
              <<EC_TURNONBUTTON, 1>>}
=============================================================================
