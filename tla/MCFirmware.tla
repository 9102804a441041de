----------------------------- MODULE MCFirmware -----------------------------
(* TCP and one more transport, and one of the three session properties.    *)
EXTENDS Firmware
=============================================================================
