--------------------------- MODULE MCPacketReader ---------------------------
(***************************************************************************)
(* PacketReader over an alphabet in which every branch of the reader and a *)
(* wrapping checksum are a few characters away: "$#00" is well formed, and *)
(* so is '$', '0', 208, '#', '0', '0', whose sum 256 wraps to 0.  '+' and  *)
(* 208 are rejected as checksum digits, and '+' precedes a packet when a   *)
(* client acknowledges and asks in one segment.                            *)
(***************************************************************************)
EXTENDS PacketReader

Zero   == 48
Binary == 208

ReceivedCharacters == {CHAR_START, CHAR_STOP, CHAR_CTRL_C, CHAR_ACK, Zero, Binary}
=============================================================================
