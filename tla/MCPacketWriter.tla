--------------------------- MODULE MCPacketWriter ---------------------------
(***************************************************************************)
(* PacketWriter with texts of a small and a large character, whose sums    *)
(* wrap, and hex texts whose digits are numerals or letters.               *)
(***************************************************************************)
EXTENDS PacketWriter

PlainCharacters == {79, 250}

EncodedCharacters == {CHAR_STOP, 175}
=============================================================================
