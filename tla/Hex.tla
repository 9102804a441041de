-------------------------------- MODULE Hex --------------------------------
(***************************************************************************)
(* The character conversions of firmware/source/common/hex.c.              *)
(*                                                                         *)
(* A C "char" is an unsigned byte on the target (arm-none-eabi), so every  *)
(* assignment to one wraps modulo 256.                                     *)
(***************************************************************************)
EXTENDS Integers

Char == 0..255

(* Mutant: an accumulator wider than the uint8_t.                          *)
U8_Wide(x) == x

U8(x) == x % 256

GET_LOWER_NIBBLE(val) == val % 16
GET_UPPER_NIBBLE(val) == (val \div 16) % 16

(* Mutant: letters forgotten.                                              *)
hex_nibble_from_char_NoLetters(character) == U8(character + 48)

(* 0..15 to '0'..'9', 'A'..'F'. *)
hex_nibble_from_char(character) ==
    IF character > 9 THEN U8(character + 7 + 48) ELSE U8(character + 48)

(* Mutant: the second correction forgotten, as if all letters were capital. *)
char_from_hex_nibble_CapitalsOnly(hex) ==
    LET digit == U8(hex - 48)
    IN  IF digit > 9 THEN U8(digit - 7) ELSE digit

(* Two conditional corrections, each applied to the wrapped byte. *)
char_from_hex_nibble(hex) ==
    LET digit == U8(hex - 48)
        upper == IF digit > 9 THEN U8(digit - 7) ELSE digit
    IN  IF upper > 16 THEN U8(upper - 32) ELSE upper

(* The assertion "Invalid hex nibble." at the end of char_from_hex_nibble. *)
IsHexNibble(hex) == char_from_hex_nibble(hex) <= 15
=============================================================================
