----------------------------- MODULE GdbPacket -----------------------------
(***************************************************************************)
(* The packet of firmware/source/gdb/gdb_packet.{h,c}: the structure and   *)
(* the functions that feed it one received character.                      *)
(*                                                                         *)
(* p_packet->buffer[0 .. length-1] is the sequence "buffer"; the bytes     *)
(* beyond "length" are never read (every accessor asserts its offset).     *)
(***************************************************************************)
EXTENDS Hex, Sequences

CONSTANT MAX_BUFFER_LENGTH     \* GDB_PACKET_MAX_BUFFER_LENGTH, 2048

ASSUME BufferAssumption == MAX_BUFFER_LENGTH \in Nat \ {0}

CHAR_START  == 36   \* '$'
CHAR_STOP   == 35   \* '#'
CHAR_ACK    == 43   \* '+'
CHAR_NACK   == 45   \* '-'
CHAR_CTRL_C == 3
CHAR_NUL    == 0

PacketState == {"INIT", "COLLECT", "CHECKSUM_UPPER", "CHECKSUM_LOWER",
                "COMPLETE", "SENT", "ABORT", "PENDING_ACK"}
PacketType  == {"INBOUND", "OUTBOUND"}

Packet == [buffer             : Seq(Char),
           checksum           : Char,
           reference_checksum : Char,
           type               : PacketType,
           state              : PacketState]

gdb_packet_init(type) ==
    [buffer |-> <<>>, checksum |-> 0, reference_checksum |-> 0,
     type |-> type, state |-> "INIT"]

(* gdb_packet_add_char returns OVERFLOW, and changes nothing, without room. *)
HasRoom(packet) == Len(packet.buffer) < MAX_BUFFER_LENGTH

gdb_packet_add_char(packet, character, update_checksum) ==
    IF HasRoom(packet)
    THEN [packet EXCEPT !.buffer   = Append(@, character),
                        !.checksum = IF update_checksum THEN U8(@ + character) ELSE @]
    ELSE packet

(* Mutant: the lower checksum digit is counted as payload.                 *)
gdb_packet_parse_char_CountsDigit(packet, character) ==
    CASE packet.state = "CHECKSUM_UPPER" ->
            [gdb_packet_add_char(packet, character, FALSE) EXCEPT
                !.reference_checksum = U8(char_from_hex_nibble(character) * 16),
                !.state              = "CHECKSUM_LOWER"]
      [] packet.state = "CHECKSUM_LOWER" ->
            [gdb_packet_add_char(packet, character, TRUE) EXCEPT
                !.reference_checksum = U8(@ + char_from_hex_nibble(character)),
                !.state              = "COMPLETE"]
      [] OTHER -> gdb_packet_add_char(packet, character, TRUE)

(* The result of gdb_packet_add_char is ignored by every caller here. *)
gdb_packet_parse_char(packet, character) ==
    CASE packet.state = "CHECKSUM_UPPER" ->
            [gdb_packet_add_char(packet, character, FALSE) EXCEPT
                !.reference_checksum = U8(char_from_hex_nibble(character) * 16),
                !.state              = "CHECKSUM_LOWER"]
      [] packet.state = "CHECKSUM_LOWER" ->
            [gdb_packet_add_char(packet, character, FALSE) EXCEPT
                !.reference_checksum = U8(@ + char_from_hex_nibble(character)),
                !.state              = "COMPLETE"]
      [] OTHER -> gdb_packet_add_char(packet, character, TRUE)

(* Mutants: the start character is counted; a Ctrl-C is stored.            *)
StepPacket_CountsStart(packet, character) ==
    CASE character = CHAR_START ->
            [gdb_packet_add_char(packet, character, TRUE) EXCEPT !.state = "COLLECT"]
      [] character = CHAR_STOP ->
            [gdb_packet_add_char(packet, character, FALSE) EXCEPT !.state = "CHECKSUM_UPPER"]
      [] character = CHAR_CTRL_C ->
            [packet EXCEPT !.state = "ABORT"]
      [] OTHER -> gdb_packet_parse_char(packet, character)

StepPacket_StoresCtrlC(packet, character) ==
    CASE character = CHAR_START ->
            [gdb_packet_add_char(packet, character, FALSE) EXCEPT !.state = "COLLECT"]
      [] character = CHAR_STOP ->
            [gdb_packet_add_char(packet, character, FALSE) EXCEPT !.state = "CHECKSUM_UPPER"]
      [] character = CHAR_CTRL_C ->
            [gdb_packet_add_char(packet, character, FALSE) EXCEPT !.state = "ABORT"]
      [] OTHER -> gdb_packet_parse_char(packet, character)

(* The state switch of gdb_packet_read_char, before its completion check.  *)
StepPacket(packet, character) ==
    CASE character = CHAR_START ->
            [gdb_packet_add_char(packet, character, FALSE) EXCEPT !.state = "COLLECT"]
      [] character = CHAR_STOP ->
            [gdb_packet_add_char(packet, character, FALSE) EXCEPT !.state = "CHECKSUM_UPPER"]
      [] character = CHAR_CTRL_C ->
            [packet EXCEPT !.state = "ABORT"]
      [] character \in {CHAR_ACK, CHAR_NACK} /\ packet.state = "PENDING_ACK" ->
            packet
      [] OTHER -> gdb_packet_parse_char(packet, character)

(* char_from_hex_nibble halts the firmware on a checksum digit it rejects. *)
HaltsOn(packet, character) ==
    /\ packet.state \in {"CHECKSUM_UPPER", "CHECKSUM_LOWER"}
    /\ character \notin {CHAR_START, CHAR_STOP, CHAR_CTRL_C}
    /\ ~IsHexNibble(character)

(* Mutant: the checksums are never compared.                               *)
gdb_packet_read_char_NoCompare(packet, character) ==
    LET stepped == StepPacket(packet, character)
    IN  IF stepped.state # "COMPLETE"
        THEN [packet |-> stepped, result |-> "COLLECTING"]
        ELSE [packet |-> gdb_packet_add_char(stepped, CHAR_NUL, FALSE),
              result |-> "OK"]

(* A complete packet is NUL-terminated.  Without room for the NUL the      *)
(* RETURN_IF_NOT of line 133 returns its second argument, which is OK, and *)
(* the checksums are not compared.                                         *)
gdb_packet_read_char(packet, character) ==
    LET stepped == StepPacket(packet, character)
        closed  == gdb_packet_add_char(stepped, CHAR_NUL, FALSE)
    IN  IF stepped.state # "COMPLETE"
        THEN [packet |-> stepped, result |-> "COLLECTING"]
        ELSE [packet |-> closed,
              result |-> IF /\ HasRoom(stepped)
                            /\ closed.reference_checksum # closed.checksum
                         THEN "CHECKSUM_ERROR" ELSE "OK"]
=============================================================================
