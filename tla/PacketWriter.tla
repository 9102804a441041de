---------------------------- MODULE PacketWriter ----------------------------
(***************************************************************************)
(* The output packet of the session: the gdb_packet_write functions of     *)
(* firmware/source/gdb/gdb_packet.c as the handlers call them, and the     *)
(* flush that hands the packet to the transport.                           *)
(*                                                                         *)
(* A reply is opened, filled one character (or one character in hex) at a  *)
(* time, closed and flushed; an acknowledgement is written and flushed.    *)
(* No writer reports that the buffer is full: RETURN_IF_NOT returns its    *)
(* second argument, which is OK at every use.                              *)
(***************************************************************************)
EXTENDS GdbPacket, SequencesExt, FiniteSetsExt

CONSTANTS Plain,        \* characters of the reply texts
          Encoded,      \* characters of the texts written in hex
          MaxMessage,   \* characters of one payload
          MaxTold       \* packets that reach the client

ASSUME WriterAssumption ==
    /\ Plain \subseteq Char \ {CHAR_START, CHAR_STOP, CHAR_CTRL_C, CHAR_NUL}
    /\ Encoded \subseteq Char \ {CHAR_NUL}
    /\ MaxMessage \in Nat /\ MaxTold \in Nat

VARIABLES pc,       \* "idle", "open", "flush" or "halted"
          output,   \* g_gdb_session.output_packet
          message,  \* history: the payload the handler means to send
          told,     \* history: the packets the transport took
          wire      \* history: the characters the transport took

vars == <<pc, output, message, told, wire>>

Init ==
    /\ pc = "idle"
    /\ output = gdb_packet_init("OUTBOUND")
    /\ message = <<>>
    /\ told = <<>>
    /\ wire = <<>>

Reply(payload)  == [kind |-> "reply", text |-> payload]
Acknowledge(c)  == [kind |-> "ack", text |-> <<c>>]

-----------------------------------------------------------------------------
(* The writers                                                             *)

Opened ==
    [gdb_packet_add_char(gdb_packet_init("OUTBOUND"), CHAR_START, FALSE) EXCEPT
        !.state = "COLLECT"]

(* It asserts "Complete packet was not sent yet."                          *)
gdb_packet_write_start ==
    /\ pc = "idle"
    /\ IF output.state = "COMPLETE"
       THEN pc' = "halted" /\ UNCHANGED output
       ELSE pc' = "open" /\ output' = Opened
    /\ message' = <<>>
    /\ UNCHANGED <<told, wire>>

(* One round of the loop of gdb_packet_write_payload.                      *)
WriteCharacter(character) ==
    /\ pc = "open"
    /\ Len(message) < MaxMessage
    /\ output' = gdb_packet_add_char(output, character, TRUE)
    /\ message' = Append(message, character)
    /\ UNCHANGED <<pc, told, wire>>

(* The two digits that stand for a character, as a client reads them.      *)
HexDigits == <<48, 49, 50, 51, 52, 53, 54, 55, 56, 57, 65, 66, 67, 68, 69, 70>>

TwoDigits(value) == <<HexDigits[value \div 16 + 1], HexDigits[(value % 16) + 1]>>

(* One round of the loop of gdb_packet_write_payload_as_hex.               *)
WriteHex(character) ==
    LET upper == hex_nibble_from_char(GET_UPPER_NIBBLE(character))
        lower == hex_nibble_from_char(GET_LOWER_NIBBLE(character))
    IN  /\ pc = "open"
        /\ Len(message) + 1 < MaxMessage
        /\ output' = gdb_packet_add_char(gdb_packet_add_char(output, upper, TRUE), lower, TRUE)
        /\ message' = message \o TwoDigits(character)
        /\ UNCHANGED <<pc, told, wire>>

(* Mutant: the state is set although not all of it fits.                   *)
Closed_Anyway(packet) ==
    LET closing == <<CHAR_STOP, hex_nibble_from_char(GET_UPPER_NIBBLE(packet.checksum)),
                     hex_nibble_from_char(GET_LOWER_NIBBLE(packet.checksum)), CHAR_NUL>>
        room    == MAX_BUFFER_LENGTH - Len(packet.buffer)
    IN  IF room >= 4
        THEN [packet EXCEPT !.buffer = @ \o closing, !.state = "COMPLETE"]
        ELSE [packet EXCEPT !.buffer = @ \o SubSeq(closing, 1, room), !.state = "COMPLETE"]

(* Stop character, checksum digits and NUL are added while there is room;  *)
(* without room for all of them the packet stays in COLLECT.               *)
Closed(packet) ==
    LET closing == <<CHAR_STOP, hex_nibble_from_char(GET_UPPER_NIBBLE(packet.checksum)),
                     hex_nibble_from_char(GET_LOWER_NIBBLE(packet.checksum)), CHAR_NUL>>
        room    == MAX_BUFFER_LENGTH - Len(packet.buffer)
    IN  IF room >= 4
        THEN [packet EXCEPT !.buffer = @ \o closing, !.state = "COMPLETE"]
        ELSE [packet EXCEPT !.buffer = @ \o SubSeq(closing, 1, room)]

gdb_packet_write_stop ==
    /\ pc = "open"
    /\ output' = Closed(output)
    /\ pc' = "flush"
    /\ UNCHANGED <<message, told, wire>>

(* It overwrites the packet in whatever state it is.                       *)
gdb_packet_write_ack(character) ==
    /\ pc = "idle"
    /\ output' = [gdb_packet_add_char(gdb_packet_init("OUTBOUND"), character, FALSE) EXCEPT
                    !.state = "COMPLETE"]
    /\ message' = <<>>
    /\ pc' = "flush"
    /\ UNCHANGED <<told, wire>>

-----------------------------------------------------------------------------
(* gdb_session_flush                                                       *)

Complete == output.state \in {"COMPLETE", "SENT"}

Pending == IF output.buffer[1] = CHAR_START THEN Reply(message) ELSE Acknowledge(output.buffer[1])

(* Mutant: only a packet that went out is marked.                          *)
FlushFails_KeepsState ==
    /\ pc = "flush" /\ Complete
    /\ pc' = "idle"
    /\ UNCHANGED <<output, message, told, wire>>

Flush ==
    /\ pc = "flush" /\ Complete
    /\ Len(told) < MaxTold
    /\ told' = Append(told, Pending)
    /\ wire' = wire \o output.buffer
    /\ output' = [output EXCEPT !.state = "SENT"]
    /\ pc' = "idle"
    /\ UNCHANGED message

(* The transport refuses; the packet is marked as sent all the same.       *)
FlushFails ==
    /\ pc = "flush" /\ Complete
    /\ output' = [output EXCEPT !.state = "SENT"]
    /\ pc' = "idle"
    /\ UNCHANGED <<message, told, wire>>

(* gdb_packet_get_length asserts "Packet not complete."                    *)
FlushAsserts ==
    /\ pc = "flush" /\ ~Complete
    /\ pc' = "halted"
    /\ UNCHANGED <<output, message, told, wire>>

Next ==
    \/ gdb_packet_write_start
    \/ \E character \in Plain : WriteCharacter(character)
    \/ \E character \in Encoded : WriteHex(character)
    \/ gdb_packet_write_stop
    \/ \E character \in {CHAR_ACK, CHAR_NACK} : gdb_packet_write_ack(character)
    \/ Flush \/ FlushFails \/ FlushAsserts

Spec == Init /\ [][Next]_vars
-----------------------------------------------------------------------------
(* Every variable has its type.                                            *)
TypeOK ==
    /\ pc \in {"idle", "open", "flush", "halted"}
    /\ output \in Packet /\ Len(output.buffer) <= MAX_BUFFER_LENGTH
    /\ message \in Seq(Char) /\ Len(message) <= MaxMessage
    /\ wire \in Seq(Char)
    /\ told \in Seq([kind : {"reply", "ack"}, text : Seq(Char)])

(* What the client receives for one packet: an acknowledgement bare, a     *)
(* payload framed by '$' and '#', with its sum in two digits and a NUL.    *)
Framed(packet) ==
    IF packet.kind = "ack" THEN packet.text
    ELSE <<CHAR_START>> \o packet.text \o <<CHAR_STOP>>
         \o TwoDigits(MapThenSumSet(LAMBDA i : packet.text[i], DOMAIN packet.text) % 256)
         \o <<CHAR_NUL>>

(* Whatever fails or does not fit, the client receives whole packets only, *)
(* each with the payload its handler meant and the checksum of it, in the  *)
(* order written: nothing is truncated and nothing is left from an earlier *)
(* use of the buffer.                                                      *)
WireIsFramed == wire = FlattenSeq([i \in DOMAIN told |-> Framed(told[i])])

(* The reader of this very firmware accepts every reply its writer has     *)
(* completed, at the checksum's second digit: hex.c's two conversions and  *)
(* the two checksum rules agree.                                           *)
ReaderAcceptsReply ==
    LET frame == SubSeq(output.buffer, 1, Len(output.buffer) - 1)
        feed(reader, character) == gdb_packet_read_char(reader.packet, character)
        read  == FoldLeft(feed, [packet |-> gdb_packet_init("INBOUND"),
                                 result |-> "COLLECTING"], frame)
    IN  output.state = "COMPLETE" /\ output.buffer[1] = CHAR_START =>
            /\ read.result = "OK"
            /\ read.packet.buffer = output.buffer

(* The assertions of the write path stop the system only for a payload     *)
(* that cannot fit the buffer with its overhead and NUL; in particular a   *)
(* write that fails never blocks the next reply.                           *)
HaltsOnlyOverlong ==
    pc = "halted" => Len(message) + 5 > MAX_BUFFER_LENGTH
=============================================================================
