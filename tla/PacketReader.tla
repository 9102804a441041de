---------------------------- MODULE PacketReader ----------------------------
(***************************************************************************)
(* gdb_packet_read_stream (firmware/source/gdb/gdb_packet.c), one action   *)
(* per character of the caller's data.                                     *)
(*                                                                         *)
(* The caller's array is not chosen at the call: "input" is the part of it *)
(* the loop has consumed, each Read picks the next character, and the loop *)
(* may find the end of the array after any of them.  The runs therefore    *)
(* see every array over Alphabet of at most MaxInput characters.           *)
(***************************************************************************)
EXTENDS GdbPacket, SequencesExt, FiniteSetsExt

CONSTANTS Alphabet,   \* the characters received
          MaxInput    \* the most characters one call is given

ASSUME ReaderAssumption ==
    /\ Alphabet \subseteq Char
    /\ MaxInput \in Nat \ {0}

VARIABLES pc,       \* "idle", "reading", "returned" or "halted"
          input,    \* the characters consumed by this call
          packet,   \* *p_packet
          result    \* the packet result so far

vars == <<pc, input, packet, result>>

Results == {"COLLECTING", "OK", "CHECKSUM_ERROR"}

Init ==
    /\ pc = "idle"
    /\ input = <<>>
    /\ packet = gdb_packet_init("INBOUND")
    /\ result = "COLLECTING"

(* Every call starts from an initialised packet: whatever an earlier call  *)
(* had collected is gone.                                                  *)
Call ==
    /\ pc \in {"idle", "returned"}
    /\ pc' = "reading"
    /\ input' = <<>>
    /\ packet' = gdb_packet_init("INBOUND")
    /\ result' = "COLLECTING"

(* Mutant: only an accepted frame ends the loop.                           *)
Read_PastError(character) ==
    LET read == gdb_packet_read_char(packet, character)
    IN  /\ pc = "reading"
        /\ Len(input) < MaxInput
        /\ ~HaltsOn(packet, character)
        /\ input' = Append(input, character)
        /\ packet' = read.packet
        /\ result' = read.result
        /\ pc' = IF read.result = "OK" THEN "returned" ELSE "reading"

Read(character) ==
    LET read == gdb_packet_read_char(packet, character)
    IN  /\ pc = "reading"
        /\ Len(input) < MaxInput
        /\ ~HaltsOn(packet, character)
        /\ input' = Append(input, character)
        /\ packet' = read.packet
        /\ result' = read.result
        /\ pc' = IF read.result \in {"OK", "CHECKSUM_ERROR"} THEN "returned" ELSE "reading"

(* The assertion of char_from_hex_nibble stops the system in the middle of *)
(* the character.                                                          *)
ReadHalts(character) ==
    /\ pc = "reading"
    /\ Len(input) < MaxInput
    /\ HaltsOn(packet, character)
    /\ pc' = "halted"
    /\ UNCHANGED <<input, packet, result>>

(* character_index reached length; no caller passes an empty array. *)
EndOfInput ==
    /\ pc = "reading"
    /\ input # <<>>
    /\ pc' = "returned"
    /\ UNCHANGED <<input, packet, result>>

Next ==
    \/ Call
    \/ \E character \in Alphabet : Read(character) \/ ReadHalts(character)
    \/ EndOfInput

Spec == Init /\ [][Next]_vars
-----------------------------------------------------------------------------
(* Every variable has its type; the stored characters never exceed the     *)
(* buffer (gdb_packet_add_char's bound check).                             *)
TypeOK ==
    /\ pc \in {"idle", "reading", "returned", "halted"}
    /\ input \in Seq(Alphabet)
    /\ Len(input) <= MaxInput
    /\ packet \in Packet
    /\ Len(packet.buffer) <= MAX_BUFFER_LENGTH
    /\ result \in Results

-----------------------------------------------------------------------------
(* The packet grammar, read off the characters alone.                      *)

Delimiter(character) == character \in {CHAR_START, CHAR_STOP, CHAR_CTRL_C}

(* Character i of s is a checksum digit: first or second after a '#'.      *)
UpperDigit(s, i) == i > 1 /\ s[i-1] = CHAR_STOP /\ ~Delimiter(s[i])
LowerDigit(s, i) == i > 2 /\ UpperDigit(s, i-1) /\ ~Delimiter(s[i])

CountedPositions(s) ==
    {i \in 1..Len(s) : ~Delimiter(s[i]) /\ ~UpperDigit(s, i) /\ ~LowerDigit(s, i)}

SumOver(s, positions) == U8(MapThenSumSet(LAMBDA i : s[i], positions))

DigitsOf(s) ==
    16 * char_from_hex_nibble(s[Len(s)-1]) + char_from_hex_nibble(s[Len(s)])

(* The payload of the packet that ends s: what its '$' and '#' enclose.    *)
PayloadPositions(s) ==
    {i \in 2..(Len(s) - 3) : \E start \in 1..(i - 1) :
        /\ s[start] = CHAR_START
        /\ \A j \in (start + 1)..(Len(s) - 3) : ~Delimiter(s[j])}

WellFormed(s) ==
    /\ Len(s) >= 4
    /\ s[1] = CHAR_START /\ s[Len(s)-2] = CHAR_STOP
    /\ \A i \in 2..Len(s) : i # Len(s) - 2 => ~Delimiter(s[i])

Returned      == pc = "returned"
FrameReturned == Returned /\ result \in {"OK", "CHECKSUM_ERROR"}
-----------------------------------------------------------------------------
(* A call hands back exactly the first frame of its data: it stops at the  *)
(* second digit after a '#', never earlier and never later, so the caller  *)
(* resumes at the first character of the next frame ('p_consumed_length'). *)
StopsAtFirstFrame ==
    Returned =>
        /\ FrameReturned <=> LowerDigit(input, Len(input))
        /\ \A i \in 1..(Len(input) - 1) : ~LowerDigit(input, i)

(* A frame is accepted exactly when its digits are the sum, modulo 256, of *)
(* the characters the reader counts, while the frame fits the buffer.      *)
AcceptedIffSumMatches ==
    FrameReturned /\ Len(input) < MAX_BUFFER_LENGTH =>
        (result = "OK" <=>
            DigitsOf(input) = SumOver(input, CountedPositions(input)))

(* A packet built as the protocol prescribes, alone in the data, is        *)
(* accepted, and the buffer then holds it whole behind one NUL.            *)
WellFormedAccepted ==
    /\ FrameReturned
    /\ Len(input) < MAX_BUFFER_LENGTH
    /\ WellFormed(input)
    /\ DigitsOf(input) = SumOver(input, 2..(Len(input) - 3))
    => result = "OK" /\ packet.buffer = Append(input, CHAR_NUL)

(* gdb_execute and the string functions below it read an accepted packet   *)
(* up to its NUL: it is terminated, and its checksums were compared.  The  *)
(* reader itself guarantees this only for fewer characters than the buffer *)
(* holds; a pbuf of the transport never has as many (TCP_MSS).             *)
AcceptedIsVerified ==
    Returned /\ result = "OK" /\ Len(input) < MAX_BUFFER_LENGTH =>
        /\ packet.checksum = packet.reference_checksum
        /\ packet.buffer # <<>> /\ packet.buffer[Len(packet.buffer)] = CHAR_NUL

Kept(text) ==
    FlattenSeq([i \in DOMAIN text |-> IF text[i] = CHAR_CTRL_C THEN <<>> ELSE <<text[i]>>])

Cut(text) ==
    SubSeq(text, 1, IF Len(text) < MAX_BUFFER_LENGTH THEN Len(text) ELSE MAX_BUFFER_LENGTH)

(* The buffer is the received text without its Ctrl-C characters, with the *)
(* NUL of a finished frame, cut at MAX_BUFFER_LENGTH characters.           *)
BufferHoldsInput ==
    packet.buffer = Cut(IF packet.state = "COMPLETE" THEN Append(Kept(input), CHAR_NUL)
                        ELSE Kept(input))

(* gdb_packet.c, lines 41-42: "The checksum should only be updated for     *)
(* payload characters, not for overhead".                                  *)
ChecksumOverPayloadOnly ==
    FrameReturned => packet.checksum = SumOver(input, PayloadPositions(input))
=============================================================================
