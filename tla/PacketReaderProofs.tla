------------------------- MODULE PacketReaderProofs -------------------------
(***************************************************************************)
(* What holds of gdb_packet_read_stream for every alphabet, every length   *)
(* of data and every buffer length.                                        *)
(***************************************************************************)
EXTENDS ItemReader, CommonLemmas

(* gdb_packet_add_char keeps the type of the packet and the buffer bound,  *)
(* and lengthens the buffer by at most one character.                      *)
LEMMA AddChar ==
    ASSUME NEW p \in Packet, NEW c \in Char, NEW b \in BOOLEAN,
           Len(p.buffer) <= MAX_BUFFER_LENGTH
    PROVE  /\ gdb_packet_add_char(p, c, b) \in Packet
           /\ Len(gdb_packet_add_char(p, c, b).buffer) <= MAX_BUFFER_LENGTH
           /\ Len(gdb_packet_add_char(p, c, b).buffer) <= Len(p.buffer) + 1
           /\ gdb_packet_add_char(p, c, b).state = p.state
           /\ HasRoom(p) =>
                 gdb_packet_add_char(p, c, b).buffer = Append(p.buffer, c)
<1>1. CASE HasRoom(p)
  <2> DEFINE q == [p EXCEPT !.buffer = Append(@, c),
                            !.checksum = IF b THEN U8(@ + c) ELSE @]
  <2>1. gdb_packet_add_char(p, c, b) = q
    BY <1>1 DEF gdb_packet_add_char
  <2>2. /\ Append(p.buffer, c) \in Seq(Char)
        /\ Len(Append(p.buffer, c)) = Len(p.buffer) + 1
    BY AppendProperties DEF Packet
  <2>3. U8(p.checksum + c) \in Char
    <3>1. p.checksum \in Char
      BY DEF Packet
    <3> QED BY <3>1, U8Type
  <2>4. q \in Packet /\ q.buffer = Append(p.buffer, c) /\ q.state = p.state
    BY <2>2, <2>3 DEF Packet
  <2>5. Len(p.buffer) + 1 <= MAX_BUFFER_LENGTH
    BY <1>1, BufferAssumption, LenProperties DEF HasRoom, Packet
  <2> QED BY <2>1, <2>2, <2>4, <2>5
<1>2. CASE ~HasRoom(p)
  <2>1. gdb_packet_add_char(p, c, b) = p
    BY <1>2 DEF gdb_packet_add_char
  <2>2. Len(p.buffer) \in Nat
    BY LenProperties DEF Packet
  <2> QED BY <1>2, <2>1, <2>2
<1> QED BY <1>1, <1>2
(* What one received character may do to a packet: at most one more        *)
(* character in the buffer, and never one beyond its end.                  *)
Bounded(p, q) ==
    /\ q \in Packet
    /\ Len(q.buffer) <= MAX_BUFFER_LENGTH
    /\ Len(q.buffer) <= Len(p.buffer) + 1

(* Assignments to the other fields leave the buffer as it is.              *)
LEMMA SetState ==
    ASSUME NEW p, NEW q, NEW st \in PacketState, Bounded(p, q)
    PROVE  Bounded(p, [q EXCEPT !.state = st])
BY DEF Bounded, Packet

LEMMA SetReference ==
    ASSUME NEW p, NEW q, NEW st \in PacketState, NEW r \in Char, Bounded(p, q)
    PROVE  Bounded(p, [q EXCEPT !.reference_checksum = r, !.state = st])
BY DEF Bounded, Packet

(* Whatever the state and the character, the reader's state switch keeps   *)
(* the packet well typed and stores at most one character.                 *)
LEMMA ParseBounded ==
    ASSUME NEW p \in Packet, NEW c \in Char, Len(p.buffer) <= MAX_BUFFER_LENGTH
    PROVE  Bounded(p, gdb_packet_parse_char(p, c))
<1> DEFINE plain == gdb_packet_add_char(p, c, FALSE)
           upper == U8(char_from_hex_nibble(c) * 16)
           lower == U8(plain.reference_checksum + char_from_hex_nibble(c))
<1>1. Bounded(p, plain) /\ Bounded(p, gdb_packet_add_char(p, c, TRUE))
  BY AddChar DEF Bounded
<1>2. upper \in Char
  BY NibbleType, U8Type
<1>3. lower \in Char
  <2>1. plain.reference_checksum \in Char
    BY <1>1 DEF Bounded, Packet
  <2> QED BY <2>1, NibbleType, U8Type
<1>4. CASE p.state = "CHECKSUM_UPPER"
  <2>1. gdb_packet_parse_char(p, c) =
            [plain EXCEPT !.reference_checksum = upper, !.state = "CHECKSUM_LOWER"]
    BY <1>4 DEF gdb_packet_parse_char
  <2>2. "CHECKSUM_LOWER" \in PacketState
    BY DEF PacketState
  <2> HIDE DEF plain, upper
  <2>3. Bounded(p, [plain EXCEPT !.reference_checksum = upper,
                                 !.state = "CHECKSUM_LOWER"])
    BY <1>1, <1>2, <2>2, SetReference
  <2> QED BY <2>1, <2>3
<1>5. CASE p.state = "CHECKSUM_LOWER"
  <2>1. gdb_packet_parse_char(p, c) =
            [plain EXCEPT !.reference_checksum = lower, !.state = "COMPLETE"]
    BY <1>5 DEF gdb_packet_parse_char
  <2>2. "COMPLETE" \in PacketState
    BY DEF PacketState
  <2> HIDE DEF plain, lower
  <2>3. Bounded(p, [plain EXCEPT !.reference_checksum = lower,
                                 !.state = "COMPLETE"])
    BY <1>1, <1>3, <2>2, SetReference
  <2> QED BY <2>1, <2>3
<1>6. CASE p.state \notin {"CHECKSUM_UPPER", "CHECKSUM_LOWER"}
  BY <1>1, <1>6 DEF gdb_packet_parse_char
<1> QED BY <1>4, <1>5, <1>6

LEMMA StepBounded ==
    ASSUME NEW p \in Packet, NEW c \in Char, Len(p.buffer) <= MAX_BUFFER_LENGTH
    PROVE  Bounded(p, StepPacket(p, c))
<1> DEFINE plain == gdb_packet_add_char(p, c, FALSE)
<1>1. Bounded(p, plain) /\ Bounded(p, p) /\ Bounded(p, gdb_packet_parse_char(p, c))
  <2>1. Len(p.buffer) \in Nat
    BY LenProperties DEF Packet
  <2>2. Bounded(p, p)
    BY <2>1 DEF Bounded
  <2>3. Bounded(p, plain)
    BY AddChar DEF Bounded
  <2> HIDE DEF plain
  <2> QED BY <2>2, <2>3, ParseBounded
<1>2. \A st \in PacketState : Bounded(p, [plain EXCEPT !.state = st])
                            /\ Bounded(p, [p EXCEPT !.state = st])
  <2> HIDE DEF plain
  <2> QED BY <1>1, SetState
<1>3. {"COLLECT", "CHECKSUM_UPPER", "ABORT"} \subseteq PacketState
  BY DEF PacketState
<1>4. \/ StepPacket(p, c) = [plain EXCEPT !.state = "COLLECT"]
      \/ StepPacket(p, c) = [plain EXCEPT !.state = "CHECKSUM_UPPER"]
      \/ StepPacket(p, c) = [p EXCEPT !.state = "ABORT"]
      \/ StepPacket(p, c) = p
      \/ StepPacket(p, c) = gdb_packet_parse_char(p, c)
  BY DEF StepPacket, CHAR_START, CHAR_STOP, CHAR_CTRL_C, CHAR_ACK, CHAR_NACK
<1> HIDE DEF plain
<1> QED BY <1>1, <1>2, <1>3, <1>4

(* gdb_packet_read_char: a packet that is not complete grew by at most one *)
(* character; a complete one that still had room for its NUL ends in it    *)
(* and, if accepted, has equal checksums.                                  *)
LEMMA ReadChar ==
    ASSUME NEW p \in Packet, NEW c \in Char, Len(p.buffer) <= MAX_BUFFER_LENGTH
    PROVE  LET read == gdb_packet_read_char(p, c) IN
           /\ read.packet \in Packet
           /\ Len(read.packet.buffer) <= MAX_BUFFER_LENGTH
           /\ read.result \in Results
           /\ read.result = "COLLECTING" => Len(read.packet.buffer) <= Len(p.buffer) + 1
           /\ read.result = "OK" /\ Len(p.buffer) + 1 < MAX_BUFFER_LENGTH =>
                 /\ read.packet.checksum = read.packet.reference_checksum
                 /\ read.packet.buffer # <<>>
                 /\ read.packet.buffer[Len(read.packet.buffer)] = CHAR_NUL
<1> DEFINE stepped == StepPacket(p, c)
           closed  == gdb_packet_add_char(stepped, CHAR_NUL, FALSE)
           read    == gdb_packet_read_char(p, c)
<1>1. Bounded(p, stepped)
  BY StepBounded
<1> HIDE DEF stepped
<1>2. /\ closed \in Packet
      /\ Len(closed.buffer) <= MAX_BUFFER_LENGTH
      /\ HasRoom(stepped) => closed.buffer = Append(stepped.buffer, CHAR_NUL)
  <2>1. CHAR_NUL \in Char
    BY DEF CHAR_NUL, Char
  <2> QED BY <1>1, <2>1, AddChar DEF Bounded
<1>3. CASE stepped.state # "COMPLETE"
  <2>1. read = [packet |-> stepped, result |-> "COLLECTING"]
    BY <1>3 DEF gdb_packet_read_char, stepped
  <2> HIDE DEF read
  <2>2. read.packet = stepped /\ read.result = "COLLECTING"
    BY <2>1
  <2> QED BY <1>1, <2>2 DEF Bounded, Results, read
<1>4. CASE stepped.state = "COMPLETE"
  <2> DEFINE res == IF HasRoom(stepped) /\ closed.reference_checksum # closed.checksum
                    THEN "CHECKSUM_ERROR" ELSE "OK"
  <2>1. read = [packet |-> closed, result |-> res]
    BY <1>4 DEF gdb_packet_read_char, stepped
  <2>2. read.packet = closed /\ read.result = res
    <3> HIDE DEF read, closed, res
    <3> QED BY <2>1
  <2>3. ASSUME Len(p.buffer) + 1 < MAX_BUFFER_LENGTH
        PROVE  HasRoom(stepped)
    <3>1. Len(p.buffer) \in Nat /\ Len(stepped.buffer) \in Nat
      BY <1>1, LenProperties DEF Bounded, Packet
    <3> QED BY <1>1, <2>3, <3>1, BufferAssumption DEF Bounded, HasRoom
  <2>4. ASSUME HasRoom(stepped)
        PROVE  closed.buffer # <<>> /\ closed.buffer[Len(closed.buffer)] = CHAR_NUL
    <3>1. stepped.buffer \in Seq(Char) /\ CHAR_NUL \in Char
      BY <1>1 DEF Bounded, Packet, CHAR_NUL, Char
    <3>2. closed.buffer = Append(stepped.buffer, CHAR_NUL)
      BY <1>2, <2>4
    <3>3. ASSUME NEW t \in Seq(Char), NEW n \in Char
          PROVE  Append(t, n) # <<>> /\ Append(t, n)[Len(Append(t, n))] = n
      BY AppendProperties
    <3> HIDE DEF closed
    <3> QED BY <3>1, <3>2, <3>3
  <2>5. res = "OK" /\ HasRoom(stepped) => closed.checksum = closed.reference_checksum
    OBVIOUS
  <2>6. res \in {"OK", "CHECKSUM_ERROR"}
    OBVIOUS
  <2> HIDE DEF closed, res, read
  <2> QED BY <1>2, <2>2, <2>3, <2>4, <2>5, <2>6 DEF Results, read
<1> QED BY <1>3, <1>4

(* While a call collects, the buffer is no longer than the data consumed;  *)
(* this is what leaves room for the NUL of the frame that ends it.         *)
BufferWithinInput ==
    pc = "reading" => Len(packet.buffer) <= Len(input) /\ result = "COLLECTING"

ReaderInv == TypeOK /\ BufferWithinInput /\ AcceptedIsVerified

LEMMA InitPacket ==
    /\ gdb_packet_init("INBOUND") \in Packet
    /\ gdb_packet_init("INBOUND").buffer = <<>>
BY DEF gdb_packet_init, Packet, PacketState, PacketType, Char

(* No execution of the reader stores a character outside the buffer, and   *)
(* a packet accepted before the data have outgrown the buffer had its      *)
(* checksums compared and is NUL-terminated.                               *)
LEMMA ReaderInvariant == Spec => []ReaderInv
<1>1. Init => ReaderInv
  BY InitPacket, BufferAssumption, ReaderAssumption
     DEF Init, ReaderInv, TypeOK, BufferWithinInput, AcceptedIsVerified, Results
<1>2. ReaderInv /\ [Next]_vars => ReaderInv'
  <2> SUFFICES ASSUME ReaderInv, [Next]_vars PROVE ReaderInv'
    OBVIOUS
  <2> USE DEF ReaderInv, TypeOK, BufferWithinInput, AcceptedIsVerified, Returned
  <2>1. CASE Call
    BY <2>1, InitPacket, BufferAssumption, ReaderAssumption DEF Call, Results
  <2>2. ASSUME NEW character \in Alphabet, Read(character) PROVE ReaderInv'
    <3> DEFINE read == gdb_packet_read_char(packet, character)
    <3>1. character \in Char
      BY ReaderAssumption
    <3>2. /\ pc = "reading" /\ Len(input) < MaxInput
          /\ input' = Append(input, character)
          /\ packet' = read.packet /\ result' = read.result
          /\ pc' = IF read.result \in {"OK", "CHECKSUM_ERROR"} THEN "returned" ELSE "reading"
      BY <2>2 DEF Read
    <3>3. /\ read.packet \in Packet
          /\ Len(read.packet.buffer) <= MAX_BUFFER_LENGTH
          /\ read.result \in Results
          /\ read.result = "COLLECTING" => Len(read.packet.buffer) <= Len(packet.buffer) + 1
          /\ read.result = "OK" /\ Len(packet.buffer) + 1 < MAX_BUFFER_LENGTH =>
                /\ read.packet.checksum = read.packet.reference_checksum
                /\ read.packet.buffer # <<>>
                /\ read.packet.buffer[Len(read.packet.buffer)] = CHAR_NUL
      BY <3>1, ReadChar
    <3> HIDE DEF read
    <3>4. input' \in Seq(Alphabet) /\ Len(input') = Len(input) + 1
      BY <3>2, AppendProperties
    <3>5. /\ Len(input) \in Nat /\ Len(packet.buffer) \in Nat
          /\ Len(input) + 1 <= MaxInput
      BY <3>2, LenProperties, ReaderAssumption DEF Packet
    <3>6. TypeOK'
      BY <3>2, <3>3, <3>4, <3>5
    <3>7. BufferWithinInput'
      BY <3>2, <3>3, <3>4, <3>5 DEF Results
    <3>8. AcceptedIsVerified'
      BY <3>2, <3>3, <3>4, <3>5, BufferAssumption, ReaderAssumption
    <3> QED BY <3>6, <3>7, <3>8
  <2>3. ASSUME NEW character \in Alphabet, ReadHalts(character) PROVE ReaderInv'
    BY <2>3 DEF ReadHalts
  <2>4. CASE EndOfInput
    BY <2>4 DEF EndOfInput
  <2>5. CASE UNCHANGED vars
    BY <2>5 DEF vars
  <2> QED BY <2>1, <2>2, <2>3, <2>4, <2>5 DEF Next
<1> QED BY <1>1, <1>2, PTL DEF Spec

(* Type correctness of the reader, for every buffer length and input.      *)
THEOREM ReaderTypeOK == Spec => []TypeOK
<1>1. ReaderInv => TypeOK
  BY DEF ReaderInv
<1> QED BY <1>1, ReaderInvariant, PTL

(* What gdb_execute relies on, for every buffer length: an accepted packet *)
(* had its checksums compared and ends in NUL.                             *)
THEOREM ReaderVerifies == Spec => []AcceptedIsVerified
<1>1. ReaderInv => AcceptedIsVerified
  BY DEF ReaderInv
<1> QED BY <1>1, ReaderInvariant, PTL
-----------------------------------------------------------------------------
(* What one character does to each field of the packet.                    *)
LEMMA AddFields ==
    ASSUME NEW p \in Packet, NEW c \in Char, NEW b \in BOOLEAN
    PROVE  LET q == gdb_packet_add_char(p, c, b) IN
           /\ q.state = p.state /\ q.reference_checksum = p.reference_checksum
           /\ q.buffer = IF HasRoom(p) THEN Append(p.buffer, c) ELSE p.buffer
           /\ q.checksum = IF b /\ HasRoom(p) THEN U8(p.checksum + c) ELSE p.checksum
BY DEF gdb_packet_add_char, Packet

Stepped(p, c, q) ==
    /\ c = CHAR_START => q.state = "COLLECT"
    /\ c = CHAR_STOP => q.state = "CHECKSUM_UPPER"
    /\ c = CHAR_CTRL_C => q.state = "ABORT"
    /\ ~Delimiter(c) /\ p.state = "CHECKSUM_UPPER" =>
          /\ q.state = "CHECKSUM_LOWER"
          /\ q.reference_checksum = U8(char_from_hex_nibble(c) * 16)
    /\ ~Delimiter(c) /\ p.state = "CHECKSUM_LOWER" =>
          /\ q.state = "COMPLETE"
          /\ q.reference_checksum = U8(p.reference_checksum + char_from_hex_nibble(c))
    /\ ~Delimiter(c) /\ p.state \notin {"CHECKSUM_UPPER", "CHECKSUM_LOWER"} =>
          q.state = p.state
    /\ q.buffer = IF c # CHAR_CTRL_C /\ HasRoom(p) THEN Append(p.buffer, c) ELSE p.buffer
    /\ q.checksum = IF /\ ~Delimiter(c) /\ HasRoom(p)
                       /\ p.state \notin {"CHECKSUM_UPPER", "CHECKSUM_LOWER"}
                    THEN U8(p.checksum + c) ELSE p.checksum

LEMMA StepFields ==
    ASSUME NEW p \in Packet, NEW c \in Char, Len(p.buffer) <= MAX_BUFFER_LENGTH,
           p.state # "PENDING_ACK"
    PROVE  Stepped(p, c, StepPacket(p, c))
<1> DEFINE plain   == gdb_packet_add_char(p, c, FALSE)
           counted == gdb_packet_add_char(p, c, TRUE)
<1>1. /\ plain \in Packet /\ counted \in Packet
      /\ plain.state = p.state /\ counted.state = p.state
      /\ plain.reference_checksum = p.reference_checksum
      /\ counted.reference_checksum = p.reference_checksum
      /\ plain.buffer = IF HasRoom(p) THEN Append(p.buffer, c) ELSE p.buffer
      /\ counted.buffer = IF HasRoom(p) THEN Append(p.buffer, c) ELSE p.buffer
      /\ plain.checksum = p.checksum
      /\ counted.checksum = IF HasRoom(p) THEN U8(p.checksum + c) ELSE p.checksum
  BY AddFields, AddChar
<1>2. /\ CHAR_START # CHAR_STOP /\ CHAR_START # CHAR_CTRL_C /\ CHAR_STOP # CHAR_CTRL_C
  BY DEF CHAR_START, CHAR_STOP, CHAR_CTRL_C
<1> DEFINE upper == [plain EXCEPT
                        !.reference_checksum = U8(char_from_hex_nibble(c) * 16),
                        !.state              = "CHECKSUM_LOWER"]
           lower == [plain EXCEPT
                        !.reference_checksum = U8(@ + char_from_hex_nibble(c)),
                        !.state              = "COMPLETE"]
<1>3. /\ c = CHAR_START => StepPacket(p, c) = [plain EXCEPT !.state = "COLLECT"]
      /\ c = CHAR_STOP => StepPacket(p, c) = [plain EXCEPT !.state = "CHECKSUM_UPPER"]
      /\ c = CHAR_CTRL_C => StepPacket(p, c) = [p EXCEPT !.state = "ABORT"]
  BY <1>2 DEF StepPacket
<1>4. ~Delimiter(c) =>
          /\ p.state = "CHECKSUM_UPPER" => StepPacket(p, c) = upper
          /\ p.state = "CHECKSUM_LOWER" => StepPacket(p, c) = lower
          /\ p.state \notin {"CHECKSUM_UPPER", "CHECKSUM_LOWER"} => StepPacket(p, c) = counted
  BY DEF StepPacket, gdb_packet_parse_char, Delimiter
<1> HIDE DEF plain, counted
<1>5. /\ upper.state = "CHECKSUM_LOWER" /\ upper.buffer = plain.buffer
      /\ upper.reference_checksum = U8(char_from_hex_nibble(c) * 16)
      /\ upper.checksum = plain.checksum
  BY <1>1 DEF Packet
<1>6. /\ lower.state = "COMPLETE" /\ lower.buffer = plain.buffer
      /\ lower.reference_checksum = U8(p.reference_checksum + char_from_hex_nibble(c))
      /\ lower.checksum = plain.checksum
  BY <1>1 DEF Packet
<1> HIDE DEF upper, lower
<1>7. CASE Delimiter(c)
  <2>1. c = CHAR_START \/ c = CHAR_STOP \/ c = CHAR_CTRL_C
    BY <1>7 DEF Delimiter
  <2>2. CASE c = CHAR_START
    BY <1>1, <1>2, <1>3, <1>7, <2>2 DEF Stepped, Packet
  <2>3. CASE c = CHAR_STOP
    BY <1>1, <1>2, <1>3, <1>7, <2>3 DEF Stepped, Packet
  <2>4. CASE c = CHAR_CTRL_C
    BY <1>2, <1>3, <1>7, <2>4 DEF Stepped, Packet
  <2> QED BY <2>1, <2>2, <2>3, <2>4
<1>8. CASE ~Delimiter(c)
  <2>1. c # CHAR_START /\ c # CHAR_STOP /\ c # CHAR_CTRL_C
    BY <1>8 DEF Delimiter
  <2>2. CASE p.state = "CHECKSUM_UPPER"
    BY <1>1, <1>4, <1>5, <1>8, <2>1, <2>2 DEF Stepped
  <2>3. CASE p.state = "CHECKSUM_LOWER"
    BY <1>1, <1>4, <1>6, <1>8, <2>1, <2>3 DEF Stepped
  <2>4. CASE p.state \notin {"CHECKSUM_UPPER", "CHECKSUM_LOWER"}
    BY <1>1, <1>4, <1>8, <2>1, <2>4 DEF Stepped
  <2> QED BY <2>2, <2>3, <2>4
<1> QED BY <1>7, <1>8

(* What is read from one character, in terms of the packet it steps to.    *)
LEMMA ReadFields ==
    ASSUME NEW p \in Packet, NEW c \in Char, Len(p.buffer) <= MAX_BUFFER_LENGTH
    PROVE  LET q    == StepPacket(p, c)
               read == gdb_packet_read_char(p, c)
           IN  /\ q.state # "COMPLETE" => read.packet = q /\ read.result = "COLLECTING"
               /\ q.state = "COMPLETE" =>
                     /\ read.packet.state = "COMPLETE"
                     /\ read.packet.checksum = q.checksum
                     /\ read.packet.reference_checksum = q.reference_checksum
                     /\ read.packet.buffer = IF HasRoom(q) THEN Append(q.buffer, CHAR_NUL)
                                             ELSE q.buffer
                     /\ read.result \in {"OK", "CHECKSUM_ERROR"}
                     /\ HasRoom(q) => (read.result = "OK" <=>
                                          q.reference_checksum = q.checksum)
<1> DEFINE q      == StepPacket(p, c)
           closed == gdb_packet_add_char(q, CHAR_NUL, FALSE)
           res    == IF HasRoom(q) /\ closed.reference_checksum # closed.checksum
                     THEN "CHECKSUM_ERROR" ELSE "OK"
           read   == gdb_packet_read_char(p, c)
<1>1. /\ q.state # "COMPLETE" => read = [packet |-> q, result |-> "COLLECTING"]
      /\ q.state = "COMPLETE" => read = [packet |-> closed, result |-> res]
  BY DEF gdb_packet_read_char
<1>2. q \in Packet /\ CHAR_NUL \in Char
  BY StepBounded DEF Bounded, CHAR_NUL, Char
<1> HIDE DEF q, read
<1>3. /\ closed.state = q.state /\ closed.reference_checksum = q.reference_checksum
      /\ closed.buffer = IF HasRoom(q) THEN Append(q.buffer, CHAR_NUL) ELSE q.buffer
      /\ closed.checksum = q.checksum
  BY <1>2, AddFields
<1>4. /\ res \in {"OK", "CHECKSUM_ERROR"}
      /\ HasRoom(q) => (res = "OK" <=> closed.reference_checksum = closed.checksum)
  OBVIOUS
<1> HIDE DEF closed, res
<1>5. /\ q.state # "COMPLETE" => read.packet = q /\ read.result = "COLLECTING"
      /\ q.state = "COMPLETE" => read.packet = closed /\ read.result = res
  BY <1>1
<1> QED BY <1>3, <1>4, <1>5 DEF q, read
-----------------------------------------------------------------------------
(* The state of the packet is what the characters read so far say: it      *)
(* knows a '#', a first and a second digit when the grammar does, and no   *)
(* second digit came before the last character.                            *)
Scanned ==
    /\ packet.state \in {"INIT", "COLLECT", "CHECKSUM_UPPER", "CHECKSUM_LOWER", "COMPLETE",
                         "ABORT"}
    /\ packet.state = "CHECKSUM_UPPER" <=> input # <<>> /\ input[Len(input)] = CHAR_STOP
    /\ packet.state = "CHECKSUM_LOWER" <=> UpperDigit(input, Len(input))
    /\ packet.state = "COMPLETE" <=> LowerDigit(input, Len(input))
    /\ \A i \in 1..(Len(input) - 1) : ~LowerDigit(input, i)
    /\ result = "COLLECTING" <=> packet.state # "COMPLETE"
    /\ pc = "reading" => packet.state # "COMPLETE"

(* As long as the data fit, the checksum is the sum of what counts.        *)
Summed ==
    Len(input) <= MAX_BUFFER_LENGTH =>
        packet.checksum = SumOver(input, CountedPositions(input))

(* The reference checksum holds the digits read so far.                    *)
Referenced ==
    /\ packet.state = "CHECKSUM_LOWER" =>
          /\ char_from_hex_nibble(input[Len(input)]) \in 0..15
          /\ packet.reference_checksum = 16 * char_from_hex_nibble(input[Len(input)])
    /\ packet.state = "COMPLETE" => packet.reference_checksum = DigitsOf(input)

(* With room for the NUL the two were compared.                            *)
Compared ==
    result # "COLLECTING" /\ Len(input) < MAX_BUFFER_LENGTH =>
        (result = "OK" <=> packet.reference_checksum = packet.checksum)

ScanInv == Scanned /\ Summed /\ Referenced /\ Compared /\ BufferHoldsInput

(* The outcome of reading c, where q is the packet after the state switch. *)
ReadBy(c, q) ==
    /\ c \in Char /\ input \in Seq(Char) /\ Len(input) \in Nat
    /\ packet.buffer \in Seq(Char) /\ q.buffer \in Seq(Char)
    /\ packet.checksum \in Char
    /\ Len(packet.buffer) <= Len(input) /\ Len(q.buffer) <= Len(packet.buffer) + 1
    /\ Len(packet.buffer) <= MAX_BUFFER_LENGTH
    /\ input' = Append(input, c) /\ ~HaltsOn(packet, c) /\ packet.state # "COMPLETE"
    /\ Stepped(packet, c, q)
    /\ packet'.state = q.state /\ packet'.checksum = q.checksum
    /\ packet'.reference_checksum = q.reference_checksum
    /\ packet'.buffer = IF q.state = "COMPLETE" /\ HasRoom(q)
                        THEN Append(q.buffer, CHAR_NUL) ELSE q.buffer
    /\ result' = "COLLECTING" <=> q.state # "COMPLETE"
    /\ q.state = "COMPLETE" /\ HasRoom(q) =>
          (result' = "OK" <=> q.reference_checksum = q.checksum)
    /\ pc' = "reading" => q.state # "COMPLETE"

LEMMA ReadIsBy ==
    ASSUME ReaderInv, Scanned, NEW c \in Alphabet, Read(c)
    PROVE  ReadBy(c, StepPacket(packet, c))
<1> DEFINE q    == StepPacket(packet, c)
           read == gdb_packet_read_char(packet, c)
<1>1. /\ c \in Char /\ packet \in Packet /\ Len(packet.buffer) <= MAX_BUFFER_LENGTH
      /\ input \in Seq(Char) /\ Len(input) \in Nat
      /\ pc = "reading" /\ Len(packet.buffer) <= Len(input)
      /\ packet.state # "COMPLETE" /\ packet.state # "PENDING_ACK"
  <2>1. input \in Seq(Alphabet) /\ Alphabet \subseteq Char
    BY ReaderAssumption DEF ReaderInv, TypeOK
  <2>2. input \in Seq(Char) /\ Len(input) \in Nat
    BY <2>1, LenProperties
  <2> QED BY <2>1, <2>2 DEF ReaderInv, TypeOK, BufferWithinInput, Scanned, Read
<1>2. Stepped(packet, c, q) /\ Bounded(packet, q)
  BY <1>1, StepFields, StepBounded
<1>3. /\ q.state # "COMPLETE" => read.packet = q /\ read.result = "COLLECTING"
      /\ q.state = "COMPLETE" =>
            /\ read.packet.state = "COMPLETE"
            /\ read.packet.checksum = q.checksum
            /\ read.packet.reference_checksum = q.reference_checksum
            /\ read.packet.buffer = IF HasRoom(q) THEN Append(q.buffer, CHAR_NUL) ELSE q.buffer
            /\ read.result \in {"OK", "CHECKSUM_ERROR"}
            /\ HasRoom(q) => (read.result = "OK" <=> q.reference_checksum = q.checksum)
  BY <1>1, ReadFields
<1>4. /\ input' = Append(input, c) /\ ~HaltsOn(packet, c)
      /\ packet' = read.packet /\ result' = read.result
      /\ pc' = IF read.result \in {"OK", "CHECKSUM_ERROR"} THEN "returned" ELSE "reading"
  BY DEF Read
<1>5. /\ packet.buffer \in Seq(Char) /\ q.buffer \in Seq(Char) /\ packet.checksum \in Char
      /\ Len(q.buffer) <= Len(packet.buffer) + 1
  BY <1>1, <1>2 DEF Bounded, Packet
<1> HIDE DEF q, read
<1>6. /\ packet'.state = q.state /\ packet'.checksum = q.checksum
      /\ packet'.reference_checksum = q.reference_checksum
      /\ packet'.buffer = IF q.state = "COMPLETE" /\ HasRoom(q)
                          THEN Append(q.buffer, CHAR_NUL) ELSE q.buffer
  BY <1>3, <1>4
<1>7. /\ result' = "COLLECTING" <=> q.state # "COMPLETE"
      /\ q.state = "COMPLETE" /\ HasRoom(q) =>
            (result' = "OK" <=> q.reference_checksum = q.checksum)
      /\ pc' = "reading" => q.state # "COMPLETE"
  BY <1>3, <1>4
<1>8. ReadBy(c, q)
  BY <1>1, <1>2, <1>4, <1>5, <1>6, <1>7, Zenon DEF ReadBy
<1> QED BY <1>8 DEF q

(* The digits of a text one character longer.                              *)
LEMMA DigitsOfAppend ==
    ASSUME NEW s \in Seq(Char), NEW c \in Char
    PROVE  LET t == Append(s, c)
               n == Len(s)
           IN  /\ t \in Seq(Char) /\ Len(t) = n + 1 /\ n \in Nat /\ t # <<>>
               /\ \A i \in 1..n : t[i] = s[i]
               /\ t[n + 1] = c
               /\ \A i \in 1..n : /\ UpperDigit(t, i) <=> UpperDigit(s, i)
                                  /\ LowerDigit(t, i) <=> LowerDigit(s, i)
               /\ UpperDigit(t, n + 1) <=> s # <<>> /\ s[n] = CHAR_STOP /\ ~Delimiter(c)
               /\ LowerDigit(t, n + 1) <=> UpperDigit(s, n) /\ ~Delimiter(c)
<1> DEFINE t == Append(s, c)
           n == Len(s)
<1>1. /\ t \in Seq(Char) /\ Len(t) = n + 1 /\ n \in Nat /\ t # <<>>
      /\ \A i \in 1..n : t[i] = s[i]
      /\ t[n + 1] = c
      /\ s # <<>> <=> n # 0
  BY AppendProperties, LenProperties, EmptySeq
<1> HIDE DEF t, n
<1>2. \A i \in 1..n : UpperDigit(t, i) <=> UpperDigit(s, i)
  BY <1>1 DEF UpperDigit
<1>3. \A i \in 1..n : LowerDigit(t, i) <=> LowerDigit(s, i)
  BY <1>1, <1>2 DEF LowerDigit
<1>4. UpperDigit(t, n + 1) <=> s # <<>> /\ s[n] = CHAR_STOP /\ ~Delimiter(c)
  BY <1>1 DEF UpperDigit
<1>5. LowerDigit(t, n + 1) <=> UpperDigit(s, n) /\ ~Delimiter(c)
  <2>1. n = 0 => ~UpperDigit(s, n) /\ ~UpperDigit(t, n)
    BY DEF UpperDigit
  <2>2. UpperDigit(t, n) <=> UpperDigit(s, n)
    BY <1>1, <1>2, <2>1
  <2>3. UpperDigit(s, n) => n > 1
    BY DEF UpperDigit
  <2> QED BY <1>1, <2>2, <2>3 DEF LowerDigit
<1> QED BY <1>1, <1>2, <1>3, <1>4, <1>5 DEF t, n

LEMMA ReadScans ==
    ASSUME Scanned, NEW c, NEW q, ReadBy(c, q)
    PROVE  Scanned'
<1> DEFINE n == Len(input)
<1>1. /\ Len(input') = n + 1 /\ n \in Nat /\ input' # <<>> /\ input'[n + 1] = c
      /\ \A i \in 1..n : LowerDigit(input', i) <=> LowerDigit(input, i)
      /\ UpperDigit(input', n + 1) <=> input # <<>> /\ input[n] = CHAR_STOP /\ ~Delimiter(c)
      /\ LowerDigit(input', n + 1) <=> UpperDigit(input, n) /\ ~Delimiter(c)
  BY DigitsOfAppend DEF ReadBy
<1>2. \A i \in 1..n : ~LowerDigit(input', i)
  <2>1. \A i \in 1..(n - 1) : ~LowerDigit(input, i)
    BY DEF Scanned
  <2>2. ~LowerDigit(input, n)
    BY DEF Scanned, ReadBy
  <2>3. \A i \in 1..n : ~LowerDigit(input, i)
    BY <1>1, <2>1, <2>2
  <2> QED BY <1>1, <2>3
<1>3. \A i \in 1..(Len(input') - 1) : ~LowerDigit(input', i)
  BY <1>1, <1>2
<1>4. /\ packet.state = "CHECKSUM_UPPER" <=> input # <<>> /\ input[n] = CHAR_STOP
      /\ packet.state = "CHECKSUM_LOWER" <=> UpperDigit(input, n)
      /\ packet.state \in {"INIT", "COLLECT", "CHECKSUM_UPPER", "CHECKSUM_LOWER", "ABORT"}
      /\ packet'.state = q.state /\ Stepped(packet, c, q)
      /\ result' = "COLLECTING" <=> q.state # "COMPLETE"
      /\ pc' = "reading" => q.state # "COMPLETE"
  BY DEF Scanned, ReadBy
<1> HIDE DEF n
<1>5. /\ q.state \in {"INIT", "COLLECT", "CHECKSUM_UPPER", "CHECKSUM_LOWER", "COMPLETE", "ABORT"}
      /\ q.state = "CHECKSUM_UPPER" <=> c = CHAR_STOP
      /\ q.state = "CHECKSUM_LOWER" <=> packet.state = "CHECKSUM_UPPER" /\ ~Delimiter(c)
      /\ q.state = "COMPLETE" <=> packet.state = "CHECKSUM_LOWER" /\ ~Delimiter(c)
  BY <1>4 DEF Stepped, Delimiter, CHAR_START, CHAR_STOP, CHAR_CTRL_C
<1> QED BY <1>1, <1>3, <1>4, <1>5 DEF Scanned

(* The positions that count are among those read, and finitely many.       *)
LEMMA CountedFinite ==
    ASSUME NEW s \in Seq(Char)
    PROVE  /\ CountedPositions(s) \subseteq 1..Len(s)
           /\ IsFiniteSet(CountedPositions(s))
           /\ \A i \in CountedPositions(s) : s[i] \in Nat
           /\ Total(s, CountedPositions(s)) \in Nat
<1>1. CountedPositions(s) \subseteq 1..Len(s) /\ Len(s) \in Nat
  BY LenProperties DEF CountedPositions
<1>2. IsFiniteSet(CountedPositions(s))
  <2>1. IsFiniteSet(1..Len(s))
    BY <1>1, FS_Interval
  <2> QED BY <1>1, <2>1, FS_Subset
<1>3. \A i \in CountedPositions(s) : s[i] \in Nat
  <2>1. \A i \in 1..Len(s) : s[i] \in Char
    BY ElementOfSeq
  <2>2. \A i \in CountedPositions(s) : s[i] \in Char
    BY <1>1, <2>1
  <2>3. Char \subseteq Nat
    BY DEF Char
  <2> QED BY <2>2, <2>3
<1> QED BY <1>1, <1>2, <1>3, TotalType

(* One character more adds itself to the sum or nothing.                   *)
LEMMA SumOfAppend ==
    ASSUME NEW s \in Seq(Char), NEW c \in Char
    PROVE  LET t == Append(s, c)
               n == Len(s)
           IN  SumOver(t, CountedPositions(t)) =
                   IF ~Delimiter(c) /\ ~UpperDigit(t, n + 1) /\ ~LowerDigit(t, n + 1)
                   THEN U8(SumOver(s, CountedPositions(s)) + c)
                   ELSE SumOver(s, CountedPositions(s))
<1> DEFINE t == Append(s, c)
           n == Len(s)
           P == CountedPositions(s)
           Q == CountedPositions(t)
           counts == ~Delimiter(c) /\ ~UpperDigit(t, n + 1) /\ ~LowerDigit(t, n + 1)
<1>1. /\ t \in Seq(Char) /\ Len(t) = n + 1 /\ n \in Nat
      /\ \A i \in 1..n : t[i] = s[i]
      /\ t[n + 1] = c
      /\ \A i \in 1..n : /\ UpperDigit(t, i) <=> UpperDigit(s, i)
                         /\ LowerDigit(t, i) <=> LowerDigit(s, i)
  BY DigitsOfAppend
<1>2. /\ P \subseteq 1..n /\ IsFiniteSet(P) /\ Total(s, P) \in Nat
      /\ \A i \in P : s[i] \in Nat
  BY CountedFinite
<1> HIDE DEF t
<1>3. Q = P \cup (IF counts THEN {n + 1} ELSE {})
  <2>1. 1..(n + 1) = (1..n) \cup {n + 1}
    BY <1>1
  <2>2. \A i \in 1..n : i \in Q <=> i \in P
    BY <1>1, <2>1 DEF CountedPositions
  <2>3. n + 1 \in Q <=> counts
    BY <1>1, <2>1 DEF CountedPositions
  <2>4. Q \subseteq 1..(n + 1)
    BY <1>1 DEF CountedPositions
  <2> HIDE DEF P, Q, n, counts
  <2> QED BY <1>2, <2>1, <2>2, <2>3, <2>4
<1> HIDE DEF P, Q, n
<1>4. Total(t, P) = Total(s, P)
  BY <1>1, <1>2, TotalSame
<1>5. \A i \in P : t[i] \in Nat
  BY <1>1, <1>2
<1>6. CASE counts
  <2>1. n + 1 \notin P /\ c \in Nat
    BY <1>1, <1>2 DEF Char
  <2>2. Total(t, P \cup {n + 1}) = Total(t, P) + t[n + 1]
    BY <1>1, <1>2, <1>5, <2>1, TotalAdd
  <2>3. Total(t, Q) = Total(s, P) + c
    BY <1>1, <1>3, <1>4, <1>6, <2>2
  <2>4. \A x, y \in Nat : U8(x + y) = U8(U8(x) + y)
    BY DEF U8
  <2> QED BY <1>2, <1>6, <2>1, <2>3, <2>4 DEF SumOver, Total, t, n, P, Q
<1>7. CASE ~counts
  <2>1. Total(t, Q) = Total(s, P)
    BY <1>3, <1>4, <1>7
  <2> QED BY <1>7, <2>1 DEF SumOver, Total, t, n, P, Q
<1> QED BY <1>6, <1>7

LEMMA ReadSums ==
    ASSUME Scanned, Summed, NEW c, NEW q, ReadBy(c, q)
    PROVE  Summed'
<1> DEFINE n == Len(input)
           t == Append(input, c)
<1>1. /\ input \in Seq(Char) /\ c \in Char /\ n \in Nat /\ input' = t
      /\ Len(packet.buffer) <= n /\ Len(packet.buffer) \in Nat
      /\ Stepped(packet, c, q) /\ packet'.checksum = q.checksum
  BY LenProperties DEF ReadBy
<1>2. /\ Len(t) = n + 1
      /\ UpperDigit(t, n + 1) <=> input # <<>> /\ input[n] = CHAR_STOP /\ ~Delimiter(c)
      /\ LowerDigit(t, n + 1) <=> UpperDigit(input, n) /\ ~Delimiter(c)
  BY <1>1, DigitsOfAppend
<1>3. SumOver(t, CountedPositions(t)) =
          IF ~Delimiter(c) /\ ~UpperDigit(t, n + 1) /\ ~LowerDigit(t, n + 1)
          THEN U8(SumOver(input, CountedPositions(input)) + c)
          ELSE SumOver(input, CountedPositions(input))
  BY <1>1, SumOfAppend
<1>4. /\ packet.state = "CHECKSUM_UPPER" <=> input # <<>> /\ input[n] = CHAR_STOP
      /\ packet.state = "CHECKSUM_LOWER" <=> UpperDigit(input, n)
  BY DEF Scanned
<1>5. SUFFICES ASSUME n + 1 <= MAX_BUFFER_LENGTH
               PROVE  packet'.checksum = SumOver(t, CountedPositions(t))
  BY <1>1, <1>2 DEF Summed
<1>6. HasRoom(packet) /\ packet.checksum = SumOver(input, CountedPositions(input))
  BY <1>1, <1>5, BufferAssumption DEF HasRoom, Summed
<1>7. q.checksum = IF /\ ~Delimiter(c)
                      /\ packet.state \notin {"CHECKSUM_UPPER", "CHECKSUM_LOWER"}
                   THEN U8(packet.checksum + c) ELSE packet.checksum
  BY <1>1, <1>6 DEF Stepped
<1> HIDE DEF n, t
<1> QED BY <1>1, <1>2, <1>3, <1>4, <1>6, <1>7

(* Digits that the assertion of char_from_hex_nibble lets through are      *)
(* nibbles, so the reference checksum never wraps.                         *)
LEMMA ReadRefers ==
    ASSUME Scanned, Referenced, NEW c, NEW q, ReadBy(c, q)
    PROVE  Referenced'
<1> DEFINE n == Len(input)
           d == char_from_hex_nibble(c)
           u == char_from_hex_nibble(input[n])
<1>1. /\ input \in Seq(Char) /\ c \in Char /\ n \in Nat /\ input' = Append(input, c)
      /\ Stepped(packet, c, q) /\ packet'.reference_checksum = q.reference_checksum
      /\ packet'.state = q.state /\ ~HaltsOn(packet, c)
  BY DEF ReadBy
<1>2. /\ Len(input') = n + 1 /\ input'[n + 1] = c
      /\ n \in 1..n => input'[n] = input[n]
  BY <1>1, DigitsOfAppend
<1>3. packet.state \in {"CHECKSUM_UPPER", "CHECKSUM_LOWER"} /\ ~Delimiter(c) => d \in 0..15
  <2>1. d \in Char
    BY <1>1, NibbleType
  <2>2. packet.state \in {"CHECKSUM_UPPER", "CHECKSUM_LOWER"} /\ ~Delimiter(c) => d <= 15
    BY <1>1 DEF HaltsOn, IsHexNibble, Delimiter
  <2> HIDE DEF d
  <2> QED BY <2>1, <2>2 DEF Char
<1>4. /\ q.state = "CHECKSUM_LOWER" => packet.state = "CHECKSUM_UPPER" /\ ~Delimiter(c)
      /\ q.state = "COMPLETE" => packet.state = "CHECKSUM_LOWER" /\ ~Delimiter(c)
  BY <1>1 DEF Stepped, Scanned, Delimiter, ReadBy
<1>5. /\ q.state = "CHECKSUM_LOWER" => q.reference_checksum = U8(d * 16)
      /\ q.state = "COMPLETE" => q.reference_checksum = U8(packet.reference_checksum + d)
  BY <1>1, <1>4 DEF Stepped
<1>6. packet.state = "CHECKSUM_LOWER" => u \in 0..15 /\ packet.reference_checksum = 16 * u
  BY DEF Referenced
<1>7. packet.state = "CHECKSUM_LOWER" => n \in 1..n
  <2>1. packet.state = "CHECKSUM_LOWER" => n > 1
    BY DEF Scanned, UpperDigit
  <2> QED BY <1>1, <2>1
<1>8. \A x, y \in 0..15 : U8(y * 16) = 16 * y /\ U8(16 * x + y) = 16 * x + y
  BY DEF U8
<1>9. ASSUME q.state = "CHECKSUM_LOWER"
      PROVE  d \in 0..15 /\ packet'.reference_checksum = 16 * d
  <2> HIDE DEF d
  <2> QED BY <1>1, <1>3, <1>4, <1>5, <1>8, <1>9
<1>10. ASSUME q.state = "COMPLETE"
       PROVE  packet'.reference_checksum = DigitsOf(input')
  <2>1. packet'.reference_checksum = 16 * u + d
    <3> HIDE DEF d, u
    <3> QED BY <1>1, <1>3, <1>4, <1>5, <1>6, <1>8, <1>10
  <2>2. input'[Len(input') - 1] = input[n] /\ input'[Len(input')] = c
    BY <1>1, <1>2, <1>4, <1>7, <1>10
  <2> QED BY <2>1, <2>2 DEF DigitsOf
<1>11. d = char_from_hex_nibble(input'[Len(input')])
  BY <1>2
<1> HIDE DEF d
<1> QED BY <1>1, <1>9, <1>10, <1>11 DEF Referenced

LEMMA ReadCompares ==
    ASSUME NEW c, NEW q, ReadBy(c, q)
    PROVE  Compared'
<1>1. Len(input') = Len(input) + 1
  BY DigitsOfAppend DEF ReadBy
<1>2. SUFFICES ASSUME result' # "COLLECTING", Len(input) + 1 < MAX_BUFFER_LENGTH
               PROVE  result' = "OK" <=> packet'.reference_checksum = packet'.checksum
  BY <1>1 DEF Compared
<1>3. HasRoom(q)
  <2>1. Len(q.buffer) \in Nat /\ Len(packet.buffer) \in Nat /\ Len(input) \in Nat
    BY LenProperties DEF ReadBy
  <2>2. Len(packet.buffer) <= Len(input) /\ Len(q.buffer) <= Len(packet.buffer) + 1
    BY DEF ReadBy
  <2> QED BY <1>2, <2>1, <2>2, BufferAssumption DEF HasRoom
<1> QED BY <1>2, <1>3 DEF ReadBy

-----------------------------------------------------------------------------
(* The buffer and the text.                                                *)
KeptOf(S) == [c \in S |-> IF c = CHAR_CTRL_C THEN <<>> ELSE <<c>>]

LEMMA KeptIsMap ==
    ASSUME NEW S, NEW s \in Seq(S)
    PROVE  Kept(s) = FlattenMap(KeptOf(S), s)
<1>1. \A i \in DOMAIN s : s[i] \in S
  BY ElementOfSeq, LenProperties
<1>2. [i \in DOMAIN s |-> IF s[i] = CHAR_CTRL_C THEN <<>> ELSE <<s[i]>>] =
          [i \in DOMAIN s |-> KeptOf(S)[s[i]]]
  BY <1>1 DEF KeptOf
<1> QED BY <1>2, Zenon DEF Kept, FlattenMap, Mapped

LEMMA KeptAppend ==
    ASSUME NEW s \in Seq(Char), NEW c \in Char
    PROVE  /\ Kept(s) \in Seq(Char)
           /\ Kept(Append(s, c)) = IF c = CHAR_CTRL_C THEN Kept(s) ELSE Append(Kept(s), c)
<1> DEFINE F == KeptOf(Char)
<1>1. MapsInto(F, Char, Char)
  <2>1. \A e \in Char : (IF e = CHAR_CTRL_C THEN <<>> ELSE <<e>>) \in Seq(Char)
    OBVIOUS
  <2> QED BY <2>1 DEF MapsInto, KeptOf
<1>2. F[c] = IF c = CHAR_CTRL_C THEN <<>> ELSE <<c>>
  BY DEF KeptOf
<1>3. Append(s, c) \in Seq(Char)
  BY AppendProperties
<1> HIDE DEF F
<1>4. Kept(s) = FlattenMap(F, s) /\ Kept(Append(s, c)) = FlattenMap(F, Append(s, c))
  BY <1>3, KeptIsMap DEF F
<1>5. Kept(s) \in Seq(Char) /\ Kept(Append(s, c)) = Kept(s) \o F[c]
  BY <1>1, <1>4, FlattenMapType, FlattenMapAppend
<1> QED BY <1>2, <1>5, ConcatEmptySeq, AppendIsConcat

LEMMA KeptAll ==
    ASSUME NEW s \in Seq(Char \ {CHAR_CTRL_C})
    PROVE  Kept(s) = s
<1> DEFINE S == Char \ {CHAR_CTRL_C}
           F == KeptOf(S)
<1>1. MapsInto(F, S, S) /\ Singles(F, S)
  <2>1. \A e \in S : /\ (IF e = CHAR_CTRL_C THEN <<>> ELSE <<e>>) \in Seq(S)
                     /\ (IF e = CHAR_CTRL_C THEN <<>> ELSE <<e>>) = <<e>>
    OBVIOUS
  <2> QED BY <2>1 DEF MapsInto, Singles, KeptOf
<1> HIDE DEF F, S
<1>2. Kept(s) = FlattenMap(F, s) /\ s \in Seq(S)
  BY KeptIsMap DEF F, S
<1> QED BY <1>1, <1>2, FlattenMapSingles

(* Cutting is storing while there is room.                                 *)
LEMMA CutAppend ==
    ASSUME NEW s \in Seq(Char), NEW c \in Char
    PROVE  /\ Len(Cut(s)) < MAX_BUFFER_LENGTH => Cut(s) = s
           /\ Cut(Append(s, c)) = IF Len(Cut(s)) < MAX_BUFFER_LENGTH THEN Append(Cut(s), c)
                                  ELSE Cut(s)
<1> DEFINE t == Append(s, c)
           n == Len(s)
           M == MAX_BUFFER_LENGTH
<1>1. /\ t \in Seq(Char) /\ Len(t) = n + 1 /\ n \in Nat /\ M \in Nat \ {0}
      /\ \A i \in 1..n : t[i] = s[i]
      /\ t[n + 1] = c
  BY AppendProperties, LenProperties, BufferAssumption
<1>2. SubSeq(s, 1, n) = s /\ SubSeq(t, 1, n + 1) = t
  BY <1>1, SubSeqFull
<1> HIDE DEF t, n, M
<1>3. CASE n < M
  <2>1. Cut(s) = s
    BY <1>2, <1>3 DEF Cut, n, M
  <2>2. Cut(t) = t
    BY <1>1, <1>2, <1>3 DEF Cut, M
  <2> QED BY <1>3, <2>1, <2>2 DEF t, n, M
<1>4. CASE ~(n < M)
  <2>1. Cut(s) = SubSeq(s, 1, M) /\ Cut(t) = SubSeq(t, 1, M)
    BY <1>1, <1>4 DEF Cut, n, M
  <2>2. /\ Len(SubSeq(s, 1, M)) = M /\ Len(SubSeq(t, 1, M)) = M
        /\ \A i \in 1..M : SubSeq(s, 1, M)[i] = s[i] /\ SubSeq(t, 1, M)[i] = t[i]
        /\ SubSeq(s, 1, M) \in Seq(Char) /\ SubSeq(t, 1, M) \in Seq(Char)
    <3>1. /\ 1 \in 1..(Len(s) + 1) /\ M \in (1 - 1)..Len(s)
          /\ 1 \in 1..(Len(t) + 1) /\ M \in (1 - 1)..Len(t)
      BY <1>1, <1>4 DEF n
    <3> QED BY <1>1, <3>1, SubSeqProperties
  <2>3. \A i \in 1..M : SubSeq(s, 1, M)[i] = SubSeq(t, 1, M)[i]
    BY <1>1, <1>4, <2>2
  <2>4. SubSeq(s, 1, M) = SubSeq(t, 1, M)
    BY <2>2, <2>3, SeqEqual
  <2>5. ~(Len(Cut(s)) < M)
    BY <1>1, <2>1, <2>2
  <2> QED BY <2>1, <2>4, <2>5 DEF t, M
<1> QED BY <1>3, <1>4

LEMMA ReadFills ==
    ASSUME BufferHoldsInput, NEW c, NEW q, ReadBy(c, q)
    PROVE  BufferHoldsInput'
<1> DEFINE k == Kept(input)
           j == Kept(input')
<1>1. /\ input \in Seq(Char) /\ c \in Char /\ input' = Append(input, c)
      /\ packet.buffer = Cut(k)
      /\ q.buffer = IF c # CHAR_CTRL_C /\ HasRoom(packet) THEN Append(packet.buffer, c)
                    ELSE packet.buffer
      /\ packet'.state = q.state
      /\ packet'.buffer = IF q.state = "COMPLETE" /\ HasRoom(q)
                          THEN Append(q.buffer, CHAR_NUL) ELSE q.buffer
  BY DEF ReadBy, Stepped, BufferHoldsInput
<1>2. /\ k \in Seq(Char) /\ j \in Seq(Char)
      /\ j = IF c = CHAR_CTRL_C THEN k ELSE Append(k, c)
  <2>1. k \in Seq(Char) /\ j = IF c = CHAR_CTRL_C THEN k ELSE Append(k, c)
    BY <1>1, KeptAppend
  <2> HIDE DEF k, j
  <2> QED BY <1>1, <2>1, AppendProperties
<1> HIDE DEF k, j
<1>3. q.buffer = Cut(j)
  <2>1. Cut(Append(k, c)) = IF Len(Cut(k)) < MAX_BUFFER_LENGTH THEN Append(Cut(k), c)
                            ELSE Cut(k)
    BY <1>1, <1>2, CutAppend
  <2> QED BY <1>1, <1>2, <2>1 DEF HasRoom
<1>4. Cut(Append(j, CHAR_NUL)) = IF HasRoom(q) THEN Append(Cut(j), CHAR_NUL) ELSE Cut(j)
  <2>1. CHAR_NUL \in Char
    BY DEF CHAR_NUL, Char
  <2>2. Cut(Append(j, CHAR_NUL)) = IF Len(Cut(j)) < MAX_BUFFER_LENGTH
                                   THEN Append(Cut(j), CHAR_NUL) ELSE Cut(j)
    BY <1>2, <2>1, CutAppend
  <2> QED BY <1>3, <2>2 DEF HasRoom
<1> QED BY <1>1, <1>3, <1>4 DEF BufferHoldsInput, j

LEMMA FreshScan ==
    ASSUME input = <<>>, packet = gdb_packet_init("INBOUND"), result = "COLLECTING"
    PROVE  ScanInv
<1>1. /\ packet.state = "INIT" /\ packet.checksum = 0 /\ packet.buffer = <<>>
      /\ Len(input) = 0
  BY DEF gdb_packet_init
<1>2. Scanned /\ Referenced /\ Compared
  BY <1>1 DEF Scanned, Referenced, Compared, UpperDigit, LowerDigit
<1>3. Summed
  <2>1. CountedPositions(<<>>) = {}
    BY DEF CountedPositions
  <2>2. SumOver(<<>>, {}) = 0
    <3>1. Total(<<>>, {}) = 0
      BY TotalEmpty
    <3> QED BY <3>1 DEF SumOver, Total, U8
  <2> QED BY <1>1, <2>1, <2>2 DEF Summed
<1>4. BufferHoldsInput
  <2>1. Kept(<<>>) = <<>>
    <3>1. <<>> \in Seq(Char)
      BY EmptySeq
    <3> QED BY <3>1, KeptIsMap, FlattenMapEmpty
  <2>2. Cut(<<>>) = <<>>
    BY BufferAssumption DEF Cut
  <2> QED BY <1>1, <2>1, <2>2 DEF BufferHoldsInput
<1> QED BY <1>2, <1>3, <1>4 DEF ScanInv

LEMMA ScanInvariant == Spec => [](ReaderInv /\ ScanInv)
<1>1. Init => ScanInv
  BY FreshScan DEF Init
<1>2. ReaderInv /\ ScanInv /\ [Next]_vars => ScanInv'
  <2> SUFFICES ASSUME ReaderInv, ScanInv, [Next]_vars PROVE ScanInv'
    OBVIOUS
  <2>1. CASE Call
    <3>1. input' = <<>> /\ packet' = gdb_packet_init("INBOUND") /\ result' = "COLLECTING"
      BY <2>1 DEF Call
    <3>2. (input = <<>> /\ packet = gdb_packet_init("INBOUND") /\ result = "COLLECTING")' => ScanInv'
      BY FreshScan, PTL
    <3> QED BY <3>1, <3>2
  <2>2. ASSUME NEW character \in Alphabet, Read(character) PROVE ScanInv'
    <3>1. PICK q : ReadBy(character, q)
      BY <2>2, ReadIsBy DEF ScanInv
    <3> QED BY <3>1, ReadScans, ReadSums, ReadRefers, ReadCompares, ReadFills DEF ScanInv
  <2>3. CASE \/ \E character \in Alphabet : ReadHalts(character)
             \/ EndOfInput
             \/ UNCHANGED vars
    <3>1. UNCHANGED <<input, packet, result>> /\ (pc' = "reading" => pc = "reading")
      BY <2>3 DEF ReadHalts, EndOfInput, vars
    <3> QED BY <3>1
            DEF ScanInv, Scanned, Summed, Referenced, Compared, BufferHoldsInput
  <2> QED BY <2>1, <2>2, <2>3 DEF Next
<1> QED BY <1>1, <1>2, ReaderInvariant, PTL DEF Spec

(* For every data, whole, truncated or garbled, and every buffer length, a *)
(* call ends at the second digit after the first '#' that has one.         *)
THEOREM StopsAtFirstFrameAlways == Spec => []StopsAtFirstFrame
<1>1. ASSUME ReaderInv, ScanInv PROVE StopsAtFirstFrame
  BY <1>1 DEF ReaderInv, TypeOK, Results, ScanInv, Scanned, StopsAtFirstFrame, FrameReturned,
              Returned
<1> QED BY <1>1, ScanInvariant, PTL

(* The checksum a frame is accepted on is the sum of its characters modulo *)
(* 256, for every frame that fits the buffer.                              *)
THEOREM AcceptedIffSumMatchesAlways == Spec => []AcceptedIffSumMatches
<1>1. ASSUME ReaderInv, ScanInv PROVE AcceptedIffSumMatches
  <2> SUFFICES ASSUME FrameReturned, Len(input) < MAX_BUFFER_LENGTH
               PROVE  result = "OK" <=>
                          DigitsOf(input) = SumOver(input, CountedPositions(input))
    BY DEF AcceptedIffSumMatches
  <2>1. result # "COLLECTING" /\ packet.state = "COMPLETE"
    BY <1>1 DEF FrameReturned, ScanInv, Scanned
  <2>2. Len(input) \in Nat
    BY <1>1, LenProperties DEF ReaderInv, TypeOK
  <2> QED BY <1>1, <2>1, <2>2, BufferAssumption DEF ScanInv, Summed, Referenced, Compared
<1> QED BY <1>1, ScanInvariant, PTL

(* What the handlers find in the buffer is the text that was received, for *)
(* every data and every buffer length.                                     *)
THEOREM BufferHoldsInputAlways == Spec => []BufferHoldsInput
<1>1. ScanInv => BufferHoldsInput
  BY DEF ScanInv
<1> QED BY <1>1, ScanInvariant, PTL

(* In a well-formed packet exactly the payload counts.                     *)
LEMMA WellFormedCounts ==
    ASSUME NEW s \in Seq(Char), WellFormed(s)
    PROVE  /\ CountedPositions(s) = 2..(Len(s) - 3)
           /\ Kept(s) = s
<1> DEFINE n == Len(s)
<1>1. /\ n \in Nat /\ n >= 4 /\ s[1] = CHAR_START /\ s[n-2] = CHAR_STOP
      /\ \A i \in 2..n : i # n - 2 => ~Delimiter(s[i])
      /\ \A i \in 1..n : s[i] \in Char
  BY LenProperties, ElementOfSeq DEF WellFormed
<1>2. /\ CHAR_START # CHAR_STOP /\ CHAR_START # CHAR_CTRL_C /\ CHAR_STOP # CHAR_CTRL_C
      /\ Delimiter(CHAR_START) /\ Delimiter(CHAR_STOP)
  BY DEF CHAR_START, CHAR_STOP, CHAR_CTRL_C, Delimiter
<1> HIDE DEF n
<1>3. \A i \in 1..n : s[i] = CHAR_STOP <=> i = n - 2
  BY <1>1, <1>2 DEF Delimiter
<1>4. \A i \in 1..n : UpperDigit(s, i) <=> i = n - 1
  <2> SUFFICES ASSUME NEW i \in 1..n PROVE UpperDigit(s, i) <=> i = n - 1
    OBVIOUS
  <2>1. i > 1 => i - 1 \in 1..n
    BY <1>1
  <2>2. n - 1 \in 2..n /\ n - 1 # n - 2 /\ n - 1 > 1 /\ (n - 1) - 1 = n - 2
    BY <1>1
  <2> QED BY <1>1, <1>3, <2>1, <2>2 DEF UpperDigit
<1>5. \A i \in 1..n : LowerDigit(s, i) <=> i = n
  <2> SUFFICES ASSUME NEW i \in 1..n PROVE LowerDigit(s, i) <=> i = n
    OBVIOUS
  <2>1. i > 2 => i - 1 \in 1..n /\ (i - 1 = n - 1 <=> i = n)
    BY <1>1
  <2>2. n \in 2..n /\ n # n - 2 /\ n > 2
    BY <1>1
  <2> QED BY <1>1, <1>4, <2>1, <2>2 DEF LowerDigit
<1>6. CountedPositions(s) = 2..(n - 3)
  <2>1. \A i \in 1..n : Delimiter(s[i]) <=> i = 1 \/ i = n - 2
    BY <1>1, <1>2
  <2>2. CountedPositions(s) = {i \in 1..n : i # 1 /\ i # n - 2 /\ i # n - 1 /\ i # n}
    BY <1>4, <1>5, <2>1 DEF CountedPositions, n
  <2>3. {i \in 1..n : i # 1 /\ i # n - 2 /\ i # n - 1 /\ i # n} = 2..(n - 3)
    BY <1>1
  <2> QED BY <2>2, <2>3
<1>7. Kept(s) = s
  <2>1. \A i \in 1..n : s[i] \in Char \ {CHAR_CTRL_C}
    BY <1>1, <1>2 DEF Delimiter
  <2>2. s \in Seq(Char \ {CHAR_CTRL_C})
    BY <2>1 DEF n
  <2> QED BY <2>2, KeptAll
<1> QED BY <1>6, <1>7 DEF n

(* Every packet the protocol allows and the buffer holds is accepted, and  *)
(* the handlers then find it whole.                                        *)
THEOREM WellFormedAcceptedAlways == Spec => []WellFormedAccepted
<1>1. ASSUME ReaderInv, ScanInv PROVE WellFormedAccepted
  <2> SUFFICES ASSUME FrameReturned, Len(input) < MAX_BUFFER_LENGTH, WellFormed(input),
                      DigitsOf(input) = SumOver(input, 2..(Len(input) - 3))
               PROVE  result = "OK" /\ packet.buffer = Append(input, CHAR_NUL)
    BY DEF WellFormedAccepted
  <2>1. input \in Seq(Char) /\ Len(input) \in Nat
    <3>1. input \in Seq(Alphabet) /\ Alphabet \subseteq Char
      BY <1>1, ReaderAssumption DEF ReaderInv, TypeOK
    <3> QED BY <3>1, LenProperties
  <2>2. result # "COLLECTING" /\ packet.state = "COMPLETE"
    BY <1>1 DEF FrameReturned, ScanInv, Scanned
  <2>3. CountedPositions(input) = 2..(Len(input) - 3) /\ Kept(input) = input
    BY <2>1, WellFormedCounts
  <2>4. result = "OK"
    BY <1>1, <2>1, <2>2, <2>3, BufferAssumption
       DEF ScanInv, Summed, Referenced, Compared
  <2>5. packet.buffer = Cut(Append(input, CHAR_NUL))
    BY <1>1, <2>2, <2>3 DEF ScanInv, BufferHoldsInput
  <2>6. Cut(Append(input, CHAR_NUL)) = Append(input, CHAR_NUL)
    <3>1. CHAR_NUL \in Char
      BY DEF CHAR_NUL, Char
    <3>2. Cut(input) = input
      BY <2>1, SubSeqFull DEF Cut
    <3> QED BY <2>1, <3>1, <3>2, CutAppend
  <2> QED BY <2>4, <2>5, <2>6
<1> QED BY <1>1, ScanInvariant, PTL
-----------------------------------------------------------------------------
(* The link to the items: arrays of items of any length.                   *)

Names == DOMAIN ItemOf

Spelled == [name \in Names |-> Characters[name]]

(* The characters of the first k items. *)
BeforeOf(names, k) == FlattenMap(Spelled, SubSeq(names, 1, k))

SumOf(s) == SumOver(s, CountedPositions(s))

EndsInStop(s) == s # <<>> /\ s[Len(s)] = CHAR_STOP

(* What the reader knows of two texts read so far is the same. *)
Alike(s, t) ==
    /\ EndsInStop(s) <=> EndsInStop(t)
    /\ UpperDigit(s, Len(s)) <=> UpperDigit(t, Len(t))
    /\ t # <<>> => s # <<>> /\ s[Len(s)] = t[Len(t)]

LEMMA ItemFacts ==
    ASSUME NEW name \in Names
    PROVE  /\ Characters[name] \in Seq(Alphabet) /\ Characters[name] \in Seq(Char)
           /\ Characters[name] # <<>> /\ Len(Characters[name]) \in Nat \ {0}
           /\ Spelled[name] = Characters[name]
           /\ ItemFits(name) /\ TextFits(name)
           /\ ItemOf[name].sum = SumOf(Characters[name])
           /\ ItemOf[name].sum \in Nat
<1> DEFINE c == Characters[name]
<1>1. ItemFits(name) /\ TextFits(name)
  BY ItemReaderAssumption DEF Names
<1>2. c \in Seq(Alphabet) /\ c # <<>> /\ ItemOf[name].sum = SumOf(c)
  BY <1>1 DEF ItemFits, SumOf
<1>3. Spelled[name] = c
  BY DEF Spelled
<1> HIDE DEF c
<1>4. c \in Seq(Char)
  BY <1>2, ReaderAssumption
<1>5. Len(c) \in Nat \ {0}
  BY <1>2, LenProperties, EmptySeq
<1>6. SumOf(c) \in Nat
  <2>1. Total(c, CountedPositions(c)) \in Int
    BY <1>4, CountedFinite
  <2>2. SumOf(c) \in Char
    BY <2>1, U8Range DEF SumOf, SumOver, Total
  <2> QED BY <2>2 DEF Char
<1> QED BY <1>1, <1>2, <1>3, <1>4, <1>5, <1>6 DEF c

LEMMA SpelledMaps == MapsInto(Spelled, Names, Char)
BY ItemFacts DEF MapsInto, Spelled

(* One item more. *)
LEMMA BeforeNext ==
    ASSUME NEW names \in Seq(Names), NEW k \in 1..Len(names)
    PROVE  /\ BeforeOf(names, k - 1) \in Seq(Char)
           /\ BeforeOf(names, k) = BeforeOf(names, k - 1) \o Characters[names[k]]
<1> DEFINE s == SubSeq(names, 1, k - 1)
<1>1. /\ k \in Nat \ {0} /\ Len(names) \in Nat
      /\ names[k] \in Names /\ \A i \in 1..Len(names) : names[i] \in Names
  BY LenProperties, ElementOfSeq
<1>2. s \in Seq(Names)
  <2>1. 1 \in Int /\ k - 1 \in Int /\ \A i \in 1..(k - 1) : names[i] \in Names
    BY <1>1
  <2> QED BY <2>1, SubSeqProperties
<1>3. SubSeq(names, 1, k) = Append(s, names[k])
  <2>1. 1 \in 1..Len(names) /\ k \in 1..Len(names)
    BY <1>1
  <2>2. SubSeq(names, 1, k) = s \o <<names[k]>>
    BY <2>1, SubSeqRecursiveSecond
  <2> HIDE DEF s
  <2> QED BY <1>1, <1>2, <2>2, AppendIsConcat
<1>4. Spelled[names[k]] = Characters[names[k]]
  BY <1>1, ItemFacts
<1> DEFINE e == names[k]
<1>5. e \in Names
  BY <1>1
<1> HIDE DEF s, e
<1>6. FlattenMap(Spelled, s) \in Seq(Char)
  BY <1>2, SpelledMaps, FlattenMapType
<1>7. FlattenMap(Spelled, Append(s, e)) = FlattenMap(Spelled, s) \o Spelled[e]
  BY <1>2, <1>5, SpelledMaps, FlattenMapAppend
<1> QED BY <1>3, <1>4, <1>6, <1>7, Zenon DEF BeforeOf, s, e

LEMMA BeforeNone ==
    ASSUME NEW names \in Seq(Names)
    PROVE  BeforeOf(names, 0) = <<>>
<1>1. SubSeq(names, 1, 0) = <<>>
  BY SubSeqEmpty
<1> QED BY <1>1, FlattenMapEmpty DEF BeforeOf

LEMMA BeforeIsCharacters ==
    ASSUME NEW names \in Seq(Names), NEW k \in 0..Len(names)
    PROVE  CharactersOf(SubSeq(names, 1, k)) = BeforeOf(names, k)
<1> DEFINE s == SubSeq(names, 1, k)
<1>1. s \in Seq(Names)
  <2>1. 1 \in Int /\ k \in Int /\ \A i \in 1..k : names[i] \in Names
    BY LenProperties, ElementOfSeq
  <2> QED BY <2>1, SubSeqProperties
<1> HIDE DEF s
<1>2. \A i \in DOMAIN s : s[i] \in Names
  BY <1>1, ElementOfSeq, LenProperties
<1>3. [i \in DOMAIN s |-> Characters[s[i]]] = [i \in DOMAIN s |-> Spelled[s[i]]]
  BY <1>2 DEF Spelled
<1> QED BY <1>3, Zenon DEF CharactersOf, BeforeOf, FlattenMap, Mapped, s

(* One character more of a text. *)
LEMMA PartNext ==
    ASSUME NEW c \in Seq(Char), NEW k \in Nat, k < Len(c)
    PROVE  /\ SubSeq(c, 1, k) \in Seq(Char) /\ Len(SubSeq(c, 1, k)) = k
           /\ \A i \in 1..k : SubSeq(c, 1, k)[i] = c[i]
           /\ Append(SubSeq(c, 1, k), c[k + 1]) = SubSeq(c, 1, k + 1)
           /\ k + 1 = Len(c) => Append(SubSeq(c, 1, k), c[k + 1]) = c
           /\ c[k + 1] \in Char
<1> DEFINE s == SubSeq(c, 1, k)
<1>1. Len(c) \in Nat /\ \A i \in 1..Len(c) : c[i] \in Char
  BY LenProperties, ElementOfSeq
<1>2. s \in Seq(Char) /\ Len(s) = k /\ \A i \in 1..k : s[i] = c[i]
  <2>1. 1 \in Int /\ k \in Int /\ \A i \in 1..k : c[i] \in Char
    BY <1>1
  <2>2. /\ s \in Seq(Char) /\ Len(s) = IF 1 <= k THEN k - 1 + 1 ELSE 0
        /\ \A i \in 1..(k - 1 + 1) : s[i] = c[1 + i - 1]
    BY <2>1, SubSeqProperties
  <2> HIDE DEF s
  <2>3. \A i \in 1..k : s[i] = c[i]
    BY <2>2
  <2> QED BY <2>2, <2>3
<1>3. c[k + 1] \in Char /\ 1 \in 1..Len(c) /\ k + 1 \in 1..Len(c) /\ (k + 1) - 1 = k
  BY <1>1
<1>4. SubSeq(c, 1, k + 1) = s \o <<c[k + 1]>>
  BY <1>3, SubSeqRecursiveSecond
<1> HIDE DEF s
<1>5. Append(s, c[k + 1]) = s \o <<c[k + 1]>>
  BY <1>2, <1>3, AppendIsConcat
<1>6. SubSeq(c, 1, Len(c)) = c
  BY SubSeqFull
<1> QED BY <1>2, <1>3, <1>4, <1>5, <1>6 DEF s

(* What one character does to two texts that are alike. *)
LEMMA AlikeAppend ==
    ASSUME NEW s \in Seq(Char), NEW t \in Seq(Char), NEW c \in Char, Alike(s, t)
    PROVE  LET s1 == Append(s, c)
               t1 == Append(t, c)
           IN  /\ Alike(s1, t1)
               /\ LowerDigit(s1, Len(s1)) <=> LowerDigit(t1, Len(t1))
               /\ LowerDigit(s1, Len(s1)) => DigitsOf(s1) = DigitsOf(t1)
               /\ \A b \in Nat : SumOf(s) = U8(b + SumOf(t)) => SumOf(s1) = U8(b + SumOf(t1))
<1> DEFINE s1 == Append(s, c)
           t1 == Append(t, c)
           m  == Len(s)
           n  == Len(t)
<1>1. /\ s1 \in Seq(Char) /\ Len(s1) = m + 1 /\ m \in Nat /\ s1 # <<>>
      /\ \A i \in 1..m : s1[i] = s[i]
      /\ s1[m + 1] = c
      /\ UpperDigit(s1, m + 1) <=> s # <<>> /\ s[m] = CHAR_STOP /\ ~Delimiter(c)
      /\ LowerDigit(s1, m + 1) <=> UpperDigit(s, m) /\ ~Delimiter(c)
  BY DigitsOfAppend
<1>2. /\ t1 \in Seq(Char) /\ Len(t1) = n + 1 /\ n \in Nat /\ t1 # <<>>
      /\ \A i \in 1..n : t1[i] = t[i]
      /\ t1[n + 1] = c
      /\ UpperDigit(t1, n + 1) <=> t # <<>> /\ t[n] = CHAR_STOP /\ ~Delimiter(c)
      /\ LowerDigit(t1, n + 1) <=> UpperDigit(t, n) /\ ~Delimiter(c)
  BY DigitsOfAppend
<1>3. /\ SumOf(s1) = IF ~Delimiter(c) /\ ~UpperDigit(s1, m + 1) /\ ~LowerDigit(s1, m + 1)
                     THEN U8(SumOf(s) + c) ELSE SumOf(s)
      /\ SumOf(t1) = IF ~Delimiter(c) /\ ~UpperDigit(t1, n + 1) /\ ~LowerDigit(t1, n + 1)
                     THEN U8(SumOf(t) + c) ELSE SumOf(t)
  BY SumOfAppend DEF SumOf
<1>4. SumOf(s) \in Nat /\ SumOf(t) \in Nat /\ c \in Nat
  <2>1. ASSUME NEW u \in Seq(Char) PROVE SumOf(u) \in Char
    <3>1. Total(u, CountedPositions(u)) \in Int
      BY CountedFinite
    <3> QED BY <3>1, U8Range DEF SumOf, SumOver, Total
  <2>2. Char \subseteq Nat
    BY DEF Char
  <2> QED BY <2>1, <2>2
<1>5. UpperDigit(s, m) => m > 1 /\ s # <<>>
  BY DEF UpperDigit
<1>6. UpperDigit(t, n) => n > 1 /\ t # <<>>
  <2>1. UpperDigit(t, n) => n > 1
    BY DEF UpperDigit
  <2>2. t = <<>> => n = 0
    BY EmptySeq
  <2> QED BY <2>1, <2>2
<1>7. \A a, b, x \in Nat : U8(U8(b + a) + x) = U8(b + U8(a + x))
  BY DEF U8
<1> HIDE DEF s1, t1, m, n
<1>8. /\ EndsInStop(s1) <=> EndsInStop(t1)
      /\ UpperDigit(s1, Len(s1)) <=> UpperDigit(t1, Len(t1))
      /\ LowerDigit(s1, Len(s1)) <=> LowerDigit(t1, Len(t1))
  BY <1>1, <1>2 DEF Alike, EndsInStop, m, n
<1>9. Alike(s1, t1)
  BY <1>1, <1>2, <1>8 DEF Alike
<1>10. ASSUME LowerDigit(s1, Len(s1)) PROVE DigitsOf(s1) = DigitsOf(t1)
  <2>1. UpperDigit(t, n) /\ UpperDigit(s, m)
    BY <1>1, <1>2, <1>8, <1>10
  <2>2. s[m] = t[n] /\ m \in 1..m /\ n \in 1..n
    BY <1>1, <1>2, <1>5, <1>6, <2>1 DEF Alike, m, n
  <2>3. s1[m] = t1[n]
    BY <1>1, <1>2, <2>2
  <2> QED BY <1>1, <1>2, <2>3 DEF DigitsOf
<1>11. ASSUME NEW b \in Nat, SumOf(s) = U8(b + SumOf(t)) PROVE SumOf(s1) = U8(b + SumOf(t1))
  <2>1. (/\ ~Delimiter(c) /\ ~UpperDigit(s1, m + 1) /\ ~LowerDigit(s1, m + 1)) <=>
        (/\ ~Delimiter(c) /\ ~UpperDigit(t1, n + 1) /\ ~LowerDigit(t1, n + 1))
    BY <1>1, <1>2, <1>8
  <2>2. U8(SumOf(s) + c) = U8(b + U8(SumOf(t) + c))
    BY <1>4, <1>7, <1>11
  <2> QED BY <1>3, <1>11, <2>1, <2>2, Zenon
<1> QED BY <1>8, <1>9, <1>10, <1>11 DEF s1, t1

(* What the first k items add to the checksum. *)
ItemSum(names, k) == Total(Sums(ItemsOf(names)), 1..k)

LEMMA ItemSumNext ==
    ASSUME NEW names \in Seq(Names), NEW k \in 0..Len(names)
    PROVE  /\ ItemSum(names, k) \in Nat
           /\ k > 0 => ItemSum(names, k) = ItemSum(names, k - 1) + ItemOf[names[k]].sum
<1> DEFINE f == Sums(ItemsOf(names))
<1>1. Len(names) \in Nat /\ DOMAIN names = 1..Len(names)
  BY LenProperties
<1>2. \A i \in 1..Len(names) : f[i] = ItemOf[names[i]].sum /\ f[i] \in Nat
  <2>1. \A i \in 1..Len(names) : f[i] = ItemOf[names[i]].sum
    BY <1>1 DEF Sums, ItemsOf
  <2>2. \A i \in 1..Len(names) : ItemOf[names[i]].sum \in Nat
    <3>1. \A i \in 1..Len(names) : names[i] \in Names
      BY ElementOfSeq
    <3> QED BY <3>1, ItemFacts
  <2> QED BY <2>1, <2>2
<1> HIDE DEF f
<1>3. ItemSum(names, k) = Total(f, 1..k) /\ ItemSum(names, k - 1) = Total(f, 1..(k - 1))
  BY DEF ItemSum, f
<1>4. Total(f, 1..k) \in Nat
  <2>1. IsFiniteSet(1..k)
    BY FS_Interval
  <2>2. \A i \in 1..k : f[i] \in Nat
    BY <1>1, <1>2
  <2> QED BY <2>1, <2>2, TotalType
<1>5. ASSUME k > 0 PROVE Total(f, 1..k) = Total(f, 1..(k - 1)) + f[k]
  <2> DEFINE n == k - 1
  <2>1. n \in Nat /\ n + 1 = k /\ \A i \in 1..(n + 1) : f[i] \in Nat
    BY <1>1, <1>2, <1>5
  <2> HIDE DEF n
  <2>2. Total(f, 1..(n + 1)) = Total(f, 1..n) + f[n + 1]
    BY <2>1, TotalNext
  <2> QED BY <2>1, <2>2 DEF n
<1>6. k > 0 => f[k] = ItemOf[names[k]].sum
  BY <1>1, <1>2
<1> QED BY <1>3, <1>4, <1>5, <1>6

(* Where in the array the call is. *)
Place ==
    /\ data \in Seq(Names) /\ Len(data) \in Nat \ {0}
    /\ item \in 1..(Len(data) + 1) /\ offset \in Nat
    /\ IF ItemLeft THEN offset < Len(Current) ELSE offset = 0
    /\ pc = "idle" => item = 1 /\ offset = 0

LEMMA PlaceFacts ==
    ASSUME Place, ItemLeft
    PROVE  /\ item \in 1..Len(data) /\ data[item] \in Names
           /\ Current \in Seq(Alphabet) /\ Current \in Seq(Char)
           /\ Len(Current) \in Nat \ {0}
           /\ Current[offset + 1] \in Alphabet /\ Current[offset + 1] \in Char
<1>1. item \in 1..Len(data) /\ data \in Seq(Names) /\ offset \in Nat /\ offset < Len(Current)
  BY DEF Place, ItemLeft
<1>2. data[item] \in Names
  BY <1>1, ElementOfSeq
<1>3. /\ Current \in Seq(Alphabet) /\ Current \in Seq(Char)
      /\ Len(Current) \in Nat \ {0}
  BY <1>2, ItemFacts DEF Current
<1>4. offset + 1 \in 1..Len(Current)
  BY <1>1, <1>3
<1> QED BY <1>1, <1>2, <1>3, <1>4, ElementOfSeq

LEMMA PlaceInvariant == ItemSpec => []Place
<1>1. ItemInit => Place
  <2> SUFFICES ASSUME ItemInit PROVE Place
    OBVIOUS
  <2>1. PICK n \in 1..MaxItems : data \in [1..n -> Names]
    BY DEF ItemInit, Arrays, Names
  <2>2. n \in Nat \ {0}
    BY <2>1, ItemReaderAssumption
  <2>3. data \in Seq(Names) /\ Len(data) = n
    BY <2>1, <2>2
  <2>4. item = 1 /\ offset = 0 /\ item \in 1..Len(data)
    BY <2>2, <2>3 DEF ItemInit
  <2>5. Len(Current) \in Nat \ {0}
    <3>1. data[item] \in Names
      BY <2>3, <2>4, ElementOfSeq
    <3> QED BY <3>1, ItemFacts DEF Current
  <2> QED BY <2>2, <2>3, <2>4, <2>5 DEF Place, ItemLeft
<1>2. Place /\ [ItemNext]_itemVars => Place'
  <2> SUFFICES ASSUME Place, [ItemNext]_itemVars PROVE Place'
    OBVIOUS
  <2>1. CASE ReadItem
    <3>1. /\ ItemLeft /\ data' = data /\ pc' # "idle"
          /\ IF offset + 1 = Len(Current) THEN item' = item + 1 /\ offset' = 0
             ELSE offset' = offset + 1 /\ item' = item
      BY <2>1 DEF ReadItem, Read
    <3>2. item \in 1..Len(data) /\ Len(Current) \in Nat \ {0} /\ offset < Len(Current)
      BY <3>1, PlaceFacts DEF Place
    <3>3. CASE offset + 1 = Len(Current)
      <4>1. item' \in 1..(Len(data) + 1) /\ offset' = 0
        BY <3>1, <3>2, <3>3 DEF Place
      <4>2. ItemLeft' => Len(Current)' \in Nat \ {0}
        <5> SUFFICES ASSUME ItemLeft' PROVE Len(Characters[data[item']]) \in Nat \ {0}
          BY <3>1 DEF Current
        <5>1. item' \in 1..Len(data)
          BY <3>1, <4>1 DEF ItemLeft, Place
        <5>2. data[item'] \in Names
          BY <5>1, ElementOfSeq DEF Place
        <5> QED BY <5>2, ItemFacts
      <4> QED BY <3>1, <4>1, <4>2 DEF Place
    <3>4. CASE offset + 1 # Len(Current)
      <4>1. Current' = Current /\ ItemLeft'
        BY <3>1, <3>4 DEF Current, ItemLeft
      <4> QED BY <3>1, <3>2, <3>4, <4>1 DEF Place
    <3> QED BY <3>3, <3>4
  <2>2. CASE \/ CallWithItems \/ ReadItemHalts \/ EndOfItems \/ UNCHANGED itemVars
    <3>1. UNCHANGED <<data, item, offset>> /\ (pc' = "idle" => pc = "idle")
      BY <2>2 DEF CallWithItems, Call, ReadItemHalts, ReadHalts, EndOfItems, EndOfInput,
                  itemVars, vars
    <3> QED BY <3>1 DEF Place, ItemLeft, Current
  <2> QED BY <2>1, <2>2 DEF ItemNext
<1> QED BY <1>1, <1>2, PTL DEF ItemSpec

(* The call on an array of items is a call of PacketReader. *)
LEMMA ItemReaderReads == ItemSpec => Spec
<1>1. ItemInit => Init
  BY DEF ItemInit
<1>2. Place /\ [ItemNext]_itemVars => [Next]_vars
  <2> SUFFICES ASSUME Place, [ItemNext]_itemVars PROVE [Next]_vars
    OBVIOUS
  <2>1. CASE CallWithItems
    BY <2>1 DEF CallWithItems, Next
  <2>2. CASE ReadItem
    BY <2>2, PlaceFacts DEF ReadItem, Next
  <2>3. CASE ReadItemHalts
    BY <2>3, PlaceFacts DEF ReadItemHalts, Next
  <2>4. CASE EndOfItems
    BY <2>4 DEF EndOfItems, Next
  <2>5. CASE UNCHANGED itemVars
    BY <2>5 DEF itemVars
  <2> QED BY <2>1, <2>2, <2>3, <2>4, <2>5 DEF ItemNext
<1> QED BY <1>1, <1>2, PlaceInvariant, PTL DEF ItemSpec, Spec

(* What is read of the item that is read. *)
Part == IF ItemLeft THEN SubSeq(Current, 1, offset) ELSE <<>>

AllOpen(names, k) == \A i \in 1..k : ItemOf[names[i]].ref = OpenEnd

(* The characters read are those of the items before and the part of this  *)
(* one, and so is their sum.                                               *)
Spelling ==
    /\ input = BeforeOf(data, item - 1) \o Part
    /\ SumOf(input) = U8(ItemSum(data, item - 1) + SumOf(Part))

(* The call ends behind the first item that is not open, and nowhere else. *)
Verdict ==
    /\ result = "COLLECTING" => Alike(input, Part) /\ AllOpen(data, item - 1)
    /\ result # "COLLECTING" =>
          /\ pc = "returned" /\ item > 1 /\ offset = 0 /\ Part = <<>>
          /\ AllOpen(data, item - 2)
          /\ ItemOf[data[item - 1]].ref = DigitsOf(input)
    /\ pc = "halted" =>
          result = "COLLECTING" /\ ItemLeft /\ ItemOf[data[item]].ref = BadDigits
    /\ pc = "returned" /\ result = "COLLECTING" => ~ItemLeft

LEMMA NothingYet ==
    /\ SumOf(<<>>) = 0 /\ ~EndsInStop(<<>>) /\ ~UpperDigit(<<>>, Len(<<>>))
    /\ Alike(<<>>, <<>>)
<1>1. CountedPositions(<<>>) = {}
  BY DEF CountedPositions
<1>2. Total(<<>>, {}) = 0
  BY TotalEmpty
<1>3. SumOver(<<>>, {}) = 0
  BY <1>2 DEF SumOver, Total, U8
<1>4. SumOf(<<>>) = 0
  BY <1>1, <1>3, Zenon DEF SumOf
<1> QED BY <1>4 DEF EndsInStop, UpperDigit, Alike

(* Digits are only at the end of an item that closes a frame. *)
LEMMA ItemEnds ==
    ASSUME NEW name \in Names, NEW k \in 1..Len(Characters[name])
    PROVE  LET c == Characters[name]
               t == SubSeq(c, 1, k)
           IN  /\ EndsInStop(t) => k < Len(c)
               /\ UpperDigit(t, Len(t)) => k < Len(c)
               /\ LowerDigit(t, Len(t)) => k = Len(c)
               /\ LowerDigit(t, Len(t)) <=> LowerDigit(c, k)
<1> DEFINE c == Characters[name]
           t == SubSeq(c, 1, k)
<1>1. /\ c \in Seq(Char) /\ Len(c) \in Nat
      /\ \A i \in 1..Len(c) : c[i] = CHAR_STOP => i = Len(c) - 2
  <2>1. c \in Seq(Char) /\ Len(c) \in Nat /\ DOMAIN c = 1..Len(c)
    BY ItemFacts, LenProperties
  <2>2. \A i \in DOMAIN c : c[i] = CHAR_STOP => i = Len(c) - 2
    BY ItemFacts, Zenon DEF ItemFits
  <2> HIDE DEF c
  <2> QED BY <2>1, <2>2
<1>2. k \in Nat \ {0} /\ k <= Len(c)
  BY <1>1
<1>3. Len(t) = k /\ \A i \in 1..k : t[i] = c[i]
  <2>1. CASE k < Len(c)
    BY <1>1, <1>2, <2>1, PartNext
  <2>2. CASE k = Len(c)
    BY <1>1, <2>2, SubSeqFull
  <2> QED BY <1>2, <2>1, <2>2
<1> HIDE DEF c, t
<1>4. \A i \in 1..k : c[i] = CHAR_STOP => i = Len(c) - 2
  BY <1>1, <1>2
<1>5. /\ EndsInStop(t) => k = Len(c) - 2
      /\ UpperDigit(t, k) => k - 1 = Len(c) - 2
      /\ LowerDigit(t, k) => k - 2 = Len(c) - 2
  <2>1. EndsInStop(t) => k = Len(c) - 2
    BY <1>1, <1>2, <1>3, <1>4 DEF EndsInStop
  <2>2. UpperDigit(t, k) => k - 1 = Len(c) - 2
    <3>1. k > 1 => k - 1 \in 1..k
      BY <1>2
    <3> QED BY <1>3, <1>4, <3>1 DEF UpperDigit
  <2>3. LowerDigit(t, k) => k - 2 = Len(c) - 2
    <3>1. k > 2 => k - 1 \in 1..k /\ k - 2 \in 1..k /\ (k - 1) - 1 = k - 2
      BY <1>2
    <3> QED BY <1>3, <1>4, <3>1 DEF LowerDigit, UpperDigit
  <2> QED BY <2>1, <2>2, <2>3
<1>6. LowerDigit(t, k) <=> LowerDigit(c, k)
  BY <1>2, <1>3 DEF LowerDigit, UpperDigit
<1> QED BY <1>1, <1>2, <1>3, <1>5, <1>6 DEF c, t

LEMMA AppendBehind ==
    ASSUME NEW a \in Seq(Char), NEW b \in Seq(Char), NEW c \in Char
    PROVE  Append(a \o b, c) = a \o Append(b, c)
<1>1. a \o b \in Seq(Char) /\ <<c>> \in Seq(Char)
  BY ConcatProperties
<1>2. Append(a \o b, c) = (a \o b) \o <<c>> /\ Append(b, c) = b \o <<c>>
  BY <1>1, AppendIsConcat
<1>3. (a \o b) \o <<c>> = a \o (b \o <<c>>)
  BY <1>1, ConcatAssociative
<1> QED BY <1>2, <1>3

(* The facts of one step over a character c of an item. *)
LEMMA ReadItemFacts ==
    ASSUME Place, ReaderInv, ScanInv, Spelling, Verdict, ReadItem, TypeOK', ScanInv'
    PROVE  LET c    == Current[offset + 1]
               read == SubSeq(Current, 1, offset + 1)
           IN  /\ result = "COLLECTING" /\ pc' \in {"reading", "returned"}
               /\ result' # "COLLECTING" <=> pc' = "returned"
               /\ result' # "COLLECTING" <=> LowerDigit(input', Len(input'))
               /\ Part \in Seq(Char) /\ Append(Part, c) = read
               /\ input' = Append(input, c)
               /\ input' = BeforeOf(data, item - 1) \o read
               /\ BeforeOf(data, item - 1) \in Seq(Char)
               /\ Alike(input', read)
               /\ LowerDigit(input', Len(input')) <=> LowerDigit(read, Len(read))
               /\ LowerDigit(read, Len(read)) => DigitsOf(input') = DigitsOf(read)
               /\ SumOf(input') = U8(ItemSum(data, item - 1) + SumOf(read))
<1> DEFINE c    == Current[offset + 1]
           read == SubSeq(Current, 1, offset + 1)
           B    == BeforeOf(data, item - 1)
           P    == Part
<1>1. /\ ItemLeft /\ pc = "reading" /\ input' = Append(input, c)
      /\ pc' = IF result' \in {"OK", "CHECKSUM_ERROR"} THEN "returned" ELSE "reading"
  BY DEF ReadItem, Read
<1>2. /\ item \in 1..Len(data) /\ Current \in Seq(Char) /\ Len(Current) \in Nat \ {0}
      /\ c \in Char /\ data \in Seq(Names) /\ offset \in Nat /\ offset < Len(Current)
  BY <1>1, PlaceFacts DEF Place
<1>3. P = SubSeq(Current, 1, offset)
  BY <1>1 DEF Part
<1>4. P \in Seq(Char) /\ Append(P, c) = read
  BY <1>2, <1>3, PartNext
<1>5. B \in Seq(Char)
  BY <1>2, BeforeNext
<1>6. input \in Seq(Char)
  <2>1. input \in Seq(Alphabet) /\ Alphabet \subseteq Char
    BY ReaderAssumption DEF ReaderInv, TypeOK
  <2> QED BY <2>1
<1>7. result = "COLLECTING"
  BY <1>1 DEF ReaderInv, BufferWithinInput
<1>8. Alike(input, P) /\ input = B \o P /\ SumOf(input) = U8(ItemSum(data, item - 1) + SumOf(P))
  BY <1>7 DEF Verdict, Spelling
<1>9. ItemSum(data, item - 1) \in Nat
  <2> DEFINE k == item - 1
  <2>1. k \in 0..Len(data)
    BY <1>2, LenProperties
  <2> HIDE DEF k
  <2>2. ItemSum(data, k) \in Nat
    BY <1>2, <2>1, ItemSumNext
  <2> QED BY <2>2 DEF k
<1>10. /\ result' # "COLLECTING" <=> pc' = "returned"
       /\ pc' \in {"reading", "returned"}
       /\ result' # "COLLECTING" <=> LowerDigit(input', Len(input'))
  BY <1>1 DEF TypeOK, Results, ScanInv, Scanned
<1> HIDE DEF c, read, B, P
<1>11. Append(B \o P, c) = B \o Append(P, c)
  BY <1>2, <1>4, <1>5, AppendBehind
<1>12. /\ Alike(Append(input, c), Append(P, c))
       /\ LowerDigit(Append(input, c), Len(Append(input, c))) <=>
             LowerDigit(Append(P, c), Len(Append(P, c)))
       /\ LowerDigit(Append(input, c), Len(Append(input, c))) =>
             DigitsOf(Append(input, c)) = DigitsOf(Append(P, c))
       /\ \A b \in Nat : SumOf(input) = U8(b + SumOf(P)) =>
             SumOf(Append(input, c)) = U8(b + SumOf(Append(P, c)))
  BY <1>2, <1>4, <1>6, <1>8, AlikeAppend
<1>13. SumOf(Append(input, c)) = U8(ItemSum(data, item - 1) + SumOf(Append(P, c)))
  BY <1>8, <1>9, <1>12
<1>14. input' = B \o read
  BY <1>1, <1>4, <1>8, <1>11
<1>15. /\ Alike(input', read)
       /\ LowerDigit(input', Len(input')) <=> LowerDigit(read, Len(read))
       /\ LowerDigit(read, Len(read)) => DigitsOf(input') = DigitsOf(read)
       /\ SumOf(input') = U8(ItemSum(data, item - 1) + SumOf(read))
  BY <1>1, <1>4, <1>12, <1>13
<1> QED BY <1>1, <1>4, <1>5, <1>7, <1>10, <1>14, <1>15 DEF c, read, B, P

ItemInv == Place /\ Spelling /\ Verdict

LEMMA ReadWithinItem ==
    ASSUME Place, ReaderInv, ScanInv, Spelling, Verdict, ReadItem, TypeOK', ScanInv', Place',
           offset + 1 # Len(Current)
    PROVE  Spelling' /\ Verdict'
<1> DEFINE read == SubSeq(Current, 1, offset + 1)
<1>1. ItemLeft /\ data' = data /\ item' = item /\ offset' = offset + 1
  BY DEF ReadItem
<1>2. Part' = read /\ ItemLeft'
  BY <1>1 DEF Part, ItemLeft, Current
<1>3. /\ result = "COLLECTING" /\ pc' \in {"reading", "returned"}
      /\ result' # "COLLECTING" <=> pc' = "returned"
      /\ result' # "COLLECTING" <=> LowerDigit(input', Len(input'))
      /\ input' = BeforeOf(data, item - 1) \o read
      /\ Alike(input', read)
      /\ LowerDigit(input', Len(input')) <=> LowerDigit(read, Len(read))
      /\ SumOf(input') = U8(ItemSum(data, item - 1) + SumOf(read))
  BY ReadItemFacts
<1>4. ~LowerDigit(read, Len(read))
  <2> DEFINE k == offset + 1
             name == data[item]
  <2>1. name \in Names /\ k \in 1..Len(Characters[name]) /\ k # Len(Characters[name])
    BY <1>1, PlaceFacts DEF Place, Current
  <2> HIDE DEF k, name
  <2>2. LowerDigit(SubSeq(Characters[name], 1, k), Len(SubSeq(Characters[name], 1, k))) =>
            k = Len(Characters[name])
    BY <2>1, ItemEnds
  <2> QED BY <2>1, <2>2 DEF k, name, Current
<1> HIDE DEF read
<1>5. Spelling'
  BY <1>1, <1>2, <1>3 DEF Spelling
<1>6. AllOpen(data, item - 1)
  BY <1>3 DEF Verdict
<1>7. Verdict'
  BY <1>1, <1>2, <1>3, <1>4, <1>6 DEF Verdict
<1> QED BY <1>5, <1>7

(* What an item that is read whole says of the digits that end it.         *)
LEMMA WholeItem ==
    ASSUME Place, ReaderInv, ScanInv, Spelling, Verdict, ReadItem,
           offset + 1 = Len(Current)
    PROVE  ItemOf[data[item]].ref = IF LowerDigit(Current, Len(Current)) THEN DigitsOf(Current)
                                    ELSE OpenEnd
<1> DEFINE name == data[item]
           n == Len(Current)
           c == Current[n]
<1>1. /\ name \in Names /\ n \in Nat \ {0} /\ Current \in Seq(Char) /\ Current[offset + 1] = c
      /\ ItemLeft /\ offset \in Nat /\ offset < n /\ offset + 1 = n
  BY PlaceFacts DEF Place, ReadItem
<1>2. ItemOf[name].ref =
          IF ~LowerDigit(Current, n) THEN OpenEnd
          ELSE IF IsHexNibble(Current[n - 1]) /\ IsHexNibble(Current[n]) THEN DigitsOf(Current)
          ELSE BadDigits
  <2>1. ItemFits(name)
    BY <1>1, ItemFacts
  <2> QED BY <2>1, Zenon DEF ItemFits, Current
<1>3. ASSUME LowerDigit(Current, n)
      PROVE  IsHexNibble(Current[n - 1]) /\ IsHexNibble(Current[n])
  <2>1. /\ Part = SubSeq(Current, 1, offset) /\ Len(Part) = offset
        /\ \A i \in 1..offset : Part[i] = Current[i]
    BY <1>1, PartNext DEF Part
  <2>2. UpperDigit(Current, n - 1) /\ n > 2 /\ ~Delimiter(c)
    BY <1>3 DEF LowerDigit
  <2>3. n - 1 = offset /\ offset \in 1..offset /\ offset > 1 /\ offset - 1 \in 1..offset
    BY <1>1, <2>2
  <2>4. UpperDigit(Part, Len(Part)) /\ Part # <<>> /\ Part[Len(Part)] = Current[n - 1]
    BY <2>1, <2>2, <2>3 DEF UpperDigit
  <2>5. result = "COLLECTING" /\ ~HaltsOn(packet, c)
    BY <1>1 DEF ReadItem, Read, ReaderInv, BufferWithinInput
  <2>6. Alike(input, Part)
    BY <2>5 DEF Verdict
  <2>7. UpperDigit(input, Len(input)) /\ input[Len(input)] = Current[n - 1]
    BY <2>4, <2>6 DEF Alike
  <2>8. packet.state = "CHECKSUM_LOWER"
    BY <2>7 DEF ScanInv, Scanned
  <2>9. IsHexNibble(Current[n - 1])
    <3>1. char_from_hex_nibble(Current[n - 1]) \in 0..15
      BY <2>7, <2>8 DEF ScanInv, Referenced
    <3> QED BY <3>1 DEF IsHexNibble
  <2>10. IsHexNibble(c)
    BY <2>2, <2>5, <2>8 DEF HaltsOn, Delimiter
  <2> QED BY <2>9, <2>10
<1> QED BY <1>2, <1>3

LEMMA ReadToEndOfItem ==
    ASSUME Place, ReaderInv, ScanInv, Spelling, Verdict, ReadItem, TypeOK', ScanInv', Place',
           offset + 1 = Len(Current)
    PROVE  Spelling' /\ Verdict'
<1> DEFINE c == Current
           B == BeforeOf(data, item - 1)
<1>1. ItemLeft /\ data' = data /\ item' = item + 1 /\ offset' = 0
  BY DEF ReadItem
<1>2. /\ item \in 1..Len(data) /\ item \in Nat /\ data[item] \in Names /\ data \in Seq(Names)
      /\ c \in Seq(Char) /\ Len(c) \in Nat \ {0} /\ c = Characters[data[item]]
      /\ SubSeq(c, 1, Len(c)) = c
  BY <1>1, PlaceFacts, SubSeqFull DEF Place, Current
<1>3. Part' = <<>>
  <2>1. ASSUME ItemLeft' PROVE SubSeq(Characters[data[item']], 1, 0) = <<>>
    BY SubSeqEmpty
  <2> QED BY <1>1, <2>1 DEF Part, Current
<1>4. /\ result = "COLLECTING" /\ pc' \in {"reading", "returned"}
      /\ result' # "COLLECTING" <=> pc' = "returned"
      /\ result' # "COLLECTING" <=> LowerDigit(input', Len(input'))
      /\ input' = B \o c
      /\ Alike(input', c)
      /\ LowerDigit(input', Len(input')) <=> LowerDigit(c, Len(c))
      /\ LowerDigit(c, Len(c)) => DigitsOf(input') = DigitsOf(c)
      /\ SumOf(input') = U8(ItemSum(data, item - 1) + SumOf(c))
      /\ B \in Seq(Char)
  <2>1. SubSeq(Current, 1, offset + 1) = c
    BY <1>2
  <2> QED BY <2>1, ReadItemFacts
<1>5. /\ BeforeOf(data, item) = B \o c
      /\ ItemSum(data, item) = ItemSum(data, item - 1) + SumOf(c) /\ ItemSum(data, item) \in Nat
  <2> DEFINE k == item
  <2>1. k \in 1..Len(data) /\ k \in 0..Len(data) /\ k > 0
    BY <1>2, LenProperties
  <2>2. ItemOf[data[k]].sum = SumOf(c)
    BY <1>2, ItemFacts
  <2> HIDE DEF k
  <2>3. /\ BeforeOf(data, k) = BeforeOf(data, k - 1) \o Characters[data[k]]
        /\ ItemSum(data, k) = ItemSum(data, k - 1) + ItemOf[data[k]].sum
        /\ ItemSum(data, k) \in Nat
    BY <1>2, <2>1, BeforeNext, ItemSumNext
  <2> QED BY <1>2, <2>2, <2>3 DEF k
<1>6. ItemOf[data[item]].ref = IF LowerDigit(c, Len(c)) THEN DigitsOf(c) ELSE OpenEnd
  BY WholeItem
<1>7. ~EndsInStop(c) /\ ~UpperDigit(c, Len(c))
  <2> DEFINE name == data[item]
             k == Len(c)
  <2>1. name \in Names /\ k \in 1..Len(Characters[name]) /\ SubSeq(Characters[name], 1, k) = c
    BY <1>2
  <2>2. k = Len(Characters[name]) /\ k \in Nat
    BY <1>2
  <2> HIDE DEF name, k, c
  <2> DEFINE t == SubSeq(Characters[name], 1, k)
  <2>3. /\ EndsInStop(t) => k < Len(Characters[name])
        /\ UpperDigit(t, Len(t)) => k < Len(Characters[name])
    BY <2>1, ItemEnds
  <2>4. t = c
    BY <2>1
  <2> HIDE DEF t
  <2>5. ~EndsInStop(t) /\ ~UpperDigit(t, Len(t))
    BY <2>2, <2>3
  <2> QED BY <2>4, <2>5
<1>8. AllOpen(data, item - 1)
  BY <1>4 DEF Verdict
<1> HIDE DEF c, B
<1>9. Spelling'
  <2>1. B \o c = (B \o c) \o <<>>
    <3>1. B \o c \in Seq(Char)
      BY <1>2, <1>4, ConcatProperties
    <3> QED BY <3>1, ConcatEmptySeq
  <2>2. item' - 1 = item
    BY <1>1, <1>2
  <2>3. input' = BeforeOf(data', item' - 1) \o Part'
    BY <1>1, <1>3, <1>4, <1>5, <2>1, <2>2
  <2>4. SumOf(input') = U8(ItemSum(data', item' - 1) + SumOf(Part'))
    BY <1>1, <1>3, <1>4, <1>5, <2>2, NothingYet
  <2> QED BY <2>3, <2>4 DEF Spelling
<1>10. CASE LowerDigit(c, Len(c))
  <2>1. result' # "COLLECTING" /\ pc' = "returned"
    BY <1>4, <1>10
  <2>2. item' > 1 /\ item' - 1 = item /\ item' - 2 = item - 1
    BY <1>1, <1>2
  <2>3. ItemOf[data[item]].ref = DigitsOf(input')
    BY <1>4, <1>6, <1>10
  <2> QED BY <1>1, <1>3, <1>8, <1>9, <2>1, <2>2, <2>3 DEF Verdict
<1>11. CASE ~LowerDigit(c, Len(c))
  <2>1. result' = "COLLECTING" /\ pc' = "reading"
    BY <1>4, <1>11
  <2>2. Alike(input', <<>>)
    BY <1>4, <1>7, NothingYet DEF Alike
  <2>3. AllOpen(data, item)
    <3>1. ItemOf[data[item]].ref = OpenEnd
      BY <1>6, <1>11
    <3>2. \A i \in 1..item : i = item \/ i \in 1..(item - 1)
      BY <1>2
    <3> QED BY <1>8, <3>1, <3>2 DEF AllOpen
  <2>4. item' - 1 = item
    BY <1>1, <1>2
  <2> QED BY <1>1, <1>3, <1>9, <2>1, <2>2, <2>3, <2>4 DEF Verdict
<1> QED BY <1>10, <1>11

(* The character a call halts on is a digit that the item says is bad.     *)
LEMMA HaltsInItem ==
    ASSUME Place, ReaderInv, ScanInv, Spelling, Verdict, ReadItemHalts
    PROVE  result = "COLLECTING" /\ ItemOf[data[item]].ref = BadDigits
<1> DEFINE name == data[item]
           n == Len(Current)
           c == Current[offset + 1]
<1>1. /\ name \in Names /\ n \in Nat \ {0} /\ Current \in Seq(Char)
      /\ ItemLeft /\ offset \in Nat /\ offset < n
      /\ pc = "reading" /\ HaltsOn(packet, c)
  BY PlaceFacts DEF Place, ReadItemHalts, ReadHalts
<1>2. result = "COLLECTING"
  BY <1>1 DEF ReaderInv, BufferWithinInput
<1>3. Alike(input, Part)
  BY <1>2 DEF Verdict
<1>4. /\ Part = SubSeq(Current, 1, offset) /\ Len(Part) = offset
      /\ \A i \in 1..offset : Part[i] = Current[i]
  BY <1>1, PartNext DEF Part
<1>5. /\ \A i \in 1..n : Current[i] = CHAR_STOP => LowerDigit(Current, n) /\ i = n - 2
      /\ ItemOf[name].ref =
             IF ~LowerDigit(Current, n) THEN OpenEnd
             ELSE IF IsHexNibble(Current[n - 1]) /\ IsHexNibble(Current[n]) THEN DigitsOf(Current)
             ELSE BadDigits
  <2>1. ItemFits(name)
    BY <1>1, ItemFacts
  <2>2. /\ \A i \in DOMAIN Current : Current[i] = CHAR_STOP => LowerDigit(Current, n) /\ i = n - 2
        /\ ItemOf[name].ref =
             IF ~LowerDigit(Current, n) THEN OpenEnd
             ELSE IF IsHexNibble(Current[n - 1]) /\ IsHexNibble(Current[n]) THEN DigitsOf(Current)
             ELSE BadDigits
    BY <2>1, Zenon DEF ItemFits, Current
  <2>3. DOMAIN Current = 1..n
    BY <1>1, LenProperties
  <2> QED BY <2>2, <2>3
<1>6. ~IsHexNibble(c) /\ packet.state \in {"CHECKSUM_UPPER", "CHECKSUM_LOWER"}
  BY <1>1 DEF HaltsOn
<1>7. CASE packet.state = "CHECKSUM_UPPER"
  <2>1. EndsInStop(Part)
    BY <1>3, <1>7 DEF ScanInv, Scanned, Alike, EndsInStop
  <2>2. offset # 0
    BY <1>4, <2>1, SubSeqEmpty DEF EndsInStop
  <2>3. offset \in 1..n /\ Current[offset] = CHAR_STOP
    BY <1>1, <1>4, <2>1, <2>2 DEF EndsInStop
  <2>4. LowerDigit(Current, n) /\ offset = n - 2
    BY <1>5, <2>3
  <2>5. Current[n - 1] = c
    BY <1>1, <2>4
  <2> QED BY <1>2, <1>5, <1>6, <2>4, <2>5
<1>8. CASE packet.state = "CHECKSUM_LOWER"
  <2>1. UpperDigit(Part, Len(Part))
    BY <1>3, <1>8 DEF ScanInv, Scanned, Alike
  <2>2. offset - 1 \in 1..offset /\ Part[offset - 1] = CHAR_STOP
    BY <1>1, <1>4, <2>1 DEF UpperDigit
  <2>3. offset - 1 \in 1..n /\ Current[offset - 1] = CHAR_STOP
    BY <1>1, <1>4, <2>2
  <2>4. LowerDigit(Current, n) /\ offset - 1 = n - 2
    BY <1>5, <2>3
  <2>5. Current[n] = c
    BY <1>1, <2>4
  <2> QED BY <1>2, <1>5, <1>6, <2>4, <2>5
<1> QED BY <1>6, <1>7, <1>8

LEMMA ItemInvariant == ItemSpec => [](ItemInv /\ ReaderInv /\ ScanInv)
<1>1. ASSUME ItemInit, Place PROVE Spelling /\ Verdict
  <2>1. /\ pc = "idle" /\ input = <<>> /\ result = "COLLECTING" /\ item = 1 /\ offset = 0
        /\ data \in Seq(Names)
    BY <1>1 DEF ItemInit, Init, Place
  <2>2. Part = <<>>
    BY <2>1, SubSeqEmpty DEF Part
  <2>3. BeforeOf(data, item - 1) = <<>>
    BY <2>1, BeforeNone
  <2>4. ItemSum(data, item - 1) = 0
    <3>1. 1..(item - 1) = {}
      BY <2>1
    <3> QED BY <3>1, TotalEmpty, Zenon DEF ItemSum
  <2>5. Spelling
    BY <2>1, <2>2, <2>3, <2>4, NothingYet DEF Spelling, U8
  <2>6. Verdict
    BY <2>1, <2>2, NothingYet DEF Verdict, AllOpen
  <2> QED BY <2>5, <2>6
<1>2. ASSUME ItemInv, ReaderInv, ScanInv, [ItemNext]_itemVars, TypeOK', ScanInv', Place'
      PROVE  Spelling' /\ Verdict'
  <2> USE <1>2 DEF ItemInv
  <2>1. CASE ReadItem
    BY <2>1, ReadWithinItem, ReadToEndOfItem
  <2>2. CASE ReadItemHalts
    <3>1. /\ UNCHANGED <<data, item, offset, input, packet, result>> /\ pc' = "halted"
          /\ ItemLeft /\ result = "COLLECTING" /\ ItemOf[data[item]].ref = BadDigits
      BY <2>2, HaltsInItem DEF ReadItemHalts, ReadHalts
    <3>2. Part' = Part /\ (ItemLeft' <=> ItemLeft)
      BY <3>1 DEF Part, ItemLeft, Current
    <3> QED BY <3>1, <3>2 DEF Spelling, Verdict
  <2>3. CASE EndOfItems
    <3>1. /\ UNCHANGED <<data, item, offset, input, packet, result>> /\ pc' = "returned"
          /\ ~ItemLeft /\ pc = "reading"
      BY <2>3 DEF EndOfItems, EndOfInput
    <3>2. Part' = Part /\ (ItemLeft' <=> ItemLeft)
      BY <3>1 DEF Part, ItemLeft, Current
    <3> QED BY <3>1, <3>2 DEF Spelling, Verdict
  <2>4. CASE CallWithItems
    <3>1. /\ UNCHANGED <<data, item, offset>> /\ pc' = "reading" /\ pc = "idle"
          /\ input' = <<>> /\ result' = "COLLECTING" /\ item = 1 /\ offset = 0
      BY <2>4 DEF CallWithItems, Call, Place
    <3>2. Part' = <<>> /\ Part = <<>>
      BY <3>1, SubSeqEmpty DEF Part, ItemLeft, Current
    <3>3. BeforeOf(data, item - 1) = <<>>
      BY <3>1, BeforeNone DEF Place
    <3>4. ItemSum(data, item - 1) = 0
      <4>1. 1..(item - 1) = {}
        BY <3>1
      <4> QED BY <4>1, TotalEmpty, Zenon DEF ItemSum
    <3>5. Spelling'
      BY <3>1, <3>2, <3>3, <3>4, NothingYet DEF Spelling, U8
    <3>6. Verdict'
      BY <3>1, <3>2, NothingYet DEF Verdict, AllOpen
    <3> QED BY <3>5, <3>6
  <2>5. CASE UNCHANGED itemVars
    <3>1. UNCHANGED <<data, item, offset, pc, input, packet, result>>
      BY <2>5 DEF itemVars, vars
    <3>2. Part' = Part /\ (ItemLeft' <=> ItemLeft)
      BY <3>1 DEF Part, ItemLeft, Current
    <3> QED BY <3>1, <3>2 DEF Spelling, Verdict
  <2> QED BY <2>1, <2>2, <2>3, <2>4, <2>5 DEF ItemNext
<1>3. ReaderInv => TypeOK
  BY DEF ReaderInv
<1> QED BY <1>1, <1>2, <1>3, PlaceInvariant, ItemReaderReads, ScanInvariant, PTL
        DEF ItemSpec, ItemInv

VerdictOn(ref, checksum) ==
    CASE ref = OpenEnd   -> "COLLECTING"
      [] ref = BadDigits -> "HALT"
      [] ref = checksum  -> "OK"
      [] OTHER           -> "CHECKSUM_ERROR"

LEMMA VerdictOnMarks ==
    ASSUME NEW x \in 0..255
    PROVE  VerdictOn(OpenEnd, x) = "COLLECTING" /\ VerdictOn(BadDigits, x) = "HALT"
<1>1. OpenEnd # BadDigits /\ OpenEnd # x /\ BadDigits # x
  BY DEF OpenEnd, BadDigits
<1> QED BY <1>1 DEF VerdictOn

(* StreamItems' call on items of which the first k - 1 are open.           *)
LEMMA StreamOfItems ==
    ASSUME NEW names \in Seq(Names), NEW k \in 1..Len(names), AllOpen(names, k - 1),
           ItemOf[names[k]].ref # OpenEnd \/ k = Len(names)
    PROVE  LET call == gdb_packet_read_stream(ItemsOf(names)) IN
           /\ call.consumed = k
           /\ call.text = ItemOf[names[k]].text
           /\ call.verdict = VerdictOn(ItemOf[names[k]].ref, ItemSum(names, k) % 256)
           /\ ItemSum(names, k) % 256 \in 0..255
<1> DEFINE d       == ItemsOf(names)
           closing == {i \in DOMAIN d : d[i].ref # OpenEnd}
           least   == IF closing = {} THEN Len(d) ELSE Min(closing)
           call    == gdb_packet_read_stream(d)
<1>1. /\ Len(names) \in Nat /\ DOMAIN names = 1..Len(names)
      /\ DOMAIN d = 1..Len(names) /\ Len(d) = Len(names)
      /\ \A i \in 1..Len(names) : d[i] = ItemOf[names[i]]
  BY LenProperties DEF ItemsOf
<1>2. call = [consumed |-> least,
              text     |-> d[least].text,
              verdict  |-> VerdictOn(d[least].ref, Total(Sums(d), 1..least) % 256)]
  BY DEF gdb_packet_read_stream, VerdictOn, Total
<1> DEFINE N == Len(names)
<1>7. N \in Nat /\ k \in 1..N /\ k \in Nat /\ \A i \in 1..N : i < k => i \in 1..(k - 1)
  BY LenProperties
<1> HIDE DEF d, call, N
<1>3. \A i \in 1..(k - 1) : d[i].ref = OpenEnd
  <2>1. \A i \in 1..(k - 1) : i \in 1..N
    BY <1>7
  <2>2. \A i \in 1..(k - 1) : ItemOf[names[i]].ref = OpenEnd
    BY DEF AllOpen
  <2> QED BY <1>1, <2>1, <2>2, Zenon DEF N
<1>4. closing \subseteq 1..Len(names) /\ \A i \in closing : i >= k
  <2>1. closing \subseteq 1..Len(names)
    BY <1>1
  <2>2. ASSUME NEW i \in 1..Len(names), i < k PROVE d[i].ref = OpenEnd
    <3>1. i \in 1..(k - 1)
      BY <1>7, <2>2, Zenon DEF N
    <3> QED BY <1>3, <3>1
  <2>3. \A i \in 1..N : i < k \/ i >= k
    BY <1>7
  <2>4. \A i \in closing : i \in 1..N /\ ~(i < k)
    BY <2>1, <2>2, Zenon DEF N
  <2> QED BY <2>1, <2>3, <2>4
<1>5. least = k
  <2>1. CASE closing = {}
    <3>1. d[k].ref = OpenEnd
      BY <1>1, <2>1
    <3> QED BY <1>1, <2>1, <3>1
  <2>2. CASE closing # {}
    <3>1. Min(closing) \in closing /\ \A y \in closing : Min(closing) <= y
      <4>1. closing \in SUBSET Nat
        BY <1>4
      <4> HIDE DEF closing
      <4> QED BY <2>2, <4>1, MinIsLeast
    <3>2. k \in closing
      <4>1. ASSUME d[k].ref = OpenEnd PROVE FALSE
        <5>1. k = Len(names)
          BY <1>1, <4>1
        <5>2. \A i \in 1..Len(names) : d[i].ref = OpenEnd
          BY <1>1, <1>3, <4>1, <5>1
        <5> QED BY <1>1, <2>2, <5>2
      <4> QED BY <1>1, <4>1
    <3>3. Min(closing) >= k /\ Min(closing) <= k /\ Min(closing) \in Nat
      <4> HIDE DEF closing
      <4> QED BY <1>4, <3>1, <3>2
    <3> QED BY <2>2, <3>3
  <2> QED BY <2>1, <2>2
<1> HIDE DEF least
<1>6. call.consumed = k /\ call.text = d[k].text
      /\ call.verdict = VerdictOn(d[k].ref, Total(Sums(d), 1..k) % 256)
  BY <1>2, <1>5
<1>8. ItemSum(names, k) % 256 \in 0..255
  <2>1. k \in 0..Len(names)
    BY <1>7 DEF N
  <2>2. ItemSum(names, k) \in Nat
    BY <2>1, ItemSumNext
  <2>3. \A x \in Nat : x % 256 \in 0..255
    OBVIOUS
  <2> QED BY <2>2, <2>3
<1> QED BY <1>1, <1>6, <1>8, Zenon DEF d, call, ItemSum

(* A digit sum is never one of the marks of an item.                       *)
LEMMA DigitsAreNoMark ==
    ASSUME ReaderInv, ScanInv, result # "COLLECTING"
    PROVE  DigitsOf(input) # OpenEnd /\ DigitsOf(input) # BadDigits
<1>1. LowerDigit(input, Len(input))
  BY DEF ScanInv, Scanned
<1>2. Len(input) \in Nat /\ Len(input) > 2 /\ input \in Seq(Char)
  <2>1. input \in Seq(Alphabet) /\ Alphabet \subseteq Char
    BY ReaderAssumption DEF ReaderInv, TypeOK
  <2> QED BY <1>1, <2>1, LenProperties DEF LowerDigit
<1>3. input[Len(input) - 1] \in Char /\ input[Len(input)] \in Char
  <2>1. Len(input) - 1 \in 1..Len(input) /\ Len(input) \in 1..Len(input)
    BY <1>2
  <2> QED BY <1>2, <2>1, ElementOfSeq
<1>4. \A x, y \in Char : 16 * x + y >= 0
  BY DEF Char
<1>5. DigitsOf(input) >= 0
  BY <1>3, <1>4, NibbleType DEF DigitsOf
<1> QED BY <1>5 DEF OpenEnd, BadDigits

(* The k-th item ended the call. *)
EndedAt(k) ==
    /\ AllOpen(data, k - 1)
    /\ ItemOf[data[k]].ref # OpenEnd \/ k = Len(data)
    /\ pc = "returned" => input = BeforeOf(data, k) /\ SumOf(input) = ItemSum(data, k) % 256
    /\ pc = "halted" => ItemOf[data[k]].ref = BadDigits
    /\ pc = "returned" /\ result = "COLLECTING" => ItemOf[data[k]].ref = OpenEnd
    /\ result # "COLLECTING" =>
          k = item - 1 /\ offset = 0 /\ ItemOf[data[k]].ref = DigitsOf(input)

LEMMA CallEnds ==
    ASSUME ItemInv, ReaderInv, ScanInv, pc \in {"returned", "halted"}
    PROVE  \E k \in 1..Len(data) : EndedAt(k)
<1>1. /\ data \in Seq(Names) /\ Len(data) \in Nat \ {0} /\ item \in 1..(Len(data) + 1)
      /\ Spelling /\ Verdict
  BY DEF ItemInv, Place
<1>2. OpenEnd # BadDigits
  BY DEF OpenEnd, BadDigits
<1>3. CASE pc = "halted"
  <2>1. /\ result = "COLLECTING" /\ ItemLeft /\ ItemOf[data[item]].ref = BadDigits
        /\ AllOpen(data, item - 1)
    BY <1>1, <1>3 DEF Verdict
  <2>2. item \in 1..Len(data)
    BY <1>1, <2>1 DEF ItemLeft
  <2>3. EndedAt(item)
    BY <1>2, <1>3, <2>1, <2>2 DEF EndedAt
  <2> QED BY <2>2, <2>3
<1>4. CASE pc = "returned"
  <2>1. /\ item > 1 /\ Part = <<>> /\ AllOpen(data, item - 2)
        /\ result = "COLLECTING" => AllOpen(data, item - 1) /\ item - 1 = Len(data)
        /\ result # "COLLECTING" => /\ ItemOf[data[item - 1]].ref = DigitsOf(input)
                                    /\ offset = 0
    <3>1. CASE result = "COLLECTING"
      <4>1. ~ItemLeft /\ AllOpen(data, item - 1)
        BY <1>1, <1>4, <3>1 DEF Verdict
      <4> QED BY <1>1, <3>1, <4>1 DEF ItemLeft, Part, AllOpen
    <3>2. CASE result # "COLLECTING"
      BY <1>1, <1>4, <3>2 DEF Verdict
    <3> QED BY <3>1, <3>2
  <2> DEFINE k == item - 1
  <2>2. k \in 1..Len(data) /\ k - 1 = item - 2 /\ k \in 0..Len(data)
    BY <1>1, <2>1
  <2>3. BeforeOf(data, k) \in Seq(Char)
    <3> HIDE DEF k
    <3>1. data[k] \in Names
      BY <1>1, <2>2, ElementOfSeq
    <3>2. /\ BeforeOf(data, k - 1) \in Seq(Char)
          /\ BeforeOf(data, k) = BeforeOf(data, k - 1) \o Characters[data[k]]
          /\ Characters[data[k]] \in Seq(Char)
      BY <1>1, <2>2, <3>1, BeforeNext, ItemFacts
    <3> QED BY <3>2, ConcatProperties
  <2>4. input = BeforeOf(data, k)
    <3>1. input = BeforeOf(data, k) \o <<>>
      BY <1>1, <2>1 DEF Spelling
    <3> QED BY <2>3, <3>1, ConcatEmptySeq
  <2>5. SumOf(input) = ItemSum(data, k) % 256
    <3>1. SumOf(input) = U8(ItemSum(data, k) + 0)
      BY <1>1, <2>1, NothingYet DEF Spelling
    <3>2. ItemSum(data, k) \in Nat
      <4> HIDE DEF k
      <4> QED BY <1>1, <2>2, ItemSumNext
    <3> QED BY <3>1, <3>2 DEF U8
  <2>6. ItemOf[data[k]].ref # OpenEnd \/ k = Len(data)
    <3>1. ASSUME result # "COLLECTING" PROVE ItemOf[data[k]].ref # OpenEnd
      BY <1>4, <2>1, <3>1, DigitsAreNoMark
    <3> QED BY <2>1, <3>1
  <2>7. result = "COLLECTING" => ItemOf[data[k]].ref = OpenEnd
    <3> HIDE DEF k
    <3> QED BY <2>1, <2>2 DEF AllOpen, k
  <2>8. AllOpen(data, k - 1)
    BY <2>1, <2>2
  <2>9. result # "COLLECTING" => ItemOf[data[k]].ref = DigitsOf(input) /\ offset = 0
    BY <2>1
  <2>10. EndedAt(k)
    BY <1>4, <2>4, <2>5, <2>6, <2>7, <2>8, <2>9 DEF EndedAt
  <2> HIDE DEF k
  <2> QED BY <2>2, <2>10
<1> QED BY <1>3, <1>4

(* A pbuf is shorter than the buffer: a frame in it is never cut.          *)
LEMMA FrameFits ==
    ASSUME ReaderInv, ScanInv, result # "COLLECTING"
    PROVE  /\ packet.state = "COMPLETE" /\ Len(input) < MAX_BUFFER_LENGTH
           /\ result = "OK" <=> DigitsOf(input) = SumOf(input)
<1>1. packet.state = "COMPLETE" /\ Len(input) < MAX_BUFFER_LENGTH
  <2>1. Len(input) <= MaxInput /\ Len(input) \in Nat
    BY LenProperties DEF ReaderInv, TypeOK
  <2>2. MaxInput < MAX_BUFFER_LENGTH /\ MaxInput \in Nat /\ MAX_BUFFER_LENGTH \in Nat
    BY ItemReaderAssumption, ReaderAssumption, BufferAssumption
  <2> QED BY <2>1, <2>2 DEF ScanInv, Scanned
<1>2. Len(input) <= MAX_BUFFER_LENGTH
  BY <1>1, LenProperties, BufferAssumption DEF ReaderInv, TypeOK
<1> QED BY <1>1, <1>2 DEF ScanInv, Summed, Referenced, Compared, SumOf

(* For every set of items that stand for their characters and every array  *)
(* of them, of any length: the verdict that the model of the server takes  *)
(* from the items is the reader's on the characters, and the reader stops  *)
(* where the item that gave the verdict ends.                              *)
THEOREM VerdictsMatchAlways == ItemSpec => []VerdictsMatchCharacters
<1>1. ASSUME ItemInv, ReaderInv, ScanInv PROVE VerdictsMatchCharacters
  <2> SUFFICES ASSUME pc \in {"returned", "halted"}
               PROVE  /\ ByItem.verdict = IF pc = "halted" THEN "HALT" ELSE result
                      /\ pc = "returned" => input = CharactersOf(SubSeq(data, 1, ByItem.consumed))
    BY DEF VerdictsMatchCharacters
  <2>1. data \in Seq(Names) /\ Verdict
    BY <1>1 DEF ItemInv, Place
  <2>2. PICK k \in 1..Len(data) : EndedAt(k)
    BY <1>1, CallEnds
  <2>3. /\ ByItem.consumed = k
        /\ ByItem.verdict = VerdictOn(ItemOf[data[k]].ref, ItemSum(data, k) % 256)
        /\ ItemSum(data, k) % 256 \in 0..255
    BY <2>1, <2>2, StreamOfItems DEF ByItem, EndedAt
  <2>4. pc = "returned" => input = CharactersOf(SubSeq(data, 1, ByItem.consumed))
    <3>1. k \in 0..Len(data)
      BY <2>1, LenProperties
    <3> QED BY <2>1, <2>2, <2>3, <3>1, BeforeIsCharacters DEF EndedAt
  <2>6. CASE pc = "halted"
    <3>1. ItemOf[data[k]].ref = BadDigits
      BY <2>2, <2>6 DEF EndedAt
    <3>2. ByItem.verdict = "HALT"
      BY <2>3, <3>1, VerdictOnMarks
    <3> QED BY <2>6, <3>2
  <2>7. CASE pc = "returned" /\ result = "COLLECTING"
    <3>1. ItemOf[data[k]].ref = OpenEnd
      BY <2>2, <2>7 DEF EndedAt
    <3>2. ByItem.verdict = "COLLECTING"
      BY <2>3, <3>1, VerdictOnMarks
    <3> QED BY <2>4, <2>7, <3>2
  <2>8. CASE result # "COLLECTING"
    <3>1. pc = "returned"
      BY <2>1, <2>8 DEF Verdict
    <3>2. result = "OK" <=> DigitsOf(input) = SumOf(input)
      BY <1>1, <2>8, FrameFits
    <3>3. result \in {"OK", "CHECKSUM_ERROR"}
      BY <1>1, <2>8 DEF ReaderInv, TypeOK, Results
    <3>4. DigitsOf(input) # OpenEnd /\ DigitsOf(input) # BadDigits
      BY <1>1, <2>8, DigitsAreNoMark
    <3>5. ByItem.verdict = VerdictOn(DigitsOf(input), SumOf(input))
      BY <2>2, <2>3, <2>8, <3>1 DEF EndedAt
    <3>6. ByItem.verdict = result
      BY <3>2, <3>3, <3>4, <3>5 DEF VerdictOn
    <3> QED BY <2>4, <3>1, <3>6
  <2> QED BY <2>6, <2>7, <2>8
<1> QED BY <1>1, ItemInvariant, PTL
-----------------------------------------------------------------------------
(* The text that the handlers find.                                        *)
LEMMA NulIsChar == CHAR_NUL \in Char
BY DEF CHAR_NUL, Char

(* Behind a text of which nothing is stored, everything is as without it.  *)
LEMMA KeptBehind ==
    ASSUME NEW a \in Seq(Char), Kept(a) = <<>>,
           NEW c \in Seq(Char), \A i \in 1..Len(c) : c[i] # CHAR_CTRL_C
    PROVE  Kept(a \o c) = c
<1> DEFINE Holds(k) == Kept(a \o SubSeq(c, 1, k)) = SubSeq(c, 1, k)
           Fails    == {k \in 0..Len(c) : ~Holds(k)}
           n        == Len(c)
<1>1. n \in Nat /\ SubSeq(c, 1, 0) = <<>> /\ SubSeq(c, 1, n) = c /\ a \o <<>> = a
  BY LenProperties, SubSeqEmpty, SubSeqFull, ConcatEmptySeq
<1>2. Holds(0)
  BY <1>1, Zenon
<1>5. \A k \in 0..n : k # n => k \in Nat /\ k < n /\ k + 1 \in 1..n /\ k + 1 \in 0..n
  <2>1. n \in Nat
    BY <1>1
  <2> HIDE DEF n
  <2> QED BY <2>1
<1>3. ASSUME NEW k \in 0..n, k # n, Holds(k) PROVE Holds(k + 1)
  <2> DEFINE s == SubSeq(c, 1, k)
             e == c[k + 1]
  <2>1. k \in Nat /\ k < n /\ k + 1 \in 1..n
    BY <1>3, <1>5, Zenon
  <2>2. s \in Seq(Char) /\ e \in Char /\ Append(s, e) = SubSeq(c, 1, k + 1) /\ e # CHAR_CTRL_C
    BY <2>1, PartNext
  <2>3. Kept(a \o s) = s
    BY <1>3
  <2> HIDE DEF s, e, Holds
  <2>4. a \o s \in Seq(Char) /\ Append(a \o s, e) = a \o Append(s, e)
    BY <2>2, ConcatProperties, AppendBehind
  <2>5. Kept(Append(a \o s, e)) = Append(Kept(a \o s), e)
    BY <2>2, <2>4, KeptAppend
  <2>6. Kept(a \o Append(s, e)) = Append(s, e)
    BY <2>3, <2>4, <2>5
  <2> QED BY <2>2, <2>6 DEF Holds
<1>4. Holds(n)
  <2> HIDE DEF Holds
  <2>1. n \in Nat /\ \A k \in 0..n : k # n /\ Holds(k) => Holds(k + 1)
    BY <1>1, <1>3, Zenon
  <2>2. Fails = {}
    <3> SUFFICES ASSUME Fails # {} PROVE FALSE
      OBVIOUS
    <3>1. PICK m \in Fails : \A y \in Fails : m <= y
      <4>1. Fails \in SUBSET Nat
        BY <2>1
      <4> HIDE DEF Fails
      <4> QED BY <4>1, MinIsLeast
    <3>2. m \in 0..n /\ m # 0 /\ ~Holds(m)
      BY <1>2, <3>1
    <3>3. m - 1 \in 0..n /\ m - 1 # n /\ (m - 1) + 1 = m /\ ~(m <= m - 1)
      BY <2>1, <3>2
    <3>4. Holds(m - 1)
      BY <3>1, <3>3
    <3>5. Holds((m - 1) + 1)
      BY <2>1, <3>3, <3>4, Zenon
    <3> QED BY <3>2, <3>3, <3>5
  <2> QED BY <2>1, <2>2
<1> QED BY <1>1, <1>4, Zenon

(* The payload of a frame that is alone in the buffer. *)
LEMMA PayloadOfFrame ==
    ASSUME NEW c \in Seq(Char), Len(c) > 2
    PROVE  Payload(Append(c, CHAR_NUL)) = SubSeq(c, 2, Len(c) - 3)
<1> DEFINE b == Append(c, CHAR_NUL)
           n == Len(c)
           u == SubSeq(b, 2, n - 3)
           v == SubSeq(c, 2, n - 3)
<1>1. /\ n \in Nat /\ n > 2 /\ Len(b) = n + 1
      /\ \A i \in 1..n : b[i] = c[i]
      /\ \A i \in 1..n : c[i] \in Char
  BY NulIsChar, AppendProperties, LenProperties, ElementOfSeq
<1> HIDE DEF b, n
<1>2. Payload(b) = u
  <2>1. Len(b) - 4 = n - 3
    BY <1>1
  <2> QED BY <2>1 DEF Payload, GDB_PACKET_PREIX_LENGTH
<1>3. 2 \in Int /\ n - 3 \in Int /\ \A i \in 2..(n - 3) : b[i] \in Char /\ c[i] \in Char
  BY <1>1
<1>4. /\ u \in Seq(Char) /\ Len(u) = IF 2 <= n - 3 THEN (n - 3) - 2 + 1 ELSE 0
      /\ \A i \in 1..((n - 3) - 2 + 1) : u[i] = b[2 + i - 1]
      /\ v \in Seq(Char) /\ Len(v) = IF 2 <= n - 3 THEN (n - 3) - 2 + 1 ELSE 0
      /\ \A i \in 1..((n - 3) - 2 + 1) : v[i] = c[2 + i - 1]
  BY <1>3, SubSeqProperties
<1> HIDE DEF u, v
<1>5. Len(u) = Len(v) /\ \A i \in 1..Len(u) : u[i] = v[i]
  <2>1. \A i \in 1..Len(u) : i \in 1..((n - 3) - 2 + 1) /\ 2 + i - 1 \in 1..n
    BY <1>1, <1>4
  <2> QED BY <1>1, <1>4, <2>1
<1>6. u = v
  BY <1>4, <1>5, SeqEqual
<1> QED BY <1>2, <1>6 DEF b, n, v

(* The item that ended the call is a whole frame with the right digits,    *)
(* and the characters in front of it either add something to the checksum  *)
(* or are none that the buffer stores.                                     *)
FrameStandsAlone ==
    LET last == ByItem.consumed
        name == data[last]
    IN  /\ Characters[name][1] = CHAR_START
        /\ ItemOf[name].ref = ItemOf[name].sum
        /\ ItemSum(data, last - 1) % 256 = 0 =>
               Kept(CharactersOf(SubSeq(data, 1, last - 1))) = <<>>

(* For every set of items that stand for their characters and every array  *)
(* of them: what the handlers find in the buffer when a frame is accepted  *)
(* is the text of the item that ended the call.  The condition is the      *)
(* code's: the reader keeps and counts what precedes a '$', the handlers   *)
(* read from the buffer's second character on, and only the checksum, that *)
(* such characters falsify unless they add up to a multiple of 256, keeps  *)
(* the two apart.                                                          *)
THEOREM TextsMatchAlways == ItemSpec => [](FrameStandsAlone => TextsMatchCharacters)
<1>1. ASSUME ItemInv, ReaderInv, ScanInv, FrameStandsAlone
      PROVE  TextsMatchCharacters
  <2> SUFFICES ASSUME Returned, result = "OK"
               PROVE  Payload(packet.buffer) = BytesOf(ByItem.text)
    BY DEF TextsMatchCharacters
  <2>1. data \in Seq(Names) /\ pc = "returned" /\ Len(data) \in Nat
    BY <1>1 DEF ItemInv, Place, Returned
  <2>2. PICK last \in 1..Len(data) : EndedAt(last)
    BY <1>1, <2>1, CallEnds
  <2>3. ByItem.consumed = last /\ ByItem.text = ItemOf[data[last]].text
    BY <2>1, <2>2, StreamOfItems DEF ByItem, EndedAt
  <2> DEFINE name  == data[last]
             c     == Characters[name]
             front == BeforeOf(data, last - 1)
  <2>4. name \in Names /\ last - 1 \in 0..Len(data) /\ last \in 0..Len(data) /\ last > 0
    BY <2>1, ElementOfSeq
  <2>5. /\ c \in Seq(Char) /\ Len(c) \in Nat /\ DOMAIN c = 1..Len(c)
        /\ ItemFits(name) /\ TextFits(name)
        /\ ItemOf[name].sum \in Nat
    BY <2>4, ItemFacts, LenProperties
  <2>6. /\ input = BeforeOf(data, last) /\ SumOf(input) = ItemSum(data, last) % 256
        /\ ItemOf[name].ref = DigitsOf(input)
    BY <2>1, <2>2 DEF EndedAt
  <2>7. /\ packet.state = "COMPLETE" /\ Len(input) < MAX_BUFFER_LENGTH
        /\ DigitsOf(input) = SumOf(input)
    BY <1>1, FrameFits
  <2>8. front \in Seq(Char) /\ input = front \o c
    BY <2>1, <2>6, BeforeNext
  <2>9. Kept(front) = <<>>
    <3>1. /\ ItemOf[name].ref = ItemOf[name].sum
          /\ ItemSum(data, last - 1) % 256 = 0 =>
                 Kept(CharactersOf(SubSeq(data, 1, last - 1))) = <<>>
      BY <1>1, <2>3, Zenon DEF FrameStandsAlone
    <3>2. CharactersOf(SubSeq(data, 1, last - 1)) = front
      BY <2>1, <2>4, BeforeIsCharacters
    <3>3. /\ ItemSum(data, last - 1) \in Nat
          /\ ItemSum(data, last) = ItemSum(data, last - 1) + ItemOf[name].sum
      BY <2>1, <2>4, ItemSumNext
    <3>4. \A x, y \in Nat : y = (x + y) % 256 => x % 256 = 0
      OBVIOUS
    <3> HIDE DEF name, c, front
    <3>5. ItemOf[name].sum = (ItemSum(data, last - 1) + ItemOf[name].sum) % 256
      BY <2>6, <2>7, <3>1, <3>3, Zenon
    <3>6. ItemSum(data, last - 1) % 256 = 0
      BY <2>5, <3>3, <3>4, <3>5, Zenon
    <3> QED BY <3>1, <3>2, <3>6, Zenon
  <2>10. /\ LowerDigit(c, Len(c))
         /\ BytesOf(ItemOf[name].text) = SubSeq(c, 2, Len(c) - 3)
         /\ \A i \in 1..Len(c) : c[i] # CHAR_CTRL_C
    <3>1. ItemOf[name].ref # OpenEnd
      BY <1>1, <2>6, DigitsAreNoMark
    <3>2. LowerDigit(c, Len(c))
      BY <2>5, <3>1, Zenon DEF ItemFits
    <3>3. c[1] = CHAR_START
      BY <1>1, <2>3, Zenon DEF FrameStandsAlone
    <3> HIDE DEF name
    <3> QED BY <2>5, <3>2, <3>3, Zenon DEF TextFits
  <2> HIDE DEF name, c, front
  <2>11. Kept(input) = c
    BY <2>5, <2>8, <2>9, <2>10, KeptBehind
  <2>12. Len(c) < MAX_BUFFER_LENGTH
    <3>1. Len(input) = Len(front) + Len(c) /\ Len(front) \in Nat
      BY <2>5, <2>8, ConcatProperties, LenProperties
    <3> QED BY <2>5, <2>7, <3>1, BufferAssumption
  <2>13. packet.buffer = Append(c, CHAR_NUL)
    <3>1. packet.buffer = Cut(Append(c, CHAR_NUL))
      BY <1>1, <2>7, <2>11 DEF ScanInv, BufferHoldsInput
    <3>2. Cut(c) = c
      BY <2>5, <2>12, SubSeqFull DEF Cut
    <3>3. Cut(Append(c, CHAR_NUL)) = Append(c, CHAR_NUL)
      BY <2>5, <2>12, <3>2, NulIsChar, CutAppend
    <3> QED BY <3>1, <3>3
  <2>14. Payload(Append(c, CHAR_NUL)) = SubSeq(c, 2, Len(c) - 3)
    <3>1. Len(c) > 2
      BY <2>10 DEF LowerDigit
    <3> QED BY <2>5, <3>1, PayloadOfFrame
  <2> QED BY <2>3, <2>10, <2>13, <2>14, Zenon DEF name
<1> QED BY <1>1, ItemInvariant, PTL
=============================================================================
