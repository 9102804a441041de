------------------------- MODULE PacketWriterProofs -------------------------
(***************************************************************************)
(* What holds of the output packet for every text, every length of text    *)
(* and every buffer length, whatever the transport does.                   *)
(***************************************************************************)
EXTENDS PacketWriter, CommonLemmas

(* gdb_packet_add_char keeps the type of the packet and the buffer bound,  *)
(* and lengthens the buffer by at most one character.                      *)
LEMMA AddChar ==
    ASSUME NEW p \in Packet, NEW c \in Char, NEW b \in BOOLEAN,
           Len(p.buffer) <= MAX_BUFFER_LENGTH
    PROVE  /\ gdb_packet_add_char(p, c, b) \in Packet
           /\ Len(gdb_packet_add_char(p, c, b).buffer) <= MAX_BUFFER_LENGTH
           /\ Len(gdb_packet_add_char(p, c, b).buffer) <= Len(p.buffer) + 1
           /\ gdb_packet_add_char(p, c, b).state = p.state
           /\ HasRoom(p) =>
                 gdb_packet_add_char(p, c, b).buffer = Append(p.buffer, c)
<1>1. CASE HasRoom(p)
  <2> DEFINE q == [p EXCEPT !.buffer = Append(@, c),
                            !.checksum = IF b THEN U8(@ + c) ELSE @]
  <2>1. gdb_packet_add_char(p, c, b) = q
    BY <1>1 DEF gdb_packet_add_char
  <2>2. /\ Append(p.buffer, c) \in Seq(Char)
        /\ Len(Append(p.buffer, c)) = Len(p.buffer) + 1
    BY AppendProperties DEF Packet
  <2>3. U8(p.checksum + c) \in Char
    <3>1. p.checksum \in Char
      BY DEF Packet
    <3> QED BY <3>1, U8Type
  <2>4. q \in Packet /\ q.buffer = Append(p.buffer, c) /\ q.state = p.state
    BY <2>2, <2>3 DEF Packet
  <2>5. Len(p.buffer) + 1 <= MAX_BUFFER_LENGTH
    BY <1>1, BufferAssumption, LenProperties DEF HasRoom, Packet
  <2> QED BY <2>1, <2>2, <2>4, <2>5
<1>2. CASE ~HasRoom(p)
  <2>1. gdb_packet_add_char(p, c, b) = p
    BY <1>2 DEF gdb_packet_add_char
  <2>2. Len(p.buffer) \in Nat
    BY LenProperties DEF Packet
  <2> QED BY <1>2, <2>1, <2>2
<1> QED BY <1>1, <1>2
(* While a reply is filled, its buffer holds the '$' and the whole         *)
(* message, or it is full and the message does not fit.  A packet that     *)
(* stays unfinished is too long; an idle one is not in the way of the next.*)
Filled ==
    \/ Len(output.buffer) = 1 + Len(message)
    \/ Len(output.buffer) = MAX_BUFFER_LENGTH /\ MAX_BUFFER_LENGTH <= 1 + Len(message)

Progress ==
    /\ pc = "open" => output.state = "COLLECT" /\ Filled
    /\ pc = "idle" => output.state \in {"INIT", "SENT"}
    /\ pc = "flush" => \/ output.state = "COMPLETE"
                       \/ Len(message) + 5 > MAX_BUFFER_LENGTH
    /\ pc = "flush" => Len(output.buffer) >= 1
    /\ pc = "open" => Len(output.buffer) >= 1

WriterInv == TypeOK /\ Progress /\ HaltsOnlyOverlong

(* hex_nibble_from_char yields a byte for every nibble.                    *)
LEMMA NibbleDigit ==
    ASSUME NEW n \in 0..15
    PROVE  hex_nibble_from_char(n) \in Char
<1>1. n + 7 + 48 \in Int /\ n + 48 \in Int
  OBVIOUS
<1> QED BY <1>1, U8Range DEF hex_nibble_from_char

(* Both halves of a byte are nibbles.                                      *)
LEMMA Nibbles ==
    ASSUME NEW c \in Char
    PROVE  /\ GET_UPPER_NIBBLE(c) \in 0..15 /\ GET_LOWER_NIBBLE(c) \in 0..15
           /\ c \div 16 \in 0..15 /\ c % 16 \in 0..15
BY DEF Char, GET_UPPER_NIBBLE, GET_LOWER_NIBBLE

LEMMA TwoDigitsType ==
    ASSUME NEW c \in Char
    PROVE  TwoDigits(c) \in Seq(Char) /\ Len(TwoDigits(c)) = 2
<1>1. \A i \in 1..16 : HexDigits[i] \in Char
  BY DEF HexDigits, Char
<1>2. (c \div 16) + 1 \in 1..16 /\ (c % 16) + 1 \in 1..16
  BY Nibbles
<1>3. HexDigits[(c \div 16) + 1] \in Char /\ HexDigits[(c % 16) + 1] \in Char
  BY <1>1, <1>2
<1> QED BY <1>3 DEF TwoDigits

(* The opened packet holds the '$' alone.                                  *)
LEMMA OpenedPacket ==
    /\ Opened \in Packet /\ Opened.state = "COLLECT"
    /\ Len(Opened.buffer) = 1 /\ 1 <= MAX_BUFFER_LENGTH
<1> DEFINE fresh == gdb_packet_init("OUTBOUND")
<1>1. /\ fresh \in Packet /\ Len(fresh.buffer) = 0 /\ fresh.buffer = <<>>
      /\ HasRoom(fresh) /\ 1 <= MAX_BUFFER_LENGTH /\ Len(fresh.buffer) <= MAX_BUFFER_LENGTH
  BY BufferAssumption
     DEF gdb_packet_init, Packet, PacketType, PacketState, Char, HasRoom
<1>2. CHAR_START \in Char /\ "COLLECT" \in PacketState
  BY DEF CHAR_START, Char, PacketState
<1> HIDE DEF fresh
<1>3. /\ gdb_packet_add_char(fresh, CHAR_START, FALSE) \in Packet
      /\ gdb_packet_add_char(fresh, CHAR_START, FALSE).buffer = Append(<<>>, CHAR_START)
  BY ONLY <1>1, <1>2, AddChar, FALSE \in BOOLEAN
<1>4. Len(Append(<<>>, CHAR_START)) = 1
  OBVIOUS
<1>5. Opened = [gdb_packet_add_char(fresh, CHAR_START, FALSE) EXCEPT !.state = "COLLECT"]
  BY DEF Opened, fresh
<1> QED BY <1>1, <1>2, <1>3, <1>4, <1>5 DEF Packet

LEMMA AckPacket ==
    ASSUME NEW c \in Char
    PROVE  LET p == [gdb_packet_add_char(gdb_packet_init("OUTBOUND"), c, FALSE) EXCEPT
                        !.state = "COMPLETE"]
           IN  p \in Packet /\ p.state = "COMPLETE" /\ Len(p.buffer) = 1
<1> DEFINE fresh == gdb_packet_init("OUTBOUND")
<1>1. /\ fresh \in Packet /\ fresh.buffer = <<>> /\ HasRoom(fresh)
      /\ Len(fresh.buffer) <= MAX_BUFFER_LENGTH
  BY BufferAssumption
     DEF gdb_packet_init, Packet, PacketType, PacketState, Char, HasRoom
<1>2. "COMPLETE" \in PacketState
  BY DEF PacketState
<1> HIDE DEF fresh
<1>3. /\ gdb_packet_add_char(fresh, c, FALSE) \in Packet
      /\ gdb_packet_add_char(fresh, c, FALSE).buffer = Append(<<>>, c)
  BY ONLY <1>1, AddChar, FALSE \in BOOLEAN, c \in Char
<1>4. Len(Append(<<>>, c)) = 1
  OBVIOUS
<1> QED BY <1>2, <1>3, <1>4 DEF Packet, fresh

LEMMA Concatenated ==
    ASSUME NEW s \in Seq(Char), NEW t \in Seq(Char)
    PROVE  s \o t \in Seq(Char) /\ Len(s \o t) = Len(s) + Len(t)
BY ConcatProperties

LEMMA Cut ==
    ASSUME NEW t \in Seq(Char), NEW n \in 0..Len(t)
    PROVE  SubSeq(t, 1, n) \in Seq(Char) /\ Len(SubSeq(t, 1, n)) = n
<1>1. Len(t) \in Nat
  BY LenProperties
<1>2. \A i \in 1..n : i \in 1..Len(t)
  BY <1>1
<1> QED BY <1>1, <1>2, SubSeqProperties

(* The closed packet is complete if stop, digits and NUL fit behind it.    *)
LEMMA ClosedPacket ==
    ASSUME NEW p \in Packet, Len(p.buffer) <= MAX_BUFFER_LENGTH, Len(p.buffer) >= 1
    PROVE  /\ Closed(p) \in Packet
           /\ Len(Closed(p).buffer) <= MAX_BUFFER_LENGTH /\ Len(Closed(p).buffer) >= 1
           /\ Len(p.buffer) + 4 <= MAX_BUFFER_LENGTH => Closed(p).state = "COMPLETE"
<1> DEFINE upper == hex_nibble_from_char(GET_UPPER_NIBBLE(p.checksum))
           lower == hex_nibble_from_char(GET_LOWER_NIBBLE(p.checksum))
           closing == <<CHAR_STOP, upper, lower, CHAR_NUL>>
           room == MAX_BUFFER_LENGTH - Len(p.buffer)
<1>1. upper \in Char /\ lower \in Char
  <2>1. p.checksum \in Char
    BY DEF Packet
  <2> QED BY <2>1, Nibbles, NibbleDigit
<1>2. CHAR_STOP \in Char /\ CHAR_NUL \in Char
  BY DEF CHAR_STOP, CHAR_NUL, Char
<1> HIDE DEF upper, lower
<1>3. closing \in Seq(Char) /\ Len(closing) = 4
  BY <1>1, <1>2
<1>4. p.buffer \in Seq(Char) /\ Len(p.buffer) \in Nat /\ room \in Nat
  BY BufferAssumption, LenProperties DEF Packet
<1> HIDE DEF closing, room
<1>5. CASE room >= 4
  <2>1. Closed(p) = [p EXCEPT !.buffer = p.buffer \o closing, !.state = "COMPLETE"]
    BY <1>5 DEF Closed, closing, room, upper, lower
  <2>2. p.buffer \o closing \in Seq(Char) /\ Len(p.buffer \o closing) = Len(p.buffer) + 4
    BY ONLY <1>3, <1>4, Concatenated
  <2>3. Closed(p) \in Packet /\ Closed(p).buffer = p.buffer \o closing
        /\ Closed(p).state = "COMPLETE"
    BY <2>1, <2>2 DEF Packet, PacketState
  <2> QED BY <1>4, <1>5, <2>2, <2>3, BufferAssumption DEF room
<1>6. CASE ~(room >= 4)
  <2>1. Closed(p) = [p EXCEPT !.buffer = p.buffer \o SubSeq(closing, 1, room)]
    BY <1>6 DEF Closed, closing, room, upper, lower
  <2>2. SubSeq(closing, 1, room) \in Seq(Char) /\ Len(SubSeq(closing, 1, room)) = room
    <3>1. room \in 0..Len(closing)
      BY <1>3, <1>4, <1>6
    <3> QED BY ONLY <1>3, <3>1, Cut
  <2>3. /\ p.buffer \o SubSeq(closing, 1, room) \in Seq(Char)
        /\ Len(p.buffer \o SubSeq(closing, 1, room)) = Len(p.buffer) + room
    BY ONLY <1>4, <2>2, Concatenated
  <2>4. Closed(p) \in Packet /\ Closed(p).buffer = p.buffer \o SubSeq(closing, 1, room)
    BY <2>1, <2>3 DEF Packet
  <2>5. room = MAX_BUFFER_LENGTH - Len(p.buffer) /\ MAX_BUFFER_LENGTH \in Nat
    BY BufferAssumption DEF room
  <2> HIDE DEF closing
  <2>6. Len(Closed(p).buffer) = MAX_BUFFER_LENGTH
    <3>1. Len(Closed(p).buffer) = Len(p.buffer) + room
      BY <2>3, <2>4
    <3> QED BY ONLY <1>4, <3>1, <2>5
  <2>7. Len(p.buffer) + 4 > MAX_BUFFER_LENGTH /\ MAX_BUFFER_LENGTH >= 1
    BY <1>4, <1>6, <2>5
  <2>8. Len(Closed(p).buffer) <= MAX_BUFFER_LENGTH /\ Len(Closed(p).buffer) >= 1
    BY ONLY <2>5, <2>6, <2>7
  <2>9. ~(Len(p.buffer) + 4 <= MAX_BUFFER_LENGTH)
    BY ONLY <1>4, <2>5, <2>7
  <2> QED BY ONLY <2>4, <2>8, <2>9
<1> QED BY <1>5, <1>6

(* The buffer of q has n more characters than that of p, or is full.       *)
Written(p, q, n) ==
    /\ q \in Packet /\ q.state = p.state /\ Len(q.buffer) >= Len(p.buffer)
    /\ \/ Len(q.buffer) = Len(p.buffer) + n
       \/ Len(q.buffer) = MAX_BUFFER_LENGTH /\ Len(p.buffer) + n > MAX_BUFFER_LENGTH
    /\ Len(q.buffer) <= MAX_BUFFER_LENGTH

LEMMA AddWritten ==
    ASSUME NEW p \in Packet, NEW c \in Char, NEW b \in BOOLEAN,
           Len(p.buffer) <= MAX_BUFFER_LENGTH
    PROVE  Written(p, gdb_packet_add_char(p, c, b), 1)
<1>1. p.buffer \in Seq(Char) /\ Len(p.buffer) \in Nat
  BY LenProperties DEF Packet
<1>2. CASE HasRoom(p)
  <2>1. Len(Append(p.buffer, c)) = Len(p.buffer) + 1
    BY <1>1, AppendProperties
  <2> QED BY <1>1, <1>2, <2>1, AddChar DEF Written
<1>3. CASE ~HasRoom(p)
  <2>1. gdb_packet_add_char(p, c, b) = p
    BY <1>3 DEF gdb_packet_add_char
  <2>2. Len(p.buffer) = MAX_BUFFER_LENGTH
    BY <1>1, <1>3, BufferAssumption DEF HasRoom
  <2> QED BY <1>1, <2>1, <2>2 DEF Written
<1> QED BY <1>2, <1>3

(* gdb_session_init leaves an output packet nobody has written to.         *)
LEMMA InitWriter == Init => WriterInv
BY BufferAssumption, WriterAssumption
   DEF Init, WriterInv, TypeOK, Progress, Filled, HaltsOnlyOverlong, gdb_packet_init,
       Packet, PacketType, PacketState, Char

LEMMA StartStep == WriterInv /\ gdb_packet_write_start => WriterInv'
<1> SUFFICES ASSUME WriterInv, gdb_packet_write_start PROVE WriterInv'
  OBVIOUS
<1>1. pc' = "open" /\ output' = Opened /\ message' = <<>> /\ UNCHANGED <<told, wire>>
  BY DEF gdb_packet_write_start, WriterInv, Progress
<1> QED BY <1>1, OpenedPacket, WriterAssumption
        DEF WriterInv, TypeOK, Progress, Filled, HaltsOnlyOverlong

(* One more character: the buffer takes it or is full.                     *)
LEMMA CharacterStep ==
    ASSUME WriterInv, NEW c \in Plain, WriteCharacter(c)
    PROVE  WriterInv'
<1>1. c \in Char
  BY WriterAssumption
<1>2. /\ output \in Packet /\ Len(output.buffer) <= MAX_BUFFER_LENGTH
      /\ output.buffer \in Seq(Char) /\ Len(output.buffer) \in Nat
      /\ message \in Seq(Char) /\ Len(message) \in Nat
      /\ pc = "open" /\ output.state = "COLLECT" /\ Filled /\ Len(output.buffer) >= 1
  BY LenProperties DEF WriterInv, TypeOK, Progress, WriteCharacter, Packet
<1>3. /\ message' = Append(message, c) /\ message' \in Seq(Char)
      /\ Len(message') = Len(message) + 1 /\ Len(message') <= MaxMessage
      /\ pc' = pc /\ UNCHANGED <<told, wire>>
  BY <1>1, <1>2, AppendProperties, WriterAssumption DEF WriteCharacter
<1>4. Written(output, output', 1)
  BY ONLY <1>1, <1>2, WriterInv, WriteCharacter(c), AddWritten, TRUE \in BOOLEAN
  DEF WriteCharacter
<1> QED BY <1>2, <1>3, <1>4, BufferAssumption
        DEF WriterInv, TypeOK, Progress, Filled, HaltsOnlyOverlong, Written

LEMMA HexStep ==
    ASSUME WriterInv, NEW c \in Encoded, WriteHex(c)
    PROVE  WriterInv'
<1> DEFINE upper == hex_nibble_from_char(GET_UPPER_NIBBLE(c))
           lower == hex_nibble_from_char(GET_LOWER_NIBBLE(c))
           half  == gdb_packet_add_char(output, upper, TRUE)
<1>1. c \in Char /\ upper \in Char /\ lower \in Char
  <2>1. c \in Char
    BY WriterAssumption
  <2> QED BY <2>1, Nibbles, NibbleDigit
<1>2. /\ output \in Packet /\ Len(output.buffer) <= MAX_BUFFER_LENGTH
      /\ output.buffer \in Seq(Char) /\ Len(output.buffer) \in Nat
      /\ message \in Seq(Char) /\ Len(message) \in Nat
      /\ pc = "open" /\ output.state = "COLLECT" /\ Filled /\ Len(output.buffer) >= 1
  BY LenProperties DEF WriterInv, TypeOK, Progress, WriteHex, Packet
<1>3. /\ output' = gdb_packet_add_char(half, lower, TRUE)
      /\ message' = message \o TwoDigits(c)
      /\ Len(message) + 1 < MaxMessage /\ pc' = pc /\ UNCHANGED <<told, wire>>
  BY DEF WriteHex
<1> HIDE DEF upper, lower
<1>4. Written(output, half, 1)
  BY ONLY <1>1, <1>2, AddWritten, TRUE \in BOOLEAN
<1> HIDE DEF half
<1>5. Written(half, output', 1)
  BY <1>1, <1>3, <1>4, AddWritten DEF Written
<1>6. /\ message' \in Seq(Char) /\ Len(message') = Len(message) + 2
  BY ONLY <1>1, <1>2, <1>3, TwoDigitsType, Concatenated
<1>7. Len(message') <= MaxMessage
  BY <1>2, <1>3, <1>6, WriterAssumption
<1>8. Written(output, output', 2)
  <2>1. /\ Len(half.buffer) \in Nat /\ Len(output'.buffer) \in Nat
    BY <1>4, <1>5, LenProperties DEF Written, Packet
  <2> QED BY <1>2, <1>4, <1>5, <2>1, BufferAssumption DEF Written
<1>9. Filled' /\ Len(output'.buffer) >= 1
  BY <1>2, <1>6, <1>8, BufferAssumption DEF Filled, Written
<1>10. TypeOK'
  BY <1>2, <1>3, <1>6, <1>7, <1>8 DEF WriterInv, TypeOK, Written
<1>11. pc' = "open" /\ output'.state = "COLLECT"
  BY <1>2, <1>3, <1>8 DEF Written
<1> QED BY <1>9, <1>10, <1>11 DEF WriterInv, Progress, HaltsOnlyOverlong

(* Closing: a message that fits leaves a complete packet.                  *)
LEMMA StopStep == WriterInv /\ gdb_packet_write_stop => WriterInv'
<1> SUFFICES ASSUME WriterInv, gdb_packet_write_stop PROVE WriterInv'
  OBVIOUS
<1>1. /\ pc = "open" /\ pc' = "flush" /\ output' = Closed(output)
      /\ UNCHANGED <<message, told, wire>>
      /\ output \in Packet /\ Len(output.buffer) <= MAX_BUFFER_LENGTH
      /\ Filled /\ Len(output.buffer) >= 1
      /\ Len(output.buffer) \in Nat /\ Len(message) \in Nat
  BY LenProperties DEF gdb_packet_write_stop, WriterInv, TypeOK, Progress, Packet
<1>2. /\ output' \in Packet
      /\ Len(output'.buffer) <= MAX_BUFFER_LENGTH /\ Len(output'.buffer) >= 1
      /\ Len(output.buffer) + 4 <= MAX_BUFFER_LENGTH => output'.state = "COMPLETE"
  BY <1>1, ClosedPacket
<1>3. output'.state = "COMPLETE" \/ Len(message') + 5 > MAX_BUFFER_LENGTH
  BY <1>1, <1>2, BufferAssumption DEF Filled
<1> QED BY <1>1, <1>2, <1>3 DEF WriterInv, TypeOK, Progress, HaltsOnlyOverlong

LEMMA AckStep ==
    ASSUME WriterInv, NEW c \in {CHAR_ACK, CHAR_NACK}, gdb_packet_write_ack(c)
    PROVE  WriterInv'
<1>1. c \in Char
  BY DEF CHAR_ACK, CHAR_NACK, Char
<1>2. /\ output' \in Packet /\ output'.state = "COMPLETE" /\ Len(output'.buffer) = 1
      /\ pc' = "flush" /\ message' = <<>> /\ UNCHANGED <<told, wire>>
  BY <1>1, AckPacket DEF gdb_packet_write_ack
<1> QED BY <1>2, BufferAssumption, WriterAssumption
        DEF WriterInv, TypeOK, Progress, HaltsOnlyOverlong

(* Sent or not, the packet is marked and out of the way.                   *)
LEMMA FlushStep == WriterInv /\ (Flush \/ FlushFails) => WriterInv'
<1> SUFFICES ASSUME WriterInv, Flush \/ FlushFails PROVE WriterInv'
  OBVIOUS
<1>1. /\ pc = "flush" /\ pc' = "idle" /\ message' = message
      /\ output' = [output EXCEPT !.state = "SENT"]
      /\ output \in Packet /\ output.buffer \in Seq(Char)
      /\ message \in Seq(Char) /\ Len(message) <= MaxMessage
      /\ Len(output.buffer) <= MAX_BUFFER_LENGTH /\ Len(output.buffer) >= 1
  BY DEF Flush, FlushFails, WriterInv, TypeOK, Progress, Packet
<1>2. /\ output' \in Packet /\ output'.state = "SENT"
      /\ output'.buffer = output.buffer
  BY <1>1 DEF Packet, PacketState
<1>3. wire' \in Seq(Char)
  <2>1. wire \in Seq(Char)
    BY DEF WriterInv, TypeOK
  <2>2. wire' = wire \o output.buffer \/ wire' = wire
    BY DEF Flush, FlushFails
  <2> QED BY <1>1, <2>1, <2>2, Concatenated
<1> DEFINE Told == [kind : {"reply", "ack"}, text : Seq(Char)]
<1>4. told' \in Seq(Told)
  <2>1. output.buffer[1] \in Char
    <3>1. 1 \in 1..Len(output.buffer)
      BY <1>1, LenProperties
    <3> QED BY <1>1, <3>1, ElementOfSeq
  <2>2. <<output.buffer[1]>> \in Seq(Char)
    BY <2>1
  <2>3. Pending \in Told
    BY <1>1, <2>2 DEF Pending, Reply, Acknowledge
  <2>4. told' = Append(told, Pending) \/ told' = told
    BY DEF Flush, FlushFails
  <2>5. told \in Seq(Told)
    BY DEF WriterInv, TypeOK
  <2> HIDE DEF Told
  <2> QED BY ONLY <2>3, <2>4, <2>5, AppendProperties
<1> QED BY <1>1, <1>2, <1>3, <1>4 DEF WriterInv, TypeOK, Progress, HaltsOnlyOverlong

LEMMA AssertStep == WriterInv /\ FlushAsserts => WriterInv'
BY DEF WriterInv, TypeOK, Progress, HaltsOnlyOverlong, FlushAsserts, Complete

LEMMA StutterStep == WriterInv /\ UNCHANGED vars => WriterInv'
BY DEF WriterInv, TypeOK, Progress, Filled, HaltsOnlyOverlong, vars

LEMMA WriterInvariant == Spec => []WriterInv
<1>1. WriterInv /\ [Next]_vars => WriterInv'
  BY StartStep, CharacterStep, HexStep, StopStep, AckStep, FlushStep, AssertStep, StutterStep
     DEF Next
<1> QED BY InitWriter, <1>1, PTL DEF Spec

(* Type correctness: in particular no writer stores beyond the buffer.     *)
THEOREM WriterTypeOK == Spec => []TypeOK
<1>1. WriterInv => TypeOK
  BY DEF WriterInv
<1> QED BY <1>1, WriterInvariant, PTL

(* The write path's assertions stop the system only for a payload that     *)
(* cannot fit, whatever was sent, lost or left unfinished before it.       *)
THEOREM OnlyOverlongHalts == Spec => []HaltsOnlyOverlong
<1>1. WriterInv => HaltsOnlyOverlong
  BY DEF WriterInv
<1> QED BY <1>1, WriterInvariant, PTL
-----------------------------------------------------------------------------
(* What reaches the client                                                 *)

(* hex.c writes the digits a client reads.                                 *)
LEMMA HexDigit ==
    ASSUME NEW n \in 0..15
    PROVE  hex_nibble_from_char(n) = HexDigits[n + 1]
<1>1. CASE n \in 0..9
  <2>1. hex_nibble_from_char(n) = n + 48
    BY <1>1 DEF hex_nibble_from_char, U8
  <2>2. HexDigits[n + 1] = n + 48
    BY <1>1 DEF HexDigits
  <2> QED BY <2>1, <2>2
<1>2. CASE n \in 10..15
  <2>1. hex_nibble_from_char(n) = n + 55
    BY <1>2 DEF hex_nibble_from_char, U8
  <2>2. HexDigits[n + 1] = n + 55
    BY <1>2 DEF HexDigits
  <2> QED BY <2>1, <2>2
<1> QED BY <1>1, <1>2

LEMMA DigitsWritten ==
    ASSUME NEW c \in Char
    PROVE  TwoDigits(c) = <<hex_nibble_from_char(GET_UPPER_NIBBLE(c)),
                            hex_nibble_from_char(GET_LOWER_NIBBLE(c))>>
<1>1. /\ GET_UPPER_NIBBLE(c) = c \div 16 /\ GET_LOWER_NIBBLE(c) = c % 16
      /\ c \div 16 \in 0..15 /\ c % 16 \in 0..15
  BY DEF Char, GET_UPPER_NIBBLE, GET_LOWER_NIBBLE
<1>2. /\ hex_nibble_from_char(GET_UPPER_NIBBLE(c)) = HexDigits[(c \div 16) + 1]
      /\ hex_nibble_from_char(GET_LOWER_NIBBLE(c)) = HexDigits[(c % 16) + 1]
  BY <1>1, HexDigit
<1> QED BY <1>2, Zenon DEF TwoDigits

(* The sum of a text, character by character.                              *)
SumOf(text) == Total(text, DOMAIN text)

LEMMA SumOfAppend ==
    ASSUME NEW s \in Seq(Char), NEW c \in Char
    PROVE  SumOf(s) \in Nat /\ SumOf(Append(s, c)) = SumOf(s) + c
<1> DEFINE t == Append(s, c)
           n == Len(s)
           P == 1..n
<1>1. /\ t \in Seq(Char) /\ Len(t) = n + 1 /\ n \in Nat
      /\ \A i \in 1..n : t[i] = s[i]
      /\ t[n + 1] = c
      /\ DOMAIN s = P /\ DOMAIN t = 1..(n + 1)
  BY AppendProperties, LenProperties
<1>2. \A i \in P : s[i] \in Nat
  <2>1. \A i \in P : s[i] \in Char
    BY ElementOfSeq
  <2>2. Char \subseteq Nat
    BY DEF Char
  <2> QED BY <2>1, <2>2
<1> HIDE DEF t, n
<1>3. IsFiniteSet(P) /\ n + 1 \notin P /\ 1..(n + 1) = P \cup {n + 1}
  <2>1. n \in Int /\ 1 \in Int
    BY <1>1
  <2>2. IsFiniteSet(P)
    BY <2>1, FS_Interval
  <2> QED BY <1>1, <2>2
<1>4. c \in Nat
  BY DEF Char
<1> HIDE DEF P
<1>5. Total(s, P) \in Nat /\ Total(t, P) = Total(s, P)
  <2>1. \A i \in P : t[i] = s[i]
    BY <1>1 DEF P
  <2> QED BY <1>2, <1>3, <2>1, TotalType, TotalSame
<1>6. Total(t, P \cup {n + 1}) = Total(t, P) + t[n + 1]
  <2>1. \A i \in P : t[i] \in Nat
    BY <1>1, <1>2 DEF P
  <2> QED BY <1>1, <1>3, <1>4, <2>1, TotalAdd
<1> QED BY <1>1, <1>3, <1>5, <1>6 DEF SumOf, t

(* The packet p holds the message m behind its '$', with the checksum of   *)
(* m; or it is full and m does not fit.                                    *)
Holds(p, m) ==
    \/ /\ p.buffer = <<CHAR_START>> \o m
       /\ p.checksum = U8(SumOf(m))
    \/ Len(p.buffer) = MAX_BUFFER_LENGTH /\ 1 + Len(m) > MAX_BUFFER_LENGTH

LEMMA HoldsMore ==
    ASSUME NEW p \in Packet, NEW m \in Seq(Char), NEW c \in Char, Holds(p, m),
           Len(p.buffer) <= MAX_BUFFER_LENGTH
    PROVE  Holds(gdb_packet_add_char(p, c, TRUE), Append(m, c))
<1> DEFINE q == gdb_packet_add_char(p, c, TRUE)
           n == Append(m, c)
<1>1. /\ p.buffer \in Seq(Char) /\ Len(p.buffer) \in Nat /\ Len(m) \in Nat
      /\ Len(n) = Len(m) + 1 /\ MAX_BUFFER_LENGTH \in Nat
  BY LenProperties, AppendProperties, BufferAssumption DEF Packet
<1>2. CASE ~HasRoom(p)
  <2>1. q = p
    BY <1>2 DEF gdb_packet_add_char
  <2>2. Len(p.buffer) = MAX_BUFFER_LENGTH
    BY <1>1, <1>2 DEF HasRoom
  <2>3. 1 + Len(n) > MAX_BUFFER_LENGTH
    <3>1. CASE p.buffer = <<CHAR_START>> \o m
      <4>1. CHAR_START \in Char
        BY DEF CHAR_START, Char
      <4>2. Len(p.buffer) = 1 + Len(m)
        BY <3>1, <4>1
      <4> QED BY <1>1, <2>2, <4>2
    <3>2. CASE 1 + Len(m) > MAX_BUFFER_LENGTH
      BY <1>1, <3>2
    <3> QED BY <3>1, <3>2 DEF Holds
  <2> QED BY <2>1, <2>2, <2>3 DEF Holds
<1>3. CASE HasRoom(p)
  <2>1. p.buffer = <<CHAR_START>> \o m /\ p.checksum = U8(SumOf(m))
    BY <1>1, <1>3 DEF Holds, HasRoom
  <2>2. q.buffer = Append(p.buffer, c) /\ q.checksum = U8(p.checksum + c)
    BY <1>3 DEF gdb_packet_add_char, Packet
  <2>3. Append(<<CHAR_START>> \o m, c) = <<CHAR_START>> \o Append(m, c)
    <3>1. <<CHAR_START>> \in Seq(Char)
      BY DEF CHAR_START, Char
    <3>2. \A a \in Seq(Char) : Append(a, c) = a \o <<c>>
      BY AppendIsConcat
    <3>3. <<c>> \in Seq(Char) /\ <<CHAR_START>> \o m \in Seq(Char)
      BY <3>1, ConcatProperties
    <3>4. (<<CHAR_START>> \o m) \o <<c>> = <<CHAR_START>> \o (m \o <<c>>)
      <4>1. \A x, y, z \in Seq(Char) : (x \o y) \o z = x \o (y \o z)
        BY Associative
      <4> QED BY <3>1, <3>3, <4>1, Zenon
    <3> QED BY <3>2, <3>3, <3>4
  <2>4. SumOf(m) \in Nat /\ SumOf(n) = SumOf(m) + c
    BY SumOfAppend
  <2>7. c \in Nat
    BY DEF Char
  <2>5. \A x, y \in Nat : U8(x + y) = U8(U8(x) + y)
    BY DEF U8
  <2>6. q.checksum = U8(SumOf(n))
    BY <2>1, <2>2, <2>4, <2>5, <2>7
  <2> QED BY <2>1, <2>2, <2>3, <2>6 DEF Holds
<1> QED BY <1>2, <1>3

(* What is written behind the message, in one piece or in three.           *)
LEMMA CharsAssociative == \A x, y, z \in Seq(Char) : (x \o y) \o z = x \o (y \o z)
BY Associative

LEMMA ThreeBehind ==
    \A x, s, t, u \in Seq(Char) : x \o s \o t \o u = x \o (s \o t \o u)
<1> SUFFICES ASSUME NEW x \in Seq(Char), NEW s \in Seq(Char), NEW t \in Seq(Char),
                    NEW u \in Seq(Char)
             PROVE  x \o s \o t \o u = x \o (s \o t \o u)
  OBVIOUS
<1>1. s \o t \in Seq(Char)
  BY ConcatProperties
<1>2. x \o s \o t = x \o (s \o t)
  BY CharsAssociative
<1>3. x \o (s \o t) \o u = x \o (s \o t \o u)
  BY <1>1, CharsAssociative
<1> QED BY <1>2, <1>3, Zenon

LEMMA BehindMessage ==
    ASSUME NEW x \in Seq(Char), NEW u \in Char, NEW l \in Char
    PROVE  x \o <<CHAR_STOP>> \o <<u, l>> \o <<CHAR_NUL>>
               = x \o <<CHAR_STOP, u, l, CHAR_NUL>>
<1>1. CHAR_STOP \in Char /\ CHAR_NUL \in Char
  BY DEF CHAR_STOP, CHAR_NUL, Char
<1>2. /\ <<CHAR_STOP>> \in Seq(Char) /\ <<u, l>> \in Seq(Char)
      /\ <<CHAR_NUL>> \in Seq(Char)
  BY <1>1
<1>3. <<CHAR_STOP, u, l, CHAR_NUL>> = <<CHAR_STOP>> \o <<u, l>> \o <<CHAR_NUL>>
  BY <1>1
<1>4. x \o <<CHAR_STOP>> \o <<u, l>> \o <<CHAR_NUL>>
         = x \o (<<CHAR_STOP>> \o <<u, l>> \o <<CHAR_NUL>>)
  BY <1>2, ThreeBehind
<1> QED BY <1>3, <1>4

(* The frame of a reply, with the sum of its text spelled as SumOf.        *)
LEMMA FramedReply ==
    \A m : Framed(Reply(m)) =
             <<CHAR_START>> \o m \o <<CHAR_STOP>> \o TwoDigits(SumOf(m) % 256) \o <<CHAR_NUL>>
<1> SUFFICES ASSUME NEW m
             PROVE  Framed(Reply(m)) = <<CHAR_START>> \o m \o <<CHAR_STOP>>
                                       \o TwoDigits(SumOf(m) % 256) \o <<CHAR_NUL>>
  OBVIOUS
<1> DEFINE r == Reply(m)
<1>1. r.kind # "ack" /\ r.text = m
  BY DEF Reply
<1> HIDE DEF r
<1>2. Framed(r) = <<CHAR_START>> \o r.text \o <<CHAR_STOP>>
                  \o TwoDigits(SumOf(r.text) % 256) \o <<CHAR_NUL>>
  BY <1>1 DEF Framed, SumOf, Total
<1> QED BY <1>1, <1>2 DEF r

LEMMA SumOfType ==
    ASSUME NEW s \in Seq(Char)
    PROVE  SumOf(s) \in Nat
BY SumOfAppend, 0 \in Char DEF Char

(* What the transport is handed is whole or is not handed over.            *)
Contents ==
    /\ pc = "open" => Holds(output, message)
    /\ pc = "flush" =>
          /\ output.state \in {"COMPLETE", "COLLECT"}
          /\ output.state = "COMPLETE" => output.buffer = Framed(Pending)

(* Room for four more characters: the whole message is there.              *)
LEMMA ClosedContents ==
    ASSUME NEW p \in Packet, NEW m \in Seq(Char), Holds(p, m),
           Len(p.buffer) + 4 <= MAX_BUFFER_LENGTH
    PROVE  Closed(p).buffer = Framed(Reply(m)) /\ Closed(p).buffer[1] = CHAR_START
<1> DEFINE upper == hex_nibble_from_char(GET_UPPER_NIBBLE(p.checksum))
           lower == hex_nibble_from_char(GET_LOWER_NIBBLE(p.checksum))
           closing == <<CHAR_STOP, upper, lower, CHAR_NUL>>
           x == <<CHAR_START>> \o m
<1>1. Len(p.buffer) \in Nat /\ MAX_BUFFER_LENGTH \in Nat /\ p.checksum \in Char
  BY LenProperties, BufferAssumption DEF Packet
<1>2. p.buffer = x /\ p.checksum = SumOf(m) % 256
  BY <1>1 DEF Holds, U8
<1>3. TwoDigits(p.checksum) = <<upper, lower>>
  BY <1>1, DigitsWritten
<1>4. upper \in Char /\ lower \in Char
  BY <1>1, Nibbles, NibbleDigit
<1>5. CHAR_START \in Char /\ CHAR_STOP \in Char /\ CHAR_NUL \in Char
  BY DEF CHAR_START, CHAR_STOP, CHAR_NUL, Char
<1>6. Closed(p).buffer = p.buffer \o closing
  <2>1. MAX_BUFFER_LENGTH - Len(p.buffer) >= 4
    BY <1>1
  <2>2. Closed(p) = [p EXCEPT !.buffer = p.buffer \o closing, !.state = "COMPLETE"]
    BY <2>1 DEF Closed
  <2> QED BY <2>2 DEF Packet
<1> HIDE DEF upper, lower
<1>7. /\ <<CHAR_START>> \in Seq(Char) /\ x \in Seq(Char)
      /\ closing \in Seq(Char) /\ x[1] = CHAR_START /\ Len(x) \in Nat \ {0}
  <2>1. <<CHAR_START>> \in Seq(Char) /\ Len(<<CHAR_START>>) = 1 /\ closing \in Seq(Char)
    BY <1>4, <1>5
  <2>2. x \in Seq(Char) /\ Len(x) = 1 + Len(m) /\ Len(m) \in Nat /\ x[1] = <<CHAR_START>>[1]
    BY <2>1, ConcatProperties, LenProperties
  <2> QED BY <2>1, <2>2
<1> HIDE DEF x, closing
<1>8. (x \o closing)[1] = CHAR_START
  BY <1>7, ConcatProperties
<1>9. x \o <<CHAR_STOP>> \o <<upper, lower>> \o <<CHAR_NUL>> = x \o closing
  <2>1. x \o <<CHAR_STOP>> \o <<upper, lower>> \o <<CHAR_NUL>>
           = x \o <<CHAR_STOP, upper, lower, CHAR_NUL>>
    BY ONLY <1>4, <1>7, BehindMessage
  <2> QED BY ONLY <2>1 DEF closing
<1>10. Framed(Reply(m)) = x \o <<CHAR_STOP>> \o TwoDigits(SumOf(m) % 256) \o <<CHAR_NUL>>
  BY FramedReply, Zenon DEF x
<1> QED BY <1>2, <1>3, <1>6, <1>8, <1>9, <1>10

LEMMA OpenedContents == Holds(Opened, <<>>)
<1> DEFINE fresh == gdb_packet_init("OUTBOUND")
<1>1. /\ fresh.buffer = <<>> /\ fresh.checksum = 0 /\ HasRoom(fresh)
  BY BufferAssumption DEF gdb_packet_init, HasRoom
<1>2. /\ Opened.buffer = Append(<<>>, CHAR_START)
      /\ Opened.checksum = 0
  BY <1>1 DEF Opened, gdb_packet_add_char, gdb_packet_init
<1>3. SumOf(<<>>) = 0
  <2>1. DOMAIN <<>> = {}
    OBVIOUS
  <2> QED BY <2>1, TotalEmpty DEF SumOf
<1>4. Append(<<>>, CHAR_START) = <<CHAR_START>> \o <<>>
  OBVIOUS
<1>5. U8(0) = 0
  BY DEF U8
<1> QED BY <1>2, <1>3, <1>4, <1>5 DEF Holds

(* Two characters are added as the digits of one.                          *)
LEMMA HoldsHex ==
    ASSUME NEW p \in Packet, NEW m \in Seq(Char), NEW c \in Char, Holds(p, m),
           Len(p.buffer) <= MAX_BUFFER_LENGTH
    PROVE  LET upper == hex_nibble_from_char(GET_UPPER_NIBBLE(c))
               lower == hex_nibble_from_char(GET_LOWER_NIBBLE(c))
           IN  Holds(gdb_packet_add_char(gdb_packet_add_char(p, upper, TRUE), lower, TRUE),
                     m \o TwoDigits(c))
<1> DEFINE upper == hex_nibble_from_char(GET_UPPER_NIBBLE(c))
           lower == hex_nibble_from_char(GET_LOWER_NIBBLE(c))
           half  == gdb_packet_add_char(p, upper, TRUE)
<1>1. TwoDigits(c) = <<upper, lower>> /\ upper \in Char /\ lower \in Char
  BY DigitsWritten, Nibbles, NibbleDigit
<1> HIDE DEF upper, lower
<1>2. m \o <<upper, lower>> = Append(Append(m, upper), lower)
  BY <1>1
<1>3. half \in Packet /\ Len(half.buffer) <= MAX_BUFFER_LENGTH
  BY ONLY <1>1, p \in Packet, Len(p.buffer) <= MAX_BUFFER_LENGTH, AddChar, TRUE \in BOOLEAN
<1>4. Holds(half, Append(m, upper)) /\ Append(m, upper) \in Seq(Char)
  BY <1>1, HoldsMore, AppendProperties
<1> HIDE DEF half
<1>5. Holds(gdb_packet_add_char(half, lower, TRUE), Append(Append(m, upper), lower))
  BY <1>1, <1>3, <1>4, HoldsMore
<1> QED BY <1>1, <1>2, <1>5, Zenon DEF half, upper, lower

(* A packet that does not close stays unfinished.                          *)
LEMMA NotClosed ==
    ASSUME NEW p \in Packet, Len(p.buffer) <= MAX_BUFFER_LENGTH,
           Len(p.buffer) + 4 > MAX_BUFFER_LENGTH
    PROVE  Closed(p).state = p.state
<1>1. Len(p.buffer) \in Nat /\ MAX_BUFFER_LENGTH \in Nat
  BY LenProperties, BufferAssumption DEF Packet
<1>2. ~(MAX_BUFFER_LENGTH - Len(p.buffer) >= 4)
  BY <1>1
<1> QED BY <1>2 DEF Closed, Packet

LEMMA StopContents ==
    ASSUME WriterInv, Contents, gdb_packet_write_stop
    PROVE  Contents'
<1>1. /\ pc = "open" /\ pc' = "flush" /\ output' = Closed(output) /\ message' = message
      /\ output \in Packet /\ Len(output.buffer) <= MAX_BUFFER_LENGTH
      /\ Len(output.buffer) >= 1 /\ output.state = "COLLECT" /\ message \in Seq(Char)
      /\ Holds(output, message)
      /\ Len(output.buffer) \in Nat /\ MAX_BUFFER_LENGTH \in Nat
  BY LenProperties, BufferAssumption
     DEF gdb_packet_write_stop, WriterInv, TypeOK, Progress, Packet, Contents
<1>2. CASE Len(output.buffer) + 4 <= MAX_BUFFER_LENGTH
  <2>1. /\ output'.buffer = Framed(Reply(message')) /\ output'.buffer[1] = CHAR_START
        /\ output'.state = "COMPLETE"
    BY <1>1, <1>2, ClosedContents, ClosedPacket
  <2>2. Pending' = Reply(message')
    BY <2>1 DEF Pending
  <2> QED BY <1>1, <2>1, <2>2 DEF Contents
<1>3. CASE ~(Len(output.buffer) + 4 <= MAX_BUFFER_LENGTH)
  <2>1. output'.state = "COLLECT"
    BY <1>1, <1>3, NotClosed
  <2> QED BY <1>1, <2>1 DEF Contents
<1> QED BY <1>2, <1>3

LEMMA AckContents ==
    ASSUME NEW c \in {CHAR_ACK, CHAR_NACK}, gdb_packet_write_ack(c)
    PROVE  Contents'
<1> DEFINE fresh == gdb_packet_init("OUTBOUND")
<1>1. fresh.buffer = <<>> /\ HasRoom(fresh)
  BY BufferAssumption DEF gdb_packet_init, HasRoom
<1>2. output'.buffer = Append(<<>>, c) /\ output'.state = "COMPLETE" /\ pc' = "flush"
  BY <1>1 DEF gdb_packet_write_ack, gdb_packet_add_char, gdb_packet_init
<1>3. output'.buffer = <<c>> /\ output'.buffer[1] = c
  BY <1>2
<1>4. c # CHAR_START
  BY DEF CHAR_ACK, CHAR_NACK, CHAR_START
<1>5. Pending' = Acknowledge(c)
  BY <1>3, <1>4 DEF Pending
<1>6. Framed(Acknowledge(c)) = <<c>>
  BY DEF Framed, Acknowledge
<1> QED BY <1>2, <1>3, <1>5, <1>6 DEF Contents

LEMMA ContentsStep == WriterInv /\ Contents /\ [Next]_vars => Contents'
<1> SUFFICES ASSUME WriterInv, Contents, [Next]_vars PROVE Contents'
  OBVIOUS
<1>1. CASE gdb_packet_write_start
  <2>1. pc' = "open" /\ output' = Opened /\ message' = <<>>
    BY <1>1 DEF gdb_packet_write_start, WriterInv, Progress
  <2> QED BY <2>1, OpenedContents DEF Contents
<1>2. ASSUME NEW c \in Plain, WriteCharacter(c) PROVE Contents'
  <2>1. /\ pc = "open" /\ pc' = "open" /\ message' = Append(message, c)
        /\ output' = gdb_packet_add_char(output, c, TRUE)
        /\ output \in Packet /\ Len(output.buffer) <= MAX_BUFFER_LENGTH
        /\ message \in Seq(Char) /\ c \in Char /\ Holds(output, message)
    BY <1>2, WriterAssumption DEF WriteCharacter, WriterInv, TypeOK, Contents
  <2> QED BY <2>1, HoldsMore DEF Contents
<1>3. ASSUME NEW c \in Encoded, WriteHex(c) PROVE Contents'
  <2>1. /\ pc = "open" /\ pc' = "open"
        /\ output \in Packet /\ Len(output.buffer) <= MAX_BUFFER_LENGTH
        /\ message \in Seq(Char) /\ c \in Char /\ Holds(output, message)
    BY <1>3, WriterAssumption DEF WriteHex, WriterInv, TypeOK, Contents
  <2>2. Holds(output', message')
    BY <1>3, <2>1, HoldsHex DEF WriteHex
  <2> QED BY <2>1, <2>2 DEF Contents
<1>4. CASE gdb_packet_write_stop
  BY <1>4, StopContents
<1>5. ASSUME NEW c \in {CHAR_ACK, CHAR_NACK}, gdb_packet_write_ack(c) PROVE Contents'
  BY <1>5, AckContents
<1>6. CASE Flush \/ FlushFails \/ FlushAsserts
  BY <1>6 DEF Flush, FlushFails, FlushAsserts, Contents
<1>7. CASE UNCHANGED vars
  BY <1>7 DEF vars, Contents, Holds, Pending
<1> QED BY <1>1, <1>2, <1>3, <1>4, <1>5, <1>6, <1>7 DEF Next

(* The packets told of, and the characters each stands for.                *)
ToldPacket == [kind : {"reply", "ack"}, text : Seq(Char)]
Frames     == [p \in ToldPacket |-> Framed(p)]

LEMMA FramesType == MapsInto(Frames, ToldPacket, Char)
<1>1. ASSUME NEW p \in ToldPacket PROVE Framed(p) \in Seq(Char)
  <2>1. p.text \in Seq(Char)
    BY DEF ToldPacket
  <2>2. CASE p.kind = "ack"
    BY <2>1, <2>2 DEF Framed
  <2>3. CASE p.kind # "ack"
    <3>1. Framed(p) = <<CHAR_START>> \o p.text \o <<CHAR_STOP>>
                      \o TwoDigits(SumOf(p.text) % 256) \o <<CHAR_NUL>>
      BY <2>3 DEF Framed, SumOf, Total
    <3>2. SumOf(p.text) % 256 \in Char
      <4>1. SumOf(p.text) \in Nat
        BY <2>1, SumOfType
      <4> QED BY <4>1 DEF Char
    <3>3. TwoDigits(SumOf(p.text) % 256) \in Seq(Char)
      BY <3>2, TwoDigitsType
    <3>4. <<CHAR_START>> \in Seq(Char) /\ <<CHAR_STOP>> \in Seq(Char)
          /\ <<CHAR_NUL>> \in Seq(Char)
      BY DEF CHAR_START, CHAR_STOP, CHAR_NUL, Char
    <3> QED BY <2>1, <3>1, <3>3, <3>4, ConcatProperties
  <2> QED BY <2>2, <2>3
<1> QED BY <1>1 DEF MapsInto, Frames

LEMMA WireAsMap ==
    told \in Seq(ToldPacket) => (WireIsFramed <=> wire = FlattenMap(Frames, told))
<1> SUFFICES ASSUME told \in Seq(ToldPacket)
             PROVE  WireIsFramed <=> wire = FlattenMap(Frames, told)
  OBVIOUS
<1>1. \A i \in DOMAIN told : told[i] \in ToldPacket
  BY LenProperties, ElementOfSeq
<1>2. \A i \in DOMAIN told : Framed(told[i]) = Frames[told[i]]
  BY <1>1 DEF Frames
<1>3. [i \in DOMAIN told |-> Framed(told[i])] = Mapped(Frames, told)
  BY <1>2 DEF Mapped
<1> QED BY <1>3 DEF WireIsFramed, FlattenMap

WireInv == WriterInv /\ Contents /\ WireIsFramed

LEMMA InitWire == Init => Contents /\ WireIsFramed
<1> SUFFICES ASSUME Init PROVE Contents /\ WireIsFramed
  OBVIOUS
<1>1. Contents
  BY DEF Init, Contents
<1>2. told = <<>> /\ wire = <<>>
  BY DEF Init
<1>3. told \in Seq(ToldPacket)
  BY <1>2
<1>4. wire = FlattenMap(Frames, told)
  BY <1>2, FlattenMapEmpty
<1> QED BY <1>1, <1>3, <1>4, WireAsMap

LEMMA WireStep == WireInv /\ [Next]_vars => WireIsFramed'
<1> SUFFICES ASSUME WireInv, [Next]_vars PROVE WireIsFramed'
  OBVIOUS
<1>1. CASE UNCHANGED <<told, wire>>
  BY <1>1 DEF WireInv, WireIsFramed
<1>2. CASE Flush
  <2>1. /\ told' = Append(told, Pending) /\ wire' = wire \o output.buffer
        /\ output.state = "COMPLETE" /\ output.buffer = Framed(Pending)
        /\ output \in Packet /\ message \in Seq(Char) /\ told \in Seq(ToldPacket)
        /\ Len(output.buffer) >= 1
    BY <1>2 DEF Flush, Complete, WireInv, WriterInv, TypeOK, Progress, Contents, ToldPacket
  <2>2. Pending \in ToldPacket
    <3>1. output.buffer[1] \in Char
      <4>1. output.buffer \in Seq(Char) /\ 1 \in 1..Len(output.buffer)
        BY <2>1, LenProperties DEF Packet
      <4> QED BY <4>1, ElementOfSeq
    <3>2. <<output.buffer[1]>> \in Seq(Char)
      BY <3>1
    <3> QED BY <2>1, <3>2 DEF Pending, Reply, Acknowledge, ToldPacket
  <2>3. Frames[Pending] = Framed(Pending)
    BY <2>2 DEF Frames
  <2>4. wire = FlattenMap(Frames, told)
    BY <2>1, WireAsMap DEF WireInv
  <2>5. told' \in Seq(ToldPacket)
    BY ONLY <2>1, <2>2, AppendProperties
  <2>6. FlattenMap(Frames, told') = FlattenMap(Frames, told) \o Frames[Pending]
    BY ONLY <2>1, <2>2, FramesType, FlattenMapAppend
  <2>7. wire' = FlattenMap(Frames, told')
    BY <2>1, <2>3, <2>4, <2>6
  <2>8. (told \in Seq(ToldPacket) => (WireIsFramed <=> wire = FlattenMap(Frames, told)))'
    BY WireAsMap, PTL
  <2> QED BY <2>5, <2>7, <2>8
<1> QED BY <1>1, <1>2
        DEF Next, gdb_packet_write_start, WriteCharacter, WriteHex, gdb_packet_write_stop,
            gdb_packet_write_ack, FlushFails, FlushAsserts, vars

(* Whatever fails or does not fit, what reaches the client is the packets  *)
(* meant for it, whole, framed and with the checksum of their payload.     *)
THEOREM WireIsFramedAlways == Spec => []WireIsFramed
<1>1. Spec => []WriterInv
  BY WriterInvariant
<1>2. WriterInv /\ Contents /\ WireIsFramed /\ [Next]_vars => (Contents /\ WireIsFramed)'
  BY ContentsStep, WireStep DEF WireInv
<1> QED BY <1>1, <1>2, InitWire, PTL DEF Spec
-----------------------------------------------------------------------------
(* What the firmware's own reader makes of a reply                         *)

Begun == [packet |-> gdb_packet_init("INBOUND"), result |-> "COLLECTING"]

Fed(text) ==
    LET feed(reader, character) == gdb_packet_read_char(reader.packet, character)
    IN  FoldLeft(feed, Begun, text)

(* h[t] is where the reader is after the characters at the positions t.    *)
Feeding(h, text, P) ==
    h = [t \in SUBSET P |->
           IF t = {} THEN Begun
           ELSE gdb_packet_read_char(h[t \ {Max(t)}].packet, text[Max(t)])]

LEMMA FedByRecursion ==
    ASSUME NEW text
    PROVE  Fed(text) = (CHOOSE h : Feeding(h, text, DOMAIN text))[DOMAIN text]
BY DEF Fed, Feeding, FoldLeft, MapThenFoldSet

LEMMA LastIsGreatest ==
    ASSUME NEW k \in Nat, NEW t, t \subseteq 1..k, k \in t
    PROVE  Max(t) = k
<1>1. \A y \in t : k >= y
  OBVIOUS
<1>2. ASSUME NEW x \in t, \A y \in t : x >= y PROVE x = k
  BY <1>2
<1> QED BY <1>1, <1>2 DEF Max

LEMMA FeedingAt ==
    ASSUME NEW h, NEW text, NEW P, Feeding(h, text, P)
    PROVE  \A t \in SUBSET P :
              h[t] = IF t = {} THEN Begun
                     ELSE gdb_packet_read_char(h[t \ {Max(t)}].packet, text[Max(t)])
BY DEF Feeding

(* By one position more: a set that has it ends in it.                     *)
LEMMA FeedingExtends ==
    ASSUME NEW text, NEW n \in Nat, NEW g, Feeding(g, text, 1..n)
    PROVE  \E h : Feeding(h, text, 1..(n + 1))
<1> DEFINE last == n + 1
           P == 1..n
           Q == 1..(n + 1)
           h == [t \in SUBSET Q |->
                   IF last \in t
                   THEN gdb_packet_read_char(g[t \ {last}].packet, text[last])
                   ELSE g[t]]
<1>1. last \in Nat /\ last \notin P /\ Q = P \cup {last}
  OBVIOUS
<1>2. \A t \in SUBSET Q : last \in t => Max(t) = last
  BY <1>1, LastIsGreatest
<1>0. Feeding(g, text, P)
  OBVIOUS
<1> HIDE DEF last, P, Q
<1>6. \A t \in SUBSET P : g[t] = IF t = {} THEN Begun
                                 ELSE gdb_packet_read_char(g[t \ {Max(t)}].packet, text[Max(t)])
  BY ONLY <1>0, FeedingAt
<1>3. ASSUME NEW t \in SUBSET Q
      PROVE  h[t] = IF t = {} THEN Begun
                    ELSE gdb_packet_read_char(h[t \ {Max(t)}].packet, text[Max(t)])
  <2>1. CASE last \in t
    <3>1. t \ {last} \in SUBSET Q /\ last \notin t \ {last} /\ t # {}
      BY <2>1
    <3>2. h[t \ {last}] = g[t \ {last}]
      BY <3>1
    <3> QED BY <1>2, <2>1, <3>1, <3>2
  <2>2. CASE last \notin t
    <3>1. t \in SUBSET P /\ t \ {Max(t)} \in SUBSET Q /\ last \notin t \ {Max(t)}
      BY <1>1, <2>2
    <3>2. h[t] = g[t] /\ h[t \ {Max(t)}] = g[t \ {Max(t)}]
      BY <2>2, <3>1
    <3>3. g[t] = IF t = {} THEN Begun
                 ELSE gdb_packet_read_char(g[t \ {Max(t)}].packet, text[Max(t)])
      BY <1>6, <3>1
    <3> QED BY <3>2, <3>3
  <2> QED BY <2>1, <2>2
<1>4. h = [t \in SUBSET Q |->
             IF t = {} THEN Begun
             ELSE gdb_packet_read_char(h[t \ {Max(t)}].packet, text[Max(t)])]
  BY <1>3
<1>5. Feeding(h, text, Q)
  BY <1>4, Zenon DEF Feeding
<1> QED BY <1>5 DEF Q

LEMMA FeedingExists ==
    ASSUME NEW text, NEW n \in Nat
    PROVE  \E h : Feeding(h, text, 1..n)
<1> DEFINE Bad == {k \in Nat : ~\E h : Feeding(h, text, 1..k)}
<1>1. ASSUME NEW k \in Bad PROVE \E j \in Bad : j < k
  <2>1. k # 0
    <3>1. 1..0 = {} /\ SUBSET {} = {{}}
      OBVIOUS
    <3> DEFINE h == [t \in SUBSET (1..0) |-> Begun]
    <3>2. h = [t \in SUBSET (1..0) |->
                 IF t = {} THEN Begun
                 ELSE gdb_packet_read_char(h[t \ {Max(t)}].packet, text[Max(t)])]
      BY <3>1
    <3>3. Feeding(h, text, 1..0)
      BY <3>2, Zenon DEF Feeding
    <3> QED BY <3>3
  <2>2. k - 1 \in Nat /\ (k - 1) + 1 = k
    BY <2>1
  <2>3. k - 1 \in Bad
    <3> SUFFICES ASSUME NEW g, Feeding(g, text, 1..(k - 1)) PROVE FALSE
      BY <2>2
    <3> QED BY <2>2, FeedingExtends
  <2> QED BY <2>2, <2>3
<1>2. Bad = {}
  <2> HIDE DEF Bad
  <2>1. Bad \in SUBSET Nat
    BY DEF Bad
  <2> QED BY <1>1, <2>1, NoLeast
<1> QED BY <1>2

(* The reader goes through the text from its first character to its last.  *)
LEMMA FedInOrder ==
    ASSUME NEW text, NEW n \in Nat, DOMAIN text = 1..n
    PROVE  \E h : /\ h[0] = Begun
                  /\ \A k \in 1..n : h[k] = gdb_packet_read_char(h[k - 1].packet, text[k])
                  /\ Fed(text) = h[n]
<1> DEFINE g == CHOOSE f : Feeding(f, text, 1..n)
           P == 1..n
           h == [k \in 0..n |-> g[1..k]]
<1>1. Feeding(g, text, P)
  BY FeedingExists, Zenon
<1>2. Fed(text) = g[1..n]
  BY FedByRecursion
<1> HIDE DEF g, P
<1>6. \A t \in SUBSET P : g[t] = IF t = {} THEN Begun
                                 ELSE gdb_packet_read_char(g[t \ {Max(t)}].packet, text[Max(t)])
  BY ONLY <1>1, FeedingAt
<1>3. h[0] = Begun
  <2>1. 1..0 = {} /\ {} \in SUBSET P
    OBVIOUS
  <2>2. g[{}] = Begun
    BY <1>6, <2>1
  <2> QED BY <2>1, <2>2
<1>4. ASSUME NEW k \in 1..n
      PROVE  h[k] = gdb_packet_read_char(h[k - 1].packet, text[k])
  <2> HIDE DEF h
  <2>1. /\ 1..k \in SUBSET P /\ 1..k # {} /\ k \in Nat /\ k \in 1..k
        /\ k \in 0..n /\ k - 1 \in 0..n
    BY DEF P
  <2>4. (1..k) \ {k} = 1..(k - 1)
    OBVIOUS
  <2>2. Max(1..k) = k
    BY <2>1, LastIsGreatest
  <2>3. g[1..k] = gdb_packet_read_char(g[(1..k) \ {Max(1..k)}].packet, text[Max(1..k)])
    BY <1>6, <2>1
  <2> QED BY <2>1, <2>2, <2>3, <2>4 DEF h
<1>5. h[n] = g[1..n]
  OBVIOUS
<1> HIDE DEF h
<1> QED BY <1>2, <1>3, <1>4, <1>5

(* What a reply's text is made of.                                         *)
Ordinary == Char \ {CHAR_START, CHAR_STOP, CHAR_CTRL_C}

(* The packet has b in its buffer, the sum s and the value r of the digits. *)
Reading(p, b, s, r, where) ==
    /\ p \in Packet
    /\ p.buffer = b /\ p.checksum = s /\ p.reference_checksum = r /\ p.state = where

Collected(p, b, s) == Reading(p, b, s, 0, "COLLECT")

LEMMA ReadingMore ==
    ASSUME NEW p, NEW b, NEW s, NEW r, NEW where, NEW c \in Char,
           Reading(p, b, s, r, where), Len(b) < MAX_BUFFER_LENGTH
    PROVE  /\ HasRoom(p)
           /\ Reading(gdb_packet_add_char(p, c, FALSE), Append(b, c), s, r, where)
           /\ Reading(gdb_packet_add_char(p, c, TRUE), Append(b, c), U8(s + c), r, where)
<1>1. HasRoom(p)
  BY DEF HasRoom, Reading
<1>2. /\ gdb_packet_add_char(p, c, FALSE)
            = [p EXCEPT !.buffer = Append(p.buffer, c), !.checksum = p.checksum]
      /\ gdb_packet_add_char(p, c, TRUE)
            = [p EXCEPT !.buffer = Append(p.buffer, c), !.checksum = U8(p.checksum + c)]
  BY <1>1 DEF gdb_packet_add_char
<1>3. Append(p.buffer, c) \in Seq(Char) /\ U8(p.checksum + c) \in Char
  BY AppendProperties, U8Type DEF Packet, Reading
<1> QED BY <1>1, <1>2, <1>3 DEF Reading, Packet

LEMMA ReadingElsewhere ==
    ASSUME NEW p, NEW b, NEW s, NEW r, NEW where, NEW x \in PacketState, NEW y \in Char,
           Reading(p, b, s, r, where)
    PROVE  /\ Reading([p EXCEPT !.state = x], b, s, r, x)
           /\ Reading([p EXCEPT !.reference_checksum = y, !.state = x], b, s, y, x)
BY DEF Reading, Packet

(* hex.c reads back the digit it wrote.                                    *)
LEMMA DigitRead ==
    ASSUME NEW n \in 0..15
    PROVE  /\ hex_nibble_from_char(n) \in Ordinary
           /\ char_from_hex_nibble(hex_nibble_from_char(n)) = n
<1> DEFINE d == hex_nibble_from_char(n)
<1>1. CASE n \in 0..9
  <2>1. d = n + 48
    BY <1>1 DEF hex_nibble_from_char, U8
  <2> HIDE DEF d
  <2>2. d \in Ordinary
    BY <1>1, <2>1 DEF Ordinary, Char, CHAR_START, CHAR_STOP, CHAR_CTRL_C
  <2>3. U8(d - 48) = n
    BY <1>1, <2>1 DEF U8
  <2> QED BY <1>1, <2>2, <2>3 DEF char_from_hex_nibble, d
<1>2. CASE n \in 10..15
  <2>1. d = n + 55
    BY <1>2 DEF hex_nibble_from_char, U8
  <2> HIDE DEF d
  <2>2. d \in Ordinary
    BY <1>2, <2>1 DEF Ordinary, Char, CHAR_START, CHAR_STOP, CHAR_CTRL_C
  <2>3. U8(d - 48) = n + 7 /\ U8(n + 7 - 7) = n
    BY <1>2, <2>1 DEF U8
  <2> QED BY <1>2, <2>2, <2>3 DEF char_from_hex_nibble, d
<1> QED BY <1>1, <1>2

(* A byte is its two nibbles.                                              *)
LEMMA ByteOfNibbles ==
    ASSUME NEW s \in Char
    PROVE  /\ GET_UPPER_NIBBLE(s) \in 0..15 /\ GET_LOWER_NIBBLE(s) \in 0..15
           /\ U8(GET_UPPER_NIBBLE(s) * 16) = GET_UPPER_NIBBLE(s) * 16
           /\ U8(GET_UPPER_NIBBLE(s) * 16 + GET_LOWER_NIBBLE(s)) = s
           /\ GET_UPPER_NIBBLE(s) * 16 \in Char
<1>1. /\ GET_UPPER_NIBBLE(s) = s \div 16 /\ GET_LOWER_NIBBLE(s) = s % 16
      /\ s \div 16 \in 0..15 /\ s % 16 \in 0..15 /\ (s \div 16) * 16 + (s % 16) = s
  BY DEF Char, GET_UPPER_NIBBLE, GET_LOWER_NIBBLE
<1> QED BY <1>1 DEF Char, U8

LEMMA ReadsStart ==
    Collected(gdb_packet_read_char(Begun.packet, CHAR_START).packet, <<CHAR_START>>, 0)
<1> DEFINE fresh  == Begun.packet
           added  == gdb_packet_add_char(fresh, CHAR_START, FALSE)
           opened == [added EXCEPT !.state = "COLLECT"]
<1>1. Reading(fresh, <<>>, 0, 0, "INIT")
  BY DEF gdb_packet_init, Reading, Begun, Packet, PacketType, PacketState, Char
<1>2. Len(<<>>) < MAX_BUFFER_LENGTH /\ CHAR_START \in Char /\ "COLLECT" \in PacketState
      /\ 0 \in Char
  BY BufferAssumption DEF CHAR_START, Char, PacketState
<1>3. Append(<<>>, CHAR_START) = <<CHAR_START>>
  OBVIOUS
<1> HIDE DEF fresh
<1>4. Reading(added, <<CHAR_START>>, 0, 0, "INIT")
  BY <1>1, <1>2, <1>3, ReadingMore
<1> HIDE DEF added
<1>5. Collected(opened, <<CHAR_START>>, 0)
  BY <1>2, <1>4, ReadingElsewhere DEF Collected
<1>6. StepPacket(fresh, CHAR_START) = opened
  BY DEF StepPacket, added,
         CHAR_START, CHAR_STOP, CHAR_CTRL_C, CHAR_ACK, CHAR_NACK
<1> HIDE DEF opened
<1>7. opened.state # "COMPLETE"
  BY <1>5 DEF Collected, Reading
<1> QED BY <1>5, <1>6, <1>7 DEF gdb_packet_read_char, fresh

LEMMA ReadsPayload ==
    ASSUME NEW p, NEW b, NEW s, NEW c \in Ordinary, Collected(p, b, s),
           Len(b) < MAX_BUFFER_LENGTH
    PROVE  Collected(gdb_packet_read_char(p, c).packet, Append(b, c), U8(s + c))
<1> DEFINE q == gdb_packet_add_char(p, c, TRUE)
<1>1. p.state = "COLLECT" /\ c \in Char
  BY DEF Collected, Reading, Ordinary
<1>2. Collected(q, Append(b, c), U8(s + c))
  BY <1>1, ReadingMore DEF Collected
<1>3. q.state # "COMPLETE"
  BY <1>2 DEF Collected, Reading
<1>4. gdb_packet_parse_char(p, c) = q
  BY <1>1 DEF gdb_packet_parse_char
<1> HIDE DEF q
<1>5. StepPacket(p, c) = q
  BY <1>1, <1>4 DEF StepPacket, Ordinary
<1> QED BY <1>2, <1>3, <1>5 DEF gdb_packet_read_char

(* The stop character and the two digits of the checksum so far.           *)
LEMMA ReadsClosing ==
    ASSUME NEW p, NEW b \in Seq(Char), NEW s \in Char, Collected(p, b, s),
           Len(b) + 4 <= MAX_BUFFER_LENGTH
    PROVE  LET upper  == hex_nibble_from_char(GET_UPPER_NIBBLE(s))
               lower  == hex_nibble_from_char(GET_LOWER_NIBBLE(s))
               first  == gdb_packet_read_char(p, CHAR_STOP).packet
               second == gdb_packet_read_char(first, upper).packet
               last   == gdb_packet_read_char(second, lower)
           IN  /\ last.result = "OK"
               /\ last.packet.buffer = b \o <<CHAR_STOP, upper, lower, CHAR_NUL>>
<1> DEFINE high   == GET_UPPER_NIBBLE(s)
           low    == GET_LOWER_NIBBLE(s)
           upper  == hex_nibble_from_char(high)
           lower  == hex_nibble_from_char(low)
           first  == gdb_packet_read_char(p, CHAR_STOP).packet
           second == gdb_packet_read_char(first, upper).packet
           last   == gdb_packet_read_char(second, lower)
           b1 == Append(b, CHAR_STOP)
           b2 == Append(b1, upper)
           b3 == Append(b2, lower)
           b4 == Append(b3, CHAR_NUL)
<1>1. high \in 0..15 /\ low \in 0..15 /\ high * 16 \in Char
  BY ByteOfNibbles
<1>2. /\ upper \in Ordinary /\ lower \in Ordinary
      /\ char_from_hex_nibble(upper) = high /\ char_from_hex_nibble(lower) = low
  BY <1>1, DigitRead
<1>3. CHAR_STOP \in Char /\ CHAR_NUL \in Char /\ upper \in Char /\ lower \in Char
  BY <1>2 DEF CHAR_STOP, CHAR_NUL, Char, Ordinary
<1>4. U8(high * 16) = high * 16 /\ U8(high * 16 + low) = s
  BY ByteOfNibbles
<1> HIDE DEF high, low, upper, lower
<1>5. /\ b1 \in Seq(Char) /\ Len(b1) = Len(b) + 1
      /\ b2 \in Seq(Char) /\ Len(b2) = Len(b) + 2
      /\ b3 \in Seq(Char) /\ Len(b3) = Len(b) + 3
      /\ Len(b) \in Nat /\ MAX_BUFFER_LENGTH \in Nat
  <2>1. Len(b) \in Nat /\ MAX_BUFFER_LENGTH \in Nat
    BY LenProperties, BufferAssumption
  <2>2. b1 \in Seq(Char) /\ Len(b1) = Len(b) + 1
    BY <1>3, AppendProperties
  <2> HIDE DEF b1
  <2>3. b2 \in Seq(Char) /\ Len(b2) = Len(b1) + 1
    BY <1>3, <2>2, AppendProperties
  <2> HIDE DEF b2
  <2>4. b3 \in Seq(Char) /\ Len(b3) = Len(b2) + 1
    BY <1>3, <2>3, AppendProperties
  <2> HIDE DEF b3
  <2> QED BY <2>1, <2>2, <2>3, <2>4
<1>6. b4 = b \o <<CHAR_STOP, upper, lower, CHAR_NUL>>
  BY <1>3
<1>10. /\ Len(b) < MAX_BUFFER_LENGTH /\ Len(b1) < MAX_BUFFER_LENGTH
       /\ Len(b2) < MAX_BUFFER_LENGTH /\ Len(b3) < MAX_BUFFER_LENGTH
  BY <1>5
<1> HIDE DEF b1, b2, b3, b4
<1>7. Reading(first, b1, s, 0, "CHECKSUM_UPPER")
  <2> DEFINE added == gdb_packet_add_char(p, CHAR_STOP, FALSE)
             q == [added EXCEPT !.state = "CHECKSUM_UPPER"]
  <2>1. Reading(added, b1, s, 0, "COLLECT")
    BY <1>3, <1>10, ReadingMore DEF Collected, b1
  <2> HIDE DEF added
  <2>2. Reading(q, b1, s, 0, "CHECKSUM_UPPER")
    <3>1. "CHECKSUM_UPPER" \in PacketState /\ 0 \in Char
      BY DEF PacketState, Char
    <3> QED BY <2>1, <3>1, ReadingElsewhere
  <2>3. StepPacket(p, CHAR_STOP) = q
    BY DEF StepPacket, added,
           CHAR_START, CHAR_STOP, CHAR_CTRL_C, CHAR_ACK, CHAR_NACK
  <2> HIDE DEF q
  <2>4. q.state # "COMPLETE"
    BY <2>2 DEF Reading
  <2> QED BY <2>2, <2>3, <2>4 DEF gdb_packet_read_char, first
<1> HIDE DEF first
<1>8. Reading(second, b2, s, high * 16, "CHECKSUM_LOWER")
  <2> DEFINE added == gdb_packet_add_char(first, upper, FALSE)
             q == [added EXCEPT !.reference_checksum = U8(char_from_hex_nibble(upper) * 16),
                                !.state = "CHECKSUM_LOWER"]
  <2>1. Reading(added, b2, s, 0, "CHECKSUM_UPPER")
    BY <1>3, <1>7, <1>10, ReadingMore DEF b2
  <2>2. first.state = "CHECKSUM_UPPER"
    BY <1>7 DEF Reading
  <2>3. gdb_packet_parse_char(first, upper) = q
    BY <2>2 DEF gdb_packet_parse_char
  <2> HIDE DEF added
  <2>4. Reading(q, b2, s, high * 16, "CHECKSUM_LOWER")
    <3>1. "CHECKSUM_LOWER" \in PacketState /\ high * 16 \in Char
      BY <1>1 DEF PacketState
    <3>2. U8(char_from_hex_nibble(upper) * 16) = high * 16
      BY <1>2, <1>4
    <3> QED BY <2>1, <3>1, <3>2, ReadingElsewhere
  <2> HIDE DEF q
  <2>5. StepPacket(first, upper) = q
    BY <1>2, <2>2, <2>3 DEF StepPacket, Ordinary
  <2>6. q.state # "COMPLETE"
    BY <2>4 DEF Reading
  <2> QED BY <2>4, <2>5, <2>6 DEF gdb_packet_read_char, second
<1> HIDE DEF second
<1>9. last.result = "OK" /\ last.packet.buffer = b4
  <2> DEFINE added == gdb_packet_add_char(second, lower, FALSE)
             q == [added EXCEPT
                     !.reference_checksum = U8(@ + char_from_hex_nibble(lower)),
                     !.state = "COMPLETE"]
             r == gdb_packet_add_char(q, CHAR_NUL, FALSE)
  <2>1. Reading(added, b3, s, high * 16, "CHECKSUM_LOWER")
    BY <1>3, <1>8, <1>10, ReadingMore DEF b3
  <2>2. second.state = "CHECKSUM_LOWER"
    BY <1>8 DEF Reading
  <2>3. gdb_packet_parse_char(second, lower) = q
    BY <2>2 DEF gdb_packet_parse_char
  <2> HIDE DEF added
  <2>4. Reading(q, b3, s, s, "COMPLETE")
    <3>1. U8(added.reference_checksum + char_from_hex_nibble(lower)) = s
      BY <1>2, <1>4, <2>1 DEF Reading
    <3>2. "COMPLETE" \in PacketState
      BY DEF PacketState
    <3>3. Reading([added EXCEPT !.reference_checksum = s, !.state = "COMPLETE"],
                  b3, s, s, "COMPLETE")
      BY <2>1, <3>2, ReadingElsewhere
    <3> QED BY <3>1, <3>3
  <2> HIDE DEF q
  <2>5. StepPacket(second, lower) = q
    BY <1>2, <2>2, <2>3 DEF StepPacket, Ordinary
  <2>6. Reading(r, b4, s, s, "COMPLETE")
    BY <1>3, <1>10, <2>4, ReadingMore DEF b4
  <2> HIDE DEF r
  <2>7. q.state = "COMPLETE" /\ r.buffer = b4 /\ r.reference_checksum = r.checksum
    BY <2>4, <2>6 DEF Reading
  <2> QED BY <2>5, <2>7 DEF gdb_packet_read_char, r
<1> QED BY <1>6, <1>9 DEF first, second, upper, lower, high, low

LEMMA PrefixMore ==
    ASSUME NEW s \in Seq(Char), NEW k \in 1..Len(s)
    PROVE  /\ SubSeq(s, 1, k - 1) \in Seq(Char) /\ Len(SubSeq(s, 1, k - 1)) = k - 1
           /\ Append(SubSeq(s, 1, k - 1), s[k]) = SubSeq(s, 1, k)
<1> DEFINE u == SubSeq(s, 1, k - 1)
           v == SubSeq(s, 1, k)
           a == Append(u, s[k])
<1>1. Len(s) \in Nat /\ \A i \in 1..Len(s) : s[i] \in Char
  BY LenProperties, ElementOfSeq
<1>2. /\ \A i \in 1..(k - 1) : s[i] \in Char
      /\ \A i \in 1..k : s[i] \in Char
      /\ k \in Nat /\ k - 1 \in Nat
  BY <1>1
<1>3. u \in Seq(Char) /\ Len(u) = k - 1 /\ \A i \in 1..(k - 1) : u[i] = s[i]
  BY <1>2, SubSeqProperties
<1>4. v \in Seq(Char) /\ Len(v) = k /\ \A i \in 1..k : v[i] = s[i]
  BY <1>2, SubSeqProperties
<1> HIDE DEF u, v
<1>5. /\ a \in Seq(Char) /\ Len(a) = k
      /\ \A i \in 1..(k - 1) : a[i] = u[i]
      /\ a[k] = s[k]
  <2>1. s[k] \in Char
    BY <1>2
  <2> QED BY <1>2, <1>3, <2>1, AppendProperties
<1> HIDE DEF a
<1>6. \A i \in 1..Len(a) : a[i] = v[i]
  BY <1>2, <1>3, <1>4, <1>5
<1>7. a = v
  BY <1>4, <1>5, <1>6, SeqEqual
<1> QED BY <1>3, <1>7 DEF a, u, v

LEMMA AppendBehind ==
    ASSUME NEW x \in Seq(Char), NEW u \in Seq(Char), NEW c \in Char
    PROVE  Append(x \o u, c) = x \o Append(u, c)
<1>1. \A a \in Seq(Char) : Append(a, c) = a \o <<c>>
  BY AppendIsConcat
<1>2. <<c>> \in Seq(Char) /\ x \o u \in Seq(Char)
  BY ConcatProperties
<1>3. (x \o u) \o <<c>> = x \o (u \o <<c>>)
  BY <1>2, CharsAssociative, Zenon
<1> QED BY <1>1, <1>2, <1>3

(* After the '$' and k characters of the message.                          *)
LEMMA ReadsText ==
    ASSUME NEW m \in Seq(Char), \A i \in 1..Len(m) : m[i] \in Ordinary,
           NEW text, text[1] = CHAR_START, \A i \in 1..Len(m) : text[i + 1] = m[i],
           NEW n \in Nat, Len(m) + 1 <= n, Len(m) + 1 < MAX_BUFFER_LENGTH,
           NEW h, h[0] = Begun,
           \A k \in 1..n : h[k] = gdb_packet_read_char(h[k - 1].packet, text[k])
    PROVE  Collected(h[Len(m) + 1].packet, <<CHAR_START>> \o m, U8(SumOf(m)))
<1> DEFINE Good(k) == Collected(h[k + 1].packet, <<CHAR_START>> \o SubSeq(m, 1, k),
                                U8(Total(m, 1..k)))
           Bad == {k \in 0..Len(m) : ~Good(k)}
<1>1. Len(m) \in Nat /\ \A i \in 1..Len(m) : m[i] \in Char /\ m[i] \in Nat
  <2>1. Len(m) \in Nat /\ \A i \in 1..Len(m) : m[i] \in Char
    BY LenProperties, ElementOfSeq
  <2>2. Char \subseteq Nat
    BY DEF Char
  <2> QED BY ONLY <2>1, <2>2
<1>2. Good(0)
  <2>1. h[1] = gdb_packet_read_char(Begun.packet, CHAR_START)
    <3>1. 1 \in 1..n /\ 1 - 1 = 0
      BY <1>1
    <3>2. h[1] = gdb_packet_read_char(h[1 - 1].packet, text[1])
      BY <3>1
    <3> QED BY <3>1, <3>2
  <2>2. Total(m, 1..0) = 0 /\ U8(0) = 0
    <3>1. 1..0 = {}
      OBVIOUS
    <3> QED BY <3>1, TotalEmpty DEF U8
  <2>3. SubSeq(m, 1, 0) = <<>> /\ <<CHAR_START>> \o <<>> = <<CHAR_START>>
    BY SubSeqEmpty
  <2>4. Collected(h[1].packet, <<CHAR_START>> \o SubSeq(m, 1, 0), U8(Total(m, 1..0)))
    BY ONLY <2>1, <2>2, <2>3, ReadsStart
  <2>5. 0 + 1 = 1
    OBVIOUS
  <2> QED BY <2>4, <2>5
<1>3. ASSUME NEW k \in 1..Len(m), Good(k - 1) PROVE Good(k)
  <2> DEFINE b == <<CHAR_START>> \o SubSeq(m, 1, k - 1)
             s == U8(Total(m, 1..(k - 1)))
             p == h[k].packet
  <2>1. k \in Nat /\ k - 1 \in Nat /\ (k - 1) + 1 = k /\ k + 1 \in 1..n /\ (k + 1) - 1 = k
    BY <1>1
  <2>2. Collected(p, b, s)
    BY <1>3, <2>1
  <2>3. h[k + 1] = gdb_packet_read_char(p, m[k])
    <3>1. h[k + 1] = gdb_packet_read_char(h[(k + 1) - 1].packet, text[k + 1])
      BY <2>1
    <3> QED BY <2>1, <3>1
  <2>4. /\ SubSeq(m, 1, k - 1) \in Seq(Char) /\ Len(SubSeq(m, 1, k - 1)) = k - 1
        /\ Append(SubSeq(m, 1, k - 1), m[k]) = SubSeq(m, 1, k)
    BY PrefixMore
  <2>5. <<CHAR_START>> \in Seq(Char) /\ Len(<<CHAR_START>>) = 1
    BY DEF CHAR_START, Char
  <2>6. Len(b) < MAX_BUFFER_LENGTH
    <3>1. Len(b) = 1 + (k - 1)
      BY <2>4, <2>5, ConcatProperties
    <3> QED BY <1>1, <3>1, BufferAssumption
  <2>7. Append(b, m[k]) = <<CHAR_START>> \o SubSeq(m, 1, k)
    <3>1. m[k] \in Char
      BY <1>1
    <3> QED BY <2>4, <2>5, <3>1, AppendBehind
  <2>8. U8(s + m[k]) = U8(Total(m, 1..k))
    <3> DEFINE j == k - 1
    <3>1. j \in Nat /\ j + 1 = k /\ \A i \in 1..(j + 1) : m[i] \in Nat
      BY <1>1, <2>1
    <3>2. Total(m, 1..j) \in Nat
      <4>1. IsFiniteSet(1..j)
        <5>1. 1 \in Int /\ j \in Int
          BY <3>1
        <5> QED BY <5>1, FS_Interval
      <4>2. \A i \in 1..j : m[i] \in Nat
        BY <3>1
      <4> QED BY <4>1, <4>2, TotalType
    <3> HIDE DEF j
    <3>3. Total(m, 1..(j + 1)) = Total(m, 1..j) + m[j + 1]
      BY <3>1, TotalNext
    <3>4. \A x, y \in Nat : U8(x + y) = U8(U8(x) + y)
      BY DEF U8
    <3>5. m[k] \in Nat
      BY <1>1
    <3>6. U8(Total(m, 1..j) + m[k]) = U8(U8(Total(m, 1..j)) + m[k])
      BY ONLY <3>2, <3>4, <3>5
    <3>7. Total(m, 1..k) = Total(m, 1..j) + m[k]
      BY ONLY <3>1, <3>3
    <3>8. s = U8(Total(m, 1..j))
      BY DEF j
    <3> QED BY ONLY <3>6, <3>7, <3>8
  <2> HIDE DEF b, s, p
  <2>9. Collected(gdb_packet_read_char(p, m[k]).packet, Append(b, m[k]), U8(s + m[k]))
    <3>1. m[k] \in Ordinary
      OBVIOUS
    <3> QED BY <2>2, <2>6, <3>1, ReadsPayload
  <2> QED BY <2>3, <2>7, <2>8, <2>9
<1>4. ASSUME NEW k \in Bad PROVE \E j \in Bad : j < k
  <2> HIDE DEF Good
  <2>1. k # 0
    BY <1>2
  <2>2. k \in 1..Len(m) /\ k - 1 \in 0..Len(m) /\ k - 1 < k
    BY <1>1, <2>1
  <2>3. ~Good(k - 1)
    BY <1>3, <2>2
  <2> QED BY <2>2, <2>3
<1>5. Bad = {}
  <2>1. Bad \in SUBSET Nat
    OBVIOUS
  <2> HIDE DEF Bad
  <2> QED BY <1>4, <2>1, NoLeast
<1>6. Good(Len(m))
  <2> HIDE DEF Good
  <2> QED BY <1>1, <1>5
<1>7. SubSeq(m, 1, Len(m)) = m
  BY SubSeqFull
<1>8. DOMAIN m = 1..Len(m)
  BY LenProperties
<1> QED BY <1>6, <1>7, <1>8 DEF SumOf

(* A reply, as it is in the output buffer, read without its NUL.           *)
LEMMA ReadsReply ==
    ASSUME NEW m \in Seq(Char), \A i \in 1..Len(m) : m[i] \in Ordinary,
           NEW s, s = U8(SumOf(m)),
           NEW B, B = (<<CHAR_START>> \o m)
                      \o <<CHAR_STOP, hex_nibble_from_char(GET_UPPER_NIBBLE(s)),
                           hex_nibble_from_char(GET_LOWER_NIBBLE(s)), CHAR_NUL>>,
           Len(B) <= MAX_BUFFER_LENGTH
    PROVE  LET read == Fed(SubSeq(B, 1, Len(B) - 1))
           IN  read.result = "OK" /\ read.packet.buffer = B
<1> DEFINE upper == hex_nibble_from_char(GET_UPPER_NIBBLE(s))
           lower == hex_nibble_from_char(GET_LOWER_NIBBLE(s))
           x == <<CHAR_START>> \o m
           closing == <<CHAR_STOP, upper, lower, CHAR_NUL>>
           text == SubSeq(B, 1, Len(B) - 1)
           l == Len(m)
           n == Len(m) + 4
<1>1. s \in Char
  <2>1. SumOf(m) \in Int
    BY SumOfType
  <2> QED BY <2>1, U8Range
<1>2. upper \in Char /\ lower \in Char
  BY <1>1, Nibbles, NibbleDigit
<1> HIDE DEF upper, lower
<1>3. /\ closing \in Seq(Char) /\ Len(closing) = 4
      /\ closing[1] = CHAR_STOP /\ closing[2] = upper /\ closing[3] = lower
  BY <1>2 DEF CHAR_STOP, CHAR_NUL, Char
<1>4. /\ l \in Nat /\ x \in Seq(Char) /\ Len(x) = l + 1 /\ x[1] = CHAR_START
      /\ \A i \in 1..l : x[i + 1] = m[i]
  <2>1. l \in Nat
    BY LenProperties
  <2>2. <<CHAR_START>> \in Seq(Char) /\ Len(<<CHAR_START>>) = 1
    BY DEF CHAR_START, Char
  <2>3. /\ x \in Seq(Char) /\ Len(x) = 1 + l
        /\ \A i \in 1..(1 + l) : x[i] = IF i <= 1 THEN <<CHAR_START>>[i] ELSE m[i - 1]
    BY <2>2, ConcatProperties
  <2> HIDE DEF x
  <2>4. \A i \in 1..l : i + 1 \in 1..(1 + l) /\ ~(i + 1 <= 1) /\ (i + 1) - 1 = i
    BY <2>1
  <2> QED BY <2>1, <2>3, <2>4
<1> HIDE DEF x, closing
<1>5. /\ B \in Seq(Char) /\ Len(B) = l + 5
      /\ \A i \in 1..(l + 1) : B[i] = x[i]
      /\ B[l + 2] = CHAR_STOP /\ B[l + 3] = upper /\ B[l + 4] = lower
  <2>1. B = x \o closing
    BY DEF x, closing, upper, lower
  <2>2. /\ B \in Seq(Char) /\ Len(B) = (l + 1) + 4
        /\ \A i \in 1..((l + 1) + 4) : B[i] = IF i <= l + 1 THEN x[i] ELSE closing[i - (l + 1)]
    <3>1. /\ B \in Seq(Char) /\ Len(B) = Len(x) + Len(closing)
          /\ \A i \in 1..(Len(x) + Len(closing)) :
                B[i] = IF i <= Len(x) THEN x[i] ELSE closing[i - Len(x)]
      BY ONLY <1>3, <1>4, <2>1, ConcatProperties
    <3> QED BY ONLY <1>3, <1>4, <3>1
  <2>3. /\ l + 2 \in 1..((l + 1) + 4) /\ ~(l + 2 <= l + 1) /\ (l + 2) - (l + 1) = 1
        /\ l + 3 \in 1..((l + 1) + 4) /\ ~(l + 3 <= l + 1) /\ (l + 3) - (l + 1) = 2
        /\ l + 4 \in 1..((l + 1) + 4) /\ ~(l + 4 <= l + 1) /\ (l + 4) - (l + 1) = 3
        /\ \A i \in 1..(l + 1) : i \in 1..((l + 1) + 4) /\ i <= l + 1
        /\ (l + 1) + 4 = l + 5
    BY <1>4
  <2> HIDE DEF l
  <2> QED BY ONLY <1>3, <2>2, <2>3
<1>6. /\ n \in Nat /\ Len(B) - 1 = n /\ \A i \in 1..n : i \in 1..Len(B)
  BY <1>4, <1>5
<1>7. DOMAIN text = 1..n /\ \A i \in 1..n : text[i] = B[i]
  <2>1. \A i \in 1..n : B[i] \in Char
    BY <1>5, <1>6, ElementOfSeq
  <2>2. /\ text \in Seq(Char) /\ Len(text) = n
        /\ \A i \in 1..n : text[i] = B[i]
    <3>1. text = SubSeq(B, 1, n)
      BY <1>6
    <3> HIDE DEF text
    <3>2. n \in Int /\ 1 \in Int /\ n - 1 + 1 = n /\ (1 <= n)
      BY <1>4
    <3> HIDE DEF n
    <3>3. /\ SubSeq(B, 1, n) \in Seq(Char) /\ Len(SubSeq(B, 1, n)) = n - 1 + 1
          /\ \A i \in 1..(n - 1 + 1) : SubSeq(B, 1, n)[i] = B[1 + i - 1]
      BY ONLY <2>1, <3>2, SubSeqProperties
    <3>4. \A i \in 1..n : 1 + i - 1 = i
      BY <3>2
    <3> QED BY ONLY <3>1, <3>2, <3>3, <3>4
  <2> QED BY <2>2, LenProperties
<1>8. /\ text[1] = CHAR_START /\ \A i \in 1..l : text[i + 1] = m[i]
      /\ text[l + 2] = CHAR_STOP /\ text[l + 3] = upper /\ text[l + 4] = lower
  <2>1. /\ 1 \in 1..n /\ 1 \in 1..(l + 1)
        /\ \A i \in 1..l : i + 1 \in 1..n /\ i + 1 \in 1..(l + 1)
        /\ l + 2 \in 1..n /\ l + 3 \in 1..n /\ l + 4 \in 1..n
    BY <1>4
  <2> HIDE DEF text, l, n
  <2> QED BY ONLY <1>4, <1>5, <1>7, <2>1
<1> HIDE DEF text
<1>9. PICK h : /\ h[0] = Begun
               /\ \A k \in 1..n : h[k] = gdb_packet_read_char(h[k - 1].packet, text[k])
               /\ Fed(text) = h[n]
  BY <1>6, <1>7, FedInOrder
<1>10. l + 5 <= MAX_BUFFER_LENGTH /\ MAX_BUFFER_LENGTH \in Nat
  BY <1>5, BufferAssumption
<1>11. Collected(h[l + 1].packet, x, s)
  <2>1. l + 1 <= n /\ l + 1 < MAX_BUFFER_LENGTH
    BY <1>4, <1>10
  <2> QED BY <1>6, <1>8, <1>9, <2>1, ReadsText DEF x
<1>12. /\ h[l + 2] = gdb_packet_read_char(h[l + 1].packet, CHAR_STOP)
       /\ h[l + 3] = gdb_packet_read_char(h[l + 2].packet, upper)
       /\ h[l + 4] = gdb_packet_read_char(h[l + 3].packet, lower)
  <2>1. /\ l + 2 \in 1..n /\ (l + 2) - 1 = l + 1
        /\ l + 3 \in 1..n /\ (l + 3) - 1 = l + 2
        /\ l + 4 \in 1..n /\ (l + 4) - 1 = l + 3
    BY <1>4
  <2> HIDE DEF n, l
  <2> QED BY <1>8, <1>9, <2>1
<1>13. h[l + 4].result = "OK" /\ h[l + 4].packet.buffer = x \o closing
  <2>1. Len(x) + 4 <= MAX_BUFFER_LENGTH
    BY <1>4, <1>10
  <2>2. x \in Seq(Char)
    BY <1>4
  <2> DEFINE p      == h[l + 1].packet
             first  == gdb_packet_read_char(p, CHAR_STOP).packet
             second == gdb_packet_read_char(first, upper).packet
             last   == gdb_packet_read_char(second, lower)
  <2>3. last = h[l + 4]
    BY <1>12
  <2>4. Collected(p, x, s)
    BY <1>11
  <2> HIDE DEF p
  <2>5. last.result = "OK" /\ last.packet.buffer = x \o closing
    BY ONLY <1>1, <2>1, <2>2, <2>4, ReadsClosing DEF upper, lower, closing, first, second, last
  <2> QED BY <2>3, <2>5
<1> QED BY <1>9, <1>13 DEF x, closing, upper, lower, text

(* The text of a reply has no character that the reader takes for one of   *)
(* the protocol's, and a complete packet is one that waits for its flush.  *)
Readable ==
    /\ \A i \in 1..Len(message) : message[i] \in Ordinary
    /\ output.state = "COMPLETE" => pc = "flush"

LEMMA MoreOrdinary ==
    ASSUME NEW m \in Seq(Char), \A i \in 1..Len(m) : m[i] \in Ordinary, NEW c \in Ordinary
    PROVE  /\ Append(m, c) \in Seq(Char)
           /\ \A i \in 1..Len(Append(m, c)) : Append(m, c)[i] \in Ordinary
<1> DEFINE a == Append(m, c)
<1>1. c \in Char /\ Len(m) \in Nat
  BY LenProperties DEF Ordinary
<1>2. /\ a \in Seq(Char) /\ Len(a) = Len(m) + 1
      /\ \A i \in 1..Len(m) : a[i] = m[i]
      /\ a[Len(m) + 1] = c
  BY <1>1, AppendProperties
<1> HIDE DEF a
<1>3. \A i \in 1..Len(a) : i \in 1..Len(m) \/ i = Len(m) + 1
  BY <1>1, <1>2
<1> QED BY <1>2, <1>3 DEF a

LEMMA ReadableStep == WriterInv /\ Readable /\ [Next]_vars => Readable'
<1> SUFFICES ASSUME WriterInv, Readable, [Next]_vars PROVE Readable'
  OBVIOUS
<1>0. Len(<<>>) = 0
  OBVIOUS
<1>1. CASE gdb_packet_write_start
  <2>1. output' = Opened /\ message' = <<>>
    BY <1>1 DEF gdb_packet_write_start, WriterInv, Progress
  <2>2. output'.state # "COMPLETE"
    BY <2>1, OpenedPacket
  <2> QED BY <1>0, <2>1, <2>2 DEF Readable
<1>2. ASSUME NEW c \in Plain, WriteCharacter(c) PROVE Readable'
  <2>1. /\ message \in Seq(Char) /\ c \in Ordinary /\ message' = Append(message, c)
        /\ \A i \in 1..Len(message) : message[i] \in Ordinary
    BY <1>2, WriterAssumption DEF WriteCharacter, WriterInv, TypeOK, Readable, Ordinary
  <2>2. output'.state # "COMPLETE"
    <3>1. /\ output \in Packet /\ Len(output.buffer) <= MAX_BUFFER_LENGTH
          /\ output.state = "COLLECT" /\ c \in Char
      BY <1>2, <2>1 DEF WriteCharacter, WriterInv, TypeOK, Progress, Ordinary
    <3>2. gdb_packet_add_char(output, c, TRUE).state = output.state
      BY ONLY <3>1, AddChar, TRUE \in BOOLEAN
    <3> QED BY <1>2, <3>1, <3>2 DEF WriteCharacter
  <2> QED BY <2>1, <2>2, MoreOrdinary DEF Readable
<1>3. ASSUME NEW c \in Encoded, WriteHex(c) PROVE Readable'
  <2> DEFINE upper == hex_nibble_from_char(GET_UPPER_NIBBLE(c))
             lower == hex_nibble_from_char(GET_LOWER_NIBBLE(c))
             half  == gdb_packet_add_char(output, upper, TRUE)
  <2>1. /\ c \in Char /\ message \in Seq(Char)
        /\ \A i \in 1..Len(message) : message[i] \in Ordinary
        /\ output \in Packet /\ Len(output.buffer) <= MAX_BUFFER_LENGTH
        /\ output.state = "COLLECT"
    BY <1>3, WriterAssumption DEF WriteHex, WriterInv, TypeOK, Progress, Readable
  <2>2. /\ message' = message \o TwoDigits(c)
        /\ output' = gdb_packet_add_char(half, lower, TRUE)
    BY <1>3 DEF WriteHex
  <2>3. upper \in Ordinary /\ lower \in Ordinary /\ TwoDigits(c) = <<upper, lower>>
    BY <2>1, ByteOfNibbles, DigitRead, DigitsWritten
  <2> HIDE DEF upper, lower
  <2>4. message' = Append(Append(message, upper), lower)
    BY <2>1, <2>2, <2>3
  <2>5. \A i \in 1..Len(message') : message'[i] \in Ordinary
    <3> DEFINE longer == Append(message, upper)
    <3>1. longer \in Seq(Char) /\ \A i \in 1..Len(longer) : longer[i] \in Ordinary
      BY ONLY <2>1, <2>3, MoreOrdinary
    <3> HIDE DEF longer
    <3>2. \A i \in 1..Len(Append(longer, lower)) : Append(longer, lower)[i] \in Ordinary
      BY ONLY <2>3, <3>1, MoreOrdinary
    <3> QED BY <2>4, <3>2 DEF longer
  <2>6. output'.state = "COLLECT"
    <3>1. upper \in Char /\ lower \in Char
      BY <2>3 DEF Ordinary
    <3>2. /\ half \in Packet /\ Len(half.buffer) <= MAX_BUFFER_LENGTH
          /\ half.state = "COLLECT"
      BY ONLY <2>1, <3>1, AddChar, TRUE \in BOOLEAN
    <3> HIDE DEF half
    <3>3. gdb_packet_add_char(half, lower, TRUE).state = half.state
      BY ONLY <3>1, <3>2, AddChar, TRUE \in BOOLEAN
    <3> QED BY <2>2, <3>2, <3>3
  <2> QED BY <2>5, <2>6 DEF Readable
<1>4. CASE gdb_packet_write_stop
  BY <1>4 DEF gdb_packet_write_stop, Readable
<1>5. ASSUME NEW c \in {CHAR_ACK, CHAR_NACK}, gdb_packet_write_ack(c) PROVE Readable'
  BY <1>0, <1>5 DEF gdb_packet_write_ack, Readable
<1>6. CASE Flush \/ FlushFails
  <2>1. output' = [output EXCEPT !.state = "SENT"] /\ output \in Packet /\ message' = message
    BY <1>6 DEF Flush, FlushFails, WriterInv, TypeOK
  <2>2. output'.state = "SENT"
    BY <2>1 DEF Packet
  <2> QED BY <2>1, <2>2 DEF Readable
<1>7. CASE FlushAsserts
  BY <1>7 DEF FlushAsserts, Complete, Readable
<1>8. CASE UNCHANGED vars
  BY <1>8 DEF vars, Readable
<1> QED BY <1>1, <1>2, <1>3, <1>4, <1>5, <1>6, <1>7, <1>8 DEF Next

LEMMA RepliesAreAccepted == WriterInv /\ Contents /\ Readable => ReaderAcceptsReply
<1> SUFFICES ASSUME WriterInv, Contents, Readable,
                    output.state = "COMPLETE", output.buffer[1] = CHAR_START
             PROVE  LET read == Fed(SubSeq(output.buffer, 1, Len(output.buffer) - 1))
                    IN  read.result = "OK" /\ read.packet.buffer = output.buffer
  BY DEF ReaderAcceptsReply, Fed, Begun
<1> DEFINE B == output.buffer
           m == message
           s == U8(SumOf(m))
           x == <<CHAR_START>> \o m
<1>1. /\ m \in Seq(Char) /\ \A i \in 1..Len(m) : m[i] \in Ordinary
      /\ Len(B) <= MAX_BUFFER_LENGTH
  BY DEF Readable, WriterInv, TypeOK
<1>2. B = Framed(Reply(m))
  BY DEF Readable, Contents, Pending
<1>3. B = x \o <<CHAR_STOP>> \o TwoDigits(SumOf(m) % 256) \o <<CHAR_NUL>>
  BY <1>2, FramedReply
<1>4. s \in Char /\ s = SumOf(m) % 256
  <2>1. SumOf(m) \in Int
    BY <1>1, SumOfType
  <2> QED BY <2>1, U8Range DEF U8
<1>5. x \in Seq(Char)
  <2>1. <<CHAR_START>> \in Seq(Char)
    BY DEF CHAR_START, Char
  <2> QED BY <1>1, <2>1, ConcatProperties
<1> HIDE DEF s, x
<1> DEFINE upper == hex_nibble_from_char(GET_UPPER_NIBBLE(s))
           lower == hex_nibble_from_char(GET_LOWER_NIBBLE(s))
<1>6. TwoDigits(SumOf(m) % 256) = <<upper, lower>> /\ upper \in Char /\ lower \in Char
  BY <1>4, DigitsWritten, Nibbles, NibbleDigit
<1> HIDE DEF upper, lower
<1>7. B = x \o <<CHAR_STOP, upper, lower, CHAR_NUL>>
  <2>1. x \o <<CHAR_STOP>> \o <<upper, lower>> \o <<CHAR_NUL>>
           = x \o <<CHAR_STOP, upper, lower, CHAR_NUL>>
    BY ONLY <1>5, <1>6, BehindMessage
  <2> QED BY ONLY <1>3, <1>6, <2>1
<1> HIDE DEF B, m
<1>8. LET read == Fed(SubSeq(B, 1, Len(B) - 1))
      IN  read.result = "OK" /\ read.packet.buffer = B
  BY <1>1, <1>7, ReadsReply DEF s, x, upper, lower
<1> QED BY <1>8 DEF B

(* What the writer completes, the reader of the same firmware accepts, for *)
(* every text and buffer length: the hex conversions and the two checksum  *)
(* rules agree.                                                            *)
THEOREM ReaderAcceptsReplyAlways == Spec => []ReaderAcceptsReply
<1>1. Init => Readable
  <2>1. Len(<<>>) = 0
    OBVIOUS
  <2> QED BY <2>1 DEF Init, Readable, gdb_packet_init
<1>2. WriterInv /\ Contents /\ Readable /\ [Next]_vars => (Contents /\ Readable)'
  BY ContentsStep, ReadableStep
<1> QED BY <1>1, <1>2, InitWire, WriterInvariant, RepliesAreAccepted, PTL DEF Spec
=============================================================================
