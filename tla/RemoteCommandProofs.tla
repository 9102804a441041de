------------------------ MODULE RemoteCommandProofs ------------------------
(***************************************************************************)
(* What holds of a monitor command for all digits a client may send, every *)
(* length of the buffer on the stack and every number of arguments.        *)
(***************************************************************************)
EXTENDS RemoteCommand, CommonLemmas

Pairs == hex_length \div 2

LEMMA HexLength ==
    ASSUME Len(digits) \in Nat
    PROVE  /\ hex_length = Len(digits) + 1
           /\ Pairs \in Nat
           /\ \/ Len(digits) = 2 * Pairs
              \/ Len(digits) = 2 * Pairs - 1
           /\ Len(digits) % 2 = 1 <=> Len(digits) = 2 * Pairs - 1
           /\ Len(digits) % 2 # 1 => Len(digits) \div 2 = Pairs
           /\ Fits <=> Pairs < MESSAGE_MAX_LENGTH
<1>1. hex_length = Len(digits) + 1
  BY DEF hex_length, payload_length, PREFIX_LENGTH, OVERHEAD_LENGTH
<1>2. MESSAGE_MAX_LENGTH \in Nat
  BY RemoteAssumption
<1> QED BY <1>1, <1>2 DEF Pairs, Fits

(* The '#' behind the digits is no digit.                                  *)
LEMMA StopIsNoNibble == ~IsHexNibble(35)
<1>1. \A x \in 0..255 : x % 256 = x
  OBVIOUS
<1>2. \A x \in Int : (x + 256) % 256 = x % 256
  OBVIOUS
<1>3. 35 - 48 + 256 = 243 /\ 35 - 48 \in Int
  OBVIOUS
<1>4. U8(35 - 48) = 243
  <2>1. \A x \in Int : x + 256 = 243 => x % 256 = 243
    BY <1>1, <1>2
  <2> QED BY <1>3, <2>1 DEF U8
<1>5. U8(243 - 7) = 236 /\ U8(236 - 32) = 204
  BY <1>1 DEF U8
<1> QED BY <1>4, <1>5 DEF IsHexNibble, char_from_hex_nibble

LEMMA ValueType ==
    ASSUME NEW i \in Nat, digits \in Seq(Char), ValidPair(i)
    PROVE  Value(i) \in Char
<1>1. \A k \in Nat : Hexadecimal(k) \in Char
  <2> SUFFICES ASSUME NEW k \in Nat PROVE Hexadecimal(k) \in Char
    OBVIOUS
  <2>1. Len(digits) \in Nat /\ \A j \in 1..Len(digits) : digits[j] \in Char
    BY LenProperties
  <2> QED BY <2>1 DEF Hexadecimal, Char
<1>2. /\ char_from_hex_nibble(Hexadecimal(2 * i)) \in Char
      /\ char_from_hex_nibble(Hexadecimal(2 * i + 1)) \in Char
  <2>1. 2 * i \in Nat /\ 2 * i + 1 \in Nat
    OBVIOUS
  <2> QED BY <1>1, <2>1, NibbleType
<1> DEFINE upper == char_from_hex_nibble(Hexadecimal(2 * i))
           lower == char_from_hex_nibble(Hexadecimal(2 * i + 1))
<1>3. upper \in Char /\ lower \in Char
  BY <1>2
<1>4. upper <= 15 /\ lower <= 15 /\ Value(i) = 16 * upper + lower
  BY DEF Value, ValidPair, IsHexNibble
<1> HIDE DEF upper, lower
<1> QED BY <1>3, <1>4 DEF Char

(* What the decoder accepts, character by character.                       *)
LEMMA NibbleCharacters ==
    \A c \in Char : IsHexNibble(c) <=> c \in HexDigits \cup TakenForDigits
<1> SUFFICES ASSUME NEW c \in Char
             PROVE  IsHexNibble(c) <=> c \in HexDigits \cup TakenForDigits
  OBVIOUS
<1>1. /\ \A x \in 0..255 : U8(x) = x
      /\ \A x \in -256..-1 : U8(x) = x + 256
  <2>1. \A x \in 0..255 : x % 256 = x
    OBVIOUS
  <2>2. \A x \in Int : (x + 256) % 256 = x % 256
    OBVIOUS
  <2>3. \A x \in -256..-1 : x \in Int /\ x + 256 \in 0..255
    OBVIOUS
  <2>4. \A x \in -256..-1 : x % 256 = x + 256
    BY <2>1, <2>2, <2>3
  <2> QED BY <2>1, <2>4 DEF U8
<1> DEFINE digit == U8(c - 48)
           upper == IF digit > 9 THEN U8(digit - 7) ELSE digit
           nibble == IF upper > 16 THEN U8(upper - 32) ELSE upper
<1>2. digit = IF c < 48 THEN c + 208 ELSE c - 48
  BY <1>1 DEF Char
<1> HIDE DEF digit
<1>3. upper = IF digit > 9 THEN digit - 7 ELSE digit
  BY <1>1, <1>2 DEF Char
<1> HIDE DEF upper
<1>4. nibble = IF upper > 31 THEN upper - 32 ELSE IF upper > 16 THEN upper + 224 ELSE upper
  BY <1>1, <1>2, <1>3 DEF Char
<1>5. IsHexNibble(c) <=> nibble <= 15
  BY DEF IsHexNibble, char_from_hex_nibble, nibble, upper, digit
<1> HIDE DEF nibble
<1> QED BY <1>2, <1>3, <1>4, <1>5 DEF Char, HexDigits, TakenForDigits

(* A text is decodable exactly when it fits and every pair of the loop is  *)
(* valid.                                                                  *)
LEMMA PairsAreDigits ==
    ASSUME digits \in Seq(Char)
    PROVE  Undecodable <=> ~Fits \/ \E i \in 0..(Pairs - 1) : ~ValidPair(i)
<1>1. Len(digits) \in Nat /\ DOMAIN digits = 1..Len(digits)
  BY LenProperties
<1> DEFINE L == Len(digits)
<1> HIDE DEF L
<1>2. /\ Pairs \in Nat /\ L \in Nat
      /\ L = 2 * Pairs \/ L = 2 * Pairs - 1
      /\ L % 2 = 1 <=> L = 2 * Pairs - 1
      /\ L % 2 # 1 => L \div 2 = Pairs
      /\ Fits <=> Pairs < MESSAGE_MAX_LENGTH
  BY <1>1, HexLength DEF L
<1>3. ASSUME L = 2 * Pairs - 1 PROVE Undecodable /\ \E i \in 0..(Pairs - 1) : ~ValidPair(i)
  <2>1. Undecodable
    BY <1>2, <1>3 DEF Undecodable, IsUndecodable, L
  <2>2. Pairs - 1 \in 0..(Pairs - 1) /\ 2 * (Pairs - 1) + 1 = L
    BY <1>2, <1>3
  <2>3. Hexadecimal(2 * (Pairs - 1) + 1) = 35
    BY <1>2, <2>2 DEF Hexadecimal, L
  <2>4. ~ValidPair(Pairs - 1)
    BY <2>3, StopIsNoNibble DEF ValidPair
  <2> QED BY <2>1, <2>2, <2>4
<1>4. ASSUME L = 2 * Pairs
      PROVE  (\E j \in 1..L : ~IsHexNibble(digits[j])) <=> \E i \in 0..(Pairs - 1) : ~ValidPair(i)
  <2>1. ASSUME NEW i \in 0..(Pairs - 1)
        PROVE  /\ Hexadecimal(2 * i) = digits[2 * i + 1]
               /\ Hexadecimal(2 * i + 1) = digits[2 * i + 2]
               /\ 2 * i + 1 \in 1..L /\ 2 * i + 2 \in 1..L
    BY <1>2, <1>4 DEF Hexadecimal, L
  <2>2. ASSUME NEW j \in 1..L
        PROVE  \E i \in 0..(Pairs - 1) : j = 2 * i + 1 \/ j = 2 * i + 2
    <3>1. (j - 1) \div 2 \in 0..(Pairs - 1)
      BY <1>2, <1>4
    <3>2. j = 2 * ((j - 1) \div 2) + 1 \/ j = 2 * ((j - 1) \div 2) + 2
      BY <1>2
    <3> QED BY <3>1, <3>2
  <2>3. ASSUME NEW i \in 0..(Pairs - 1), ~ValidPair(i)
        PROVE  \E j \in 1..L : ~IsHexNibble(digits[j])
    BY <2>1, <2>3 DEF ValidPair
  <2>4. ASSUME NEW j \in 1..L, ~IsHexNibble(digits[j])
        PROVE  \E i \in 0..(Pairs - 1) : ~ValidPair(i)
    <3>1. PICK i \in 0..(Pairs - 1) : j = 2 * i + 1 \/ j = 2 * i + 2
      BY <2>2
    <3>2. ~ValidPair(i)
      BY <2>1, <2>4, <3>1 DEF ValidPair
    <3> QED BY <3>2
  <2> QED BY <2>3, <2>4
<1>5. ASSUME L = 2 * Pairs
      PROVE  Undecodable <=> Pairs >= MESSAGE_MAX_LENGTH \/ \E j \in 1..L : ~IsHexNibble(digits[j])
  <2>1. L % 2 # 1 /\ L \div 2 = Pairs
    BY <1>2, <1>5
  <2>2. \A j \in 1..L : digits[j] \in Char
    BY <1>1, LenProperties DEF L
  <2>3. \A j \in 1..L : IsHexNibble(digits[j]) <=> digits[j] \in HexDigits \cup TakenForDigits
    BY <2>2, NibbleCharacters
  <2> QED BY <1>1, <2>1, <2>3 DEF Undecodable, IsUndecodable, L
<1>6. MESSAGE_MAX_LENGTH \in Nat
  BY RemoteAssumption
<1>7. CASE L = 2 * Pairs
  <2>1. Undecodable <=> Pairs >= MESSAGE_MAX_LENGTH \/ \E i \in 0..(Pairs - 1) : ~ValidPair(i)
    BY <1>4, <1>5, <1>7
  <2>2. Fits <=> ~(Pairs >= MESSAGE_MAX_LENGTH)
    BY <1>2, <1>6
  <2> QED BY <2>1, <2>2
<1> QED BY <1>2, <1>3, <1>7

-----------------------------------------------------------------------------
(* The string that starts in a cell goes up to the next NUL, or to the end *)
(* of the buffer.                                                          *)
LEMMA EndFacts ==
    ASSUME NEW i \in 0..MESSAGE_MAX_LENGTH
    PROVE  /\ EndFrom(i) \in i..MESSAGE_MAX_LENGTH
           /\ EndFrom(i) # MESSAGE_MAX_LENGTH => EndFrom(i) \in Cells /\ message[EndFrom(i)] = 0
           /\ \A j \in i..(EndFrom(i) - 1) : j \in Cells /\ message[j] # 0
<1> DEFINE Zeroes == {j \in Cells : j >= i /\ message[j] = 0} \cup {MESSAGE_MAX_LENGTH}
<1>1. MESSAGE_MAX_LENGTH \in Nat
  BY RemoteAssumption
<1>2. Zeroes \in SUBSET Nat /\ Zeroes # {}
  BY <1>1 DEF Cells
<1>3. Min(Zeroes) \in Zeroes /\ \A y \in Zeroes : Min(Zeroes) <= y
  BY <1>2, MinIsLeast
<1>4. EndFrom(i) = Min(Zeroes)
  BY DEF EndFrom
<1> DEFINE z == EndFrom(i)
<1> HIDE DEF z
<1>5. z \in Zeroes /\ \A y \in Zeroes : z <= y
  BY <1>3, <1>4 DEF z
<1>6. z \in i..MESSAGE_MAX_LENGTH
  BY <1>1, <1>5 DEF Cells
<1>7. \A j \in i..(z - 1) : j \in Cells /\ message[j] # 0
  BY <1>1, <1>5, <1>6 DEF Cells
<1> QED BY <1>1, <1>5, <1>6, <1>7 DEF z

FirstCell == Min(WordsFrom(cursor))

LastCell ==
    Min({j \in FirstCell..EndFrom(FirstCell) : j = EndFrom(FirstCell) \/ ~InWord(j)})

(* strtok_r finds the first run of characters that are no delimiters.      *)
LEMMA TokenFacts ==
    ASSUME cursor \in 0..MESSAGE_MAX_LENGTH, WordsFrom(cursor) # {}
    PROVE  /\ FirstCell \in Cells /\ FirstCell >= cursor /\ FirstCell < EndFrom(cursor)
           /\ InWord(FirstCell)
           /\ \A j \in cursor..(FirstCell - 1) : ~InWord(j)
           /\ LastCell \in FirstCell..EndFrom(FirstCell)
           /\ LastCell = EndFrom(FirstCell) \/ ~InWord(LastCell)
           /\ \A j \in FirstCell..(LastCell - 1) : InWord(j)
<1> DEFINE stop == EndFrom(cursor)
           first == FirstCell
           end == EndFrom(FirstCell)
           Ends == {j \in first..end : j = end \/ ~InWord(j)}
<1>1. MESSAGE_MAX_LENGTH \in Nat
  BY RemoteAssumption
<1>2. stop \in cursor..MESSAGE_MAX_LENGTH
  BY EndFacts
<1> HIDE DEF stop
<1>3. WordsFrom(cursor) = {j \in cursor..(stop - 1) : InWord(j)}
  BY DEF WordsFrom, stop
<1>4. WordsFrom(cursor) \in SUBSET Nat
  BY <1>1, <1>2, <1>3
<1>5. first \in WordsFrom(cursor) /\ \A y \in WordsFrom(cursor) : first <= y
  BY <1>4, MinIsLeast DEF FirstCell
<1> HIDE DEF first
<1>6. /\ first \in Cells /\ first >= cursor /\ first < stop /\ InWord(first)
      /\ \A j \in cursor..(first - 1) : ~InWord(j)
  BY <1>1, <1>2, <1>3, <1>5 DEF Cells
<1>7. end \in first..MESSAGE_MAX_LENGTH
  <2>1. FirstCell \in 0..MESSAGE_MAX_LENGTH
    BY <1>1, <1>6 DEF Cells, first
  <2> QED BY <2>1, EndFacts DEF first
<1> HIDE DEF end
<1>8. Ends \in SUBSET Nat /\ end \in Ends
  BY <1>1, <1>6, <1>7 DEF Cells
<1>9. Min(Ends) \in Ends /\ \A y \in Ends : Min(Ends) <= y
  BY <1>8, MinIsLeast
<1>10. LastCell = Min(Ends)
  BY DEF LastCell, first, end
<1> DEFINE last == LastCell
<1> HIDE DEF last
<1>11. last \in Ends /\ \A y \in Ends : last <= y
  BY <1>9, <1>10 DEF last
<1>12. /\ last \in first..end
       /\ last = end \/ ~InWord(last)
       /\ \A j \in first..(last - 1) : InWord(j)
  BY <1>1, <1>6, <1>7, <1>11 DEF Cells
<1> QED BY <1>6, <1>12 DEF first, end, last, stop

LEMMA TokenStep ==
    ASSUME Token
    PROVE  /\ pc = "split" /\ WordsFrom(cursor) # {} /\ Len(argv) < MAX_ARG_COUNT
           /\ argv' = Append(argv, FirstCell)
           /\ \/ LastCell = EndFrom(FirstCell) /\ cursor' = LastCell /\ UNCHANGED message
              \/ /\ LastCell # EndFrom(FirstCell)
                 /\ cursor' = LastCell + 1
                 /\ message' = [message EXCEPT ![LastCell] = 0]
           /\ UNCHANGED <<pc, digits, value_index, reply>>
BY DEF Token, FirstCell, LastCell, RoomForArgument

-----------------------------------------------------------------------------
(* While the decoder runs, the pairs behind it were valid and their values *)
(* are in the buffer.                                                      *)
ConvertInv ==
    /\ pc = "convert" =>
          /\ argv = <<>> /\ cursor = 0 /\ reply = NoReply
          /\ value_index <= Pairs
          /\ value_index > 0 => Fits
          /\ \A i \in 0..(value_index - 1) : ValidPair(i) /\ message[i] = Value(i)
    /\ pc = "execute" => argv # <<>>
    /\ HaltsExactlyUndecodable

DecodeInv == TypeOK /\ ConvertInv

LEMMA SameDigits ==
    ASSUME UNCHANGED digits
    PROVE  /\ Pairs' = Pairs /\ Fits' = Fits
           /\ Undecodable' = Undecodable
           /\ \A i : ValidPair(i)' = ValidPair(i) /\ Value(i)' = Value(i)
BY DEF Pairs, Fits, hex_length, payload_length, Undecodable, ValidPair, Value, Hexadecimal

LEMMA SizeFacts ==
    ASSUME TypeOK
    PROVE  /\ MESSAGE_MAX_LENGTH \in Nat \ {0} /\ MAX_ARG_COUNT \in Nat \ {0}
           /\ Len(argv) \in Nat /\ Len(digits) \in Nat /\ Pairs \in Nat
           /\ Fits <=> Pairs < MESSAGE_MAX_LENGTH
           /\ Pairs = hex_length \div 2
<1>1. Len(argv) \in Nat /\ Len(digits) \in Nat
  BY LenProperties DEF TypeOK
<1> QED BY <1>1, HexLength, RemoteAssumption DEF Pairs

LEMMA DecodeInit == Init => DecodeInv
<1> SUFFICES ASSUME Init PROVE DecodeInv
  OBVIOUS
<1> USE DEF Init
<1>1. digits \in Seq(Char)
  <2>1. Seq(Char \ {35}) \subseteq Seq(Char)
    OBVIOUS
  <2> QED BY <2>1, RemoteAssumption
<1>2. <<>> \in Seq(Cells) /\ Len(<<>>) = 0
  OBVIOUS
<1>3. TypeOK
  BY <1>1, <1>2, RemoteAssumption DEF TypeOK
<1>4. Pairs \in Nat
  BY <1>3, SizeFacts
<1> QED BY <1>3, <1>4 DEF DecodeInv, ConvertInv, HaltsExactlyUndecodable

LEMMA ConvertStep == DecodeInv /\ Convert => DecodeInv'
<1> SUFFICES ASSUME DecodeInv, Convert PROVE DecodeInv'
  OBVIOUS
<1>0. /\ TypeOK /\ ConvertInv
      /\ MESSAGE_MAX_LENGTH \in Nat \ {0} /\ MAX_ARG_COUNT \in Nat \ {0}
      /\ Len(argv) \in Nat /\ Pairs \in Nat
      /\ Fits <=> Pairs < MESSAGE_MAX_LENGTH
  BY SizeFacts DEF DecodeInv
<1>1. /\ pc = "convert" /\ Fits /\ value_index < Pairs /\ ValidPair(value_index)
      /\ message' = [message EXCEPT ![value_index] = Value(value_index)]
      /\ value_index' = value_index + 1
      /\ UNCHANGED <<pc, digits, cursor, argv, reply>>
  BY DEF Convert, Converting, Pairs
<1>2. /\ value_index \in Nat /\ value_index \in Cells
      /\ value_index + 1 \in 0..(MESSAGE_MAX_LENGTH - 1)
  <2>1. value_index \in 0..(MESSAGE_MAX_LENGTH - 1)
    BY <1>0 DEF TypeOK
  <2> QED BY <1>0, <1>1, <2>1 DEF Cells
<1>3. Value(value_index) \in Char
  BY <1>0, <1>1, <1>2, ValueType DEF TypeOK
<1>4. TypeOK'
  BY <1>0, <1>1, <1>2, <1>3 DEF TypeOK
<1>5. \A i \in 0..value_index : ValidPair(i) /\ message'[i] = Value(i)
  <2> SUFFICES ASSUME NEW i \in 0..value_index PROVE ValidPair(i) /\ message'[i] = Value(i)
    OBVIOUS
  <2>1. CASE i = value_index
    BY <1>0, <1>1, <1>2, <2>1 DEF TypeOK
  <2>2. CASE i # value_index
    <3>1. i \in 0..(value_index - 1) /\ i \in Cells
      BY <1>0, <1>2, <2>2 DEF Cells
    <3> QED BY <1>0, <1>1, <1>2, <2>2, <3>1 DEF TypeOK, ConvertInv
  <2> QED BY <2>1, <2>2
<1>6. (value_index + 1) - 1 = value_index /\ value_index + 1 <= Pairs
  BY <1>0, <1>1, <1>2
<1>7. ConvertInv'
  BY <1>0, <1>1, <1>5, <1>6, SameDigits DEF ConvertInv, HaltsExactlyUndecodable
<1> QED BY <1>4, <1>7 DEF DecodeInv

LEMMA ConvertHaltsStep == DecodeInv /\ ConvertHalts => DecodeInv'
<1> SUFFICES ASSUME DecodeInv, ConvertHalts PROVE DecodeInv'
  OBVIOUS
<1>0. /\ TypeOK /\ ConvertInv
      /\ MESSAGE_MAX_LENGTH \in Nat \ {0} /\ MAX_ARG_COUNT \in Nat \ {0}
      /\ Len(argv) \in Nat /\ Pairs \in Nat
      /\ Fits <=> Pairs < MESSAGE_MAX_LENGTH
  BY SizeFacts DEF DecodeInv
<1>1. TypeOK'
  BY <1>0 DEF ConvertHalts, TypeOK
<1>2. ~Fits \/ \E i \in 0..(Pairs - 1) : ~ValidPair(i)
  <2>1. ~Fits \/ (value_index < Pairs /\ ~ValidPair(value_index))
    BY DEF ConvertHalts, Converting, Pairs
  <2>2. value_index \in 0..(MESSAGE_MAX_LENGTH - 1)
    BY <1>0 DEF TypeOK
  <2>3. value_index < Pairs => value_index \in 0..(Pairs - 1)
    BY <1>0, <2>2
  <2> QED BY <2>1, <2>3
<1>3. Undecodable
  BY <1>0, <1>2, PairsAreDigits DEF TypeOK
<1>4. UNCHANGED digits /\ pc' = "halted"
  BY DEF ConvertHalts
<1> QED BY <1>1, <1>3, <1>4, SameDigits DEF DecodeInv, ConvertInv, HaltsExactlyUndecodable

(* When the loop has ended, every pair was valid.                          *)
LEMMA TerminateFacts ==
    ASSUME DecodeInv, Terminate
    PROVE  /\ pc = "convert" /\ Fits /\ value_index = Pairs /\ ~Undecodable
           /\ Pairs \in Cells
           /\ message' = [message EXCEPT ![Pairs] = 0]
           /\ pc' = "split"
           /\ UNCHANGED <<digits, value_index, cursor, argv, reply>>
<1> USE DEF DecodeInv
<1>1. /\ pc = "convert" /\ Fits /\ value_index = Pairs
      /\ message' = [message EXCEPT ![Pairs] = 0]
      /\ pc' = "split"
      /\ UNCHANGED <<digits, value_index, cursor, argv, reply>>
  BY DEF Terminate, Pairs
<1>2. Pairs \in Cells
  BY <1>1, SizeFacts DEF Cells
<1>3. ~Undecodable
  BY <1>1, PairsAreDigits DEF ConvertInv, TypeOK
<1> QED BY <1>1, <1>2, <1>3

LEMMA TerminateStep == DecodeInv /\ Terminate => DecodeInv'
<1> SUFFICES ASSUME DecodeInv, Terminate PROVE DecodeInv'
  OBVIOUS
<1>0. /\ TypeOK /\ ConvertInv /\ ~Undecodable
      /\ message' = [message EXCEPT ![Pairs] = 0]
      /\ pc' = "split"
      /\ UNCHANGED <<digits, value_index, cursor, argv, reply>>
  BY TerminateFacts DEF DecodeInv
<1>1. TypeOK'
  <2>1. 0 \in Char
    BY DEF Char
  <2>2. message' \in [Cells -> Char \cup {Junk}]
    BY <1>0, <2>1 DEF TypeOK
  <2> QED BY <1>0, <2>2 DEF TypeOK
<1> QED BY <1>0, <1>1, SameDigits DEF DecodeInv, ConvertInv, HaltsExactlyUndecodable

LEMMA TokenDecode == DecodeInv /\ Token => DecodeInv'
<1> SUFFICES ASSUME DecodeInv, Token PROVE DecodeInv'
  OBVIOUS
<1>0. /\ TypeOK /\ ConvertInv
      /\ MESSAGE_MAX_LENGTH \in Nat \ {0} /\ MAX_ARG_COUNT \in Nat \ {0}
      /\ Len(argv) \in Nat /\ Pairs \in Nat
      /\ Fits <=> Pairs < MESSAGE_MAX_LENGTH
  BY SizeFacts DEF DecodeInv
<1>1. cursor \in 0..MESSAGE_MAX_LENGTH
  BY <1>0 DEF TypeOK
<1>2. /\ FirstCell \in Cells /\ LastCell \in FirstCell..EndFrom(FirstCell)
      /\ EndFrom(FirstCell) \in FirstCell..MESSAGE_MAX_LENGTH
  <2>1. FirstCell \in Cells /\ LastCell \in FirstCell..EndFrom(FirstCell)
    BY <1>1, TokenStep, TokenFacts
  <2>2. FirstCell \in 0..MESSAGE_MAX_LENGTH
    BY <1>0, <2>1 DEF Cells
  <2> QED BY <2>1, <2>2, EndFacts
<1>3. /\ LastCell \in 0..MESSAGE_MAX_LENGTH
      /\ LastCell # EndFrom(FirstCell) =>
            LastCell \in Cells /\ LastCell + 1 \in 0..MESSAGE_MAX_LENGTH
  BY <1>0, <1>2 DEF Cells
<1>4. argv' \in Seq(Cells) /\ Len(argv') <= MAX_ARG_COUNT
  <2>1. argv \in Seq(Cells)
    BY <1>0 DEF TypeOK
  <2>2. argv' = Append(argv, FirstCell) /\ Len(argv) < MAX_ARG_COUNT
    BY TokenStep
  <2>3. argv' \in Seq(Cells) /\ Len(argv') = Len(argv) + 1
    BY <1>2, <2>1, <2>2, AppendProperties
  <2> QED BY <1>0, <2>2, <2>3
<1>5. /\ pc = "split"
      /\ UNCHANGED <<pc, digits, value_index, reply>>
      /\ \/ LastCell = EndFrom(FirstCell) /\ cursor' = LastCell /\ message' = message
         \/ /\ LastCell # EndFrom(FirstCell)
            /\ cursor' = LastCell + 1
            /\ message' = [message EXCEPT ![LastCell] = 0]
  BY TokenStep
<1>6. message \in [Cells -> Char \cup {Junk}] /\ 0 \in Char
  <2>1. 0 \in Char
    BY DEF Char
  <2> QED BY <1>0, <2>1 DEF TypeOK
<1>7. cursor' \in 0..MESSAGE_MAX_LENGTH /\ message' \in [Cells -> Char \cup {Junk}]
  BY <1>3, <1>5, <1>6
<1>8. TypeOK'
  BY <1>0, <1>4, <1>5, <1>7 DEF TypeOK
<1> QED BY <1>0, <1>5, <1>8, SameDigits DEF DecodeInv, ConvertInv, HaltsExactlyUndecodable

LEMMA TokenizedDecode == DecodeInv /\ Tokenized => DecodeInv'
<1> SUFFICES ASSUME DecodeInv, Tokenized PROVE DecodeInv'
  OBVIOUS
<1>1. TypeOK'
  BY DEF DecodeInv, TypeOK, Tokenized
<1> QED BY <1>1, SameDigits DEF DecodeInv, ConvertInv, HaltsExactlyUndecodable, Tokenized

LEMMA ExecuteDecode == DecodeInv /\ (Execute \/ ExecuteHalts) => DecodeInv'
<1> SUFFICES ASSUME DecodeInv, Execute \/ ExecuteHalts PROVE DecodeInv'
  OBVIOUS
<1>0. TypeOK /\ ConvertInv
  BY DEF DecodeInv
<1>1. CASE Execute
  <2>1. reply' \in {"", "hex:help", "hex:version"}
    <3>1. Matching \in SUBSET {1, 2}
      BY DEF Matching, Subcommands
    <3>2. Matching # {} => Min(Matching) \in {1, 2}
      <4>1. Matching \in SUBSET Nat
        BY <3>1
      <4> QED BY <3>1, <4>1, MinIsLeast
    <3>3. Subcommands[1].reply = "hex:help" /\ Subcommands[2].reply = "hex:version"
      BY DEF Subcommands
    <3>4. reply' = IF Matching = {} THEN "" ELSE Subcommands[Min(Matching)].reply
      BY <1>1 DEF Execute
    <3> QED BY <3>2, <3>3, <3>4
  <2>2. TypeOK'
    BY <1>0, <1>1, <2>1 DEF Execute, TypeOK
  <2>3. pc = "execute" /\ pc' = "returned" /\ UNCHANGED digits
    BY <1>1 DEF Execute
  <2> QED BY <1>0, <2>2, <2>3, SameDigits
          DEF DecodeInv, ConvertInv, HaltsExactlyUndecodable
<1>2. CASE ExecuteHalts
  <2>1. TypeOK'
    BY <1>0, <1>2 DEF ExecuteHalts, TypeOK
  <2>2. /\ pc = "execute" /\ message[argv[1]] = 36 /\ pc' = "halted"
        /\ UNCHANGED <<digits, argv, message>>
    BY <1>2 DEF ExecuteHalts
  <2>3. Len(argv) > 0
    <3>1. argv \in Seq(Cells)
      BY <1>0 DEF TypeOK
    <3>2. argv # <<>>
      BY <1>0, <2>2 DEF ConvertInv
    <3> QED BY <3>1, <3>2, EmptySeq, LenProperties
  <2> QED BY <2>1, <2>2, <2>3, SameDigits
          DEF DecodeInv, ConvertInv, HaltsExactlyUndecodable
<1> QED BY <1>1, <1>2

LEMMA DecodeInvariant == Spec => []DecodeInv
<1>1. ASSUME DecodeInv, [Next]_vars PROVE DecodeInv'
  <2>1. CASE Next
    BY <1>1, <2>1, ConvertStep, ConvertHaltsStep, TerminateStep, TokenDecode, TokenizedDecode,
       ExecuteDecode DEF Next
  <2>2. CASE UNCHANGED vars
    <3>1. UNCHANGED <<pc, digits, message, value_index, cursor, argv, reply>>
      BY <2>2 DEF vars
    <3>2. TypeOK'
      BY <1>1, <3>1 DEF DecodeInv, TypeOK
    <3> QED BY <1>1, <3>1, <3>2, SameDigits DEF DecodeInv, ConvertInv, HaltsExactlyUndecodable
  <2> QED BY <1>1, <2>1, <2>2
<1> QED BY <1>1, DecodeInit, PTL DEF Spec

(* TypeOK: whatever the digits, decoder and tokenizer stay inside the      *)
(* arrays on the stack, the buffer of the text and that of the arguments.  *)
THEOREM TypeOKAlways == Spec => []TypeOK
<1>1. DecodeInv => TypeOK
  BY DEF DecodeInv
<1> QED BY <1>1, DecodeInvariant, PTL

(* HaltsExactlyUndecodable: str_from_hex stops the system for exactly the  *)
(* texts of odd length, without room for their NUL, or with a character    *)
(* outside the hex digits, ':'..'@' and 'W'..'`'; behind it only a name    *)
(* that begins with '$' does.                                              *)
THEOREM HaltsExactlyUndecodableAlways == Spec => []HaltsExactlyUndecodable
<1>1. DecodeInv => HaltsExactlyUndecodable
  BY DEF DecodeInv, ConvertInv
<1> QED BY <1>1, DecodeInvariant, PTL

-----------------------------------------------------------------------------
(* The words of a text t: where they start, and where they end.            *)
StartsOf(t) ==
    {i \in DOMAIN t : /\ t[i] \notin Delimiters
                      /\ i = 1 \/ t[i - 1] \in Delimiters}

EndOf(t, i) == Min({j \in i..Len(t) : t[j] \in Delimiters} \cup {Len(t) + 1})

StartsBefore(t, i) == {r \in StartsOf(t) : r < i}

StartsUpTo(t, c) == {r \in StartsOf(t) : r <= c}

WordAt(t, k) ==
    LET i == CHOOSE s \in StartsOf(t) : Cardinality(StartsBefore(t, s)) = k - 1
    IN  SubSeq(t, i, EndOf(t, i) - 1)

LEMMA WordsByStart ==
    ASSUME NEW t
    PROVE  WordsOf(t) = [k \in 1..Cardinality(StartsOf(t)) |-> WordAt(t, k)]
BY DEF WordsOf, WordAt, StartsOf, EndOf, StartsBefore

LEMMA EndOfFacts ==
    ASSUME NEW t \in Seq(Char), NEW i \in 1..Len(t)
    PROVE  /\ EndOf(t, i) \in i..(Len(t) + 1)
           /\ EndOf(t, i) <= Len(t) => t[EndOf(t, i)] \in Delimiters
           /\ \A j \in i..(EndOf(t, i) - 1) : t[j] \notin Delimiters
<1> DEFINE Stops == {j \in i..Len(t) : t[j] \in Delimiters} \cup {Len(t) + 1}
           end == EndOf(t, i)
<1>1. Len(t) \in Nat
  BY LenProperties
<1>2. Stops \in SUBSET Nat /\ Stops # {}
  BY <1>1
<1>3. Min(Stops) \in Stops /\ \A y \in Stops : Min(Stops) <= y
  BY <1>2, MinIsLeast
<1>4. end = Min(Stops)
  BY DEF EndOf
<1> HIDE DEF end
<1>5. end \in Stops /\ \A y \in Stops : end <= y
  BY <1>3, <1>4
<1>6. end \in i..(Len(t) + 1) /\ (end <= Len(t) => t[end] \in Delimiters)
  BY <1>1, <1>5
<1>7. \A j \in i..(end - 1) : t[j] \notin Delimiters
  BY <1>1, <1>5, <1>6
<1> QED BY <1>6, <1>7 DEF end

LEMMA EndOfIs ==
    ASSUME NEW t \in Seq(Char), NEW i \in 1..Len(t), NEW end \in i..(Len(t) + 1),
           end <= Len(t) => t[end] \in Delimiters,
           \A j \in i..(end - 1) : t[j] \notin Delimiters
    PROVE  EndOf(t, i) = end
<1> DEFINE e == EndOf(t, i)
<1>1. /\ Len(t) \in Nat
      /\ e \in i..(Len(t) + 1)
      /\ e <= Len(t) => t[e] \in Delimiters
      /\ \A j \in i..(e - 1) : t[j] \notin Delimiters
  BY EndOfFacts, LenProperties
<1> HIDE DEF e
<1>2. ~(e < end)
  <2> SUFFICES ASSUME e < end PROVE FALSE
    OBVIOUS
  <2>1. e <= Len(t) /\ e \in i..(end - 1)
    BY <1>1
  <2> QED BY <1>1, <2>1
<1>3. ~(end < e)
  <2> SUFFICES ASSUME end < e PROVE FALSE
    OBVIOUS
  <2>1. end <= Len(t) /\ end \in i..(e - 1)
    BY <1>1
  <2> QED BY <1>1, <2>1
<1> QED BY <1>1, <1>2, <1>3 DEF e

LEMMA StartsFinite ==
    ASSUME NEW t \in Seq(Char)
    PROVE  /\ Len(t) \in Nat /\ DOMAIN t = 1..Len(t)
           /\ StartsOf(t) \subseteq 1..Len(t)
           /\ IsFiniteSet(StartsOf(t)) /\ Cardinality(StartsOf(t)) \in Nat
           /\ \A c : IsFiniteSet(StartsUpTo(t, c)) /\ Cardinality(StartsUpTo(t, c)) \in Nat
           /\ \A i : IsFiniteSet(StartsBefore(t, i)) /\ Cardinality(StartsBefore(t, i)) \in Nat
<1>1. Len(t) \in Nat /\ DOMAIN t = 1..Len(t)
  BY LenProperties
<1>2. StartsOf(t) \subseteq 1..Len(t)
  BY <1>1 DEF StartsOf
<1>3. IsFiniteSet(1..Len(t))
  <2>1. 1 \in Int /\ Len(t) \in Int
    BY <1>1
  <2> QED BY <2>1, FS_Interval
<1>4. IsFiniteSet(StartsOf(t))
  BY <1>2, <1>3, FS_Subset
<1>5. \A c : StartsUpTo(t, c) \subseteq StartsOf(t) /\ StartsBefore(t, c) \subseteq StartsOf(t)
  BY DEF StartsUpTo, StartsBefore
<1>6. \A U \in SUBSET StartsOf(t) : IsFiniteSet(U) /\ Cardinality(U) \in Nat
  BY <1>4, FS_Subset, FS_CardinalityType
<1> QED BY <1>1, <1>2, <1>4, <1>5, <1>6

(* A word is found by the number of words before it.                       *)
LEMMA WordIs ==
    ASSUME NEW t \in Seq(Char), NEW i \in StartsOf(t), NEW k \in Nat,
           Cardinality(StartsBefore(t, i)) = k - 1
    PROVE  WordAt(t, k) = SubSeq(t, i, EndOf(t, i) - 1)
<1> DEFINE Has(s) == Cardinality(StartsBefore(t, s)) = k - 1
           x == CHOOSE s \in StartsOf(t) : Has(s)
<1>1. x \in StartsOf(t) /\ Has(x)
  OBVIOUS
<1>2. ASSUME NEW a \in StartsOf(t), NEW b \in StartsOf(t), a < b
      PROVE  Cardinality(StartsBefore(t, a)) < Cardinality(StartsBefore(t, b))
  <2>1. a \in Nat /\ b \in Nat /\ \A r \in StartsOf(t) : r \in Nat
    BY StartsFinite
  <2>2. StartsBefore(t, a) \subseteq StartsBefore(t, b)
    <3> SUFFICES ASSUME NEW r \in StartsBefore(t, a) PROVE r \in StartsBefore(t, b)
      OBVIOUS
    <3>1. r \in StartsOf(t) /\ r < a
      BY DEF StartsBefore
    <3>2. r < b
      BY <1>2, <2>1, <3>1
    <3> QED BY <3>1, <3>2 DEF StartsBefore
  <2>3. a \in StartsBefore(t, b) /\ a \notin StartsBefore(t, a)
    BY <1>2, <2>1 DEF StartsBefore
  <2>4. Cardinality(StartsBefore(t, a)) <= Cardinality(StartsBefore(t, b))
    BY <2>2, StartsFinite, FS_Subset
  <2>5. Cardinality(StartsBefore(t, a)) # Cardinality(StartsBefore(t, b))
    BY <2>2, <2>3, StartsFinite, FS_Subset
  <2>6. /\ Cardinality(StartsBefore(t, a)) \in Nat
        /\ Cardinality(StartsBefore(t, b)) \in Nat
    BY StartsFinite
  <2> QED BY <2>4, <2>5, <2>6
<1>3. x = i
  <2>1. x \in Nat /\ i \in Nat /\ Has(i)
    BY <1>1, StartsFinite
  <2>2. x < i => FALSE
    BY <1>1, <1>2, StartsFinite
  <2>3. i < x => FALSE
    BY <1>1, <1>2, StartsFinite
  <2> QED BY <2>1, <2>2, <2>3
<1> QED BY <1>3 DEF WordAt

-----------------------------------------------------------------------------
(* A text as a C string.                                                   *)
Plain(t) == t \in Seq(Char) /\ \A i \in 1..Len(t) : t[i] # 0

(* Argument k of the array a, in the buffer m of which the tokenizer has   *)
(* passed the first c cells, is word k of the text t.                      *)
ArgumentIs(t, m, c, p, k) ==
    /\ p \in Nat /\ p + 1 \in StartsOf(t)
    /\ Cardinality(StartsBefore(t, p + 1)) = k - 1
    /\ EndOf(t, p + 1) - 1 <= c
    /\ m[EndOf(t, p + 1) - 1] = 0
    /\ \A j \in p..(EndOf(t, p + 1) - 2) : m[j] = t[j + 1]

(* The buffer is cut behind the arguments and nowhere else: from c on it   *)
(* is the text, and the words that start before c are the arguments.       *)
IsSplit(t, m, c, a) ==
    /\ c \in 0..Len(t)
    /\ m[Len(t)] = 0
    /\ \A j \in c..(Len(t) - 1) : m[j] = t[j + 1]
    /\ c = 0 \/ c = Len(t) \/ t[c] \in Delimiters
    /\ Cardinality(StartsUpTo(t, c)) = Len(a)
    /\ \A k \in 1..Len(a) : ArgumentIs(t, m, c, a[k], k)

(* The run first..last - 1 of cells is the next word from c on.            *)
NextWord(t, c, first, last) ==
    /\ first \in c..(Len(t) - 1)
    /\ t[first + 1] \notin Delimiters
    /\ \A j \in c..(first - 1) : t[j + 1] \in Delimiters
    /\ last \in first..Len(t)
    /\ last = Len(t) \/ t[last + 1] \in Delimiters
    /\ \A j \in first..(last - 1) : t[j + 1] \notin Delimiters

LEMMA NextWordFacts ==
    ASSUME NEW t, Plain(t), NEW c \in 0..Len(t), NEW first, NEW last,
           NextWord(t, c, first, last),
           c = 0 \/ c = Len(t) \/ t[c] \in Delimiters
    PROVE  /\ Len(t) \in Nat /\ DOMAIN t = 1..Len(t)
           /\ first \in Nat /\ last \in Nat /\ c <= first /\ first < last /\ last <= Len(t)
           /\ first + 1 \in StartsOf(t)
           /\ EndOf(t, first + 1) = last + 1
           /\ StartsBefore(t, first + 1) = StartsUpTo(t, c)
           /\ \A d \in {last, last + 1} : StartsUpTo(t, d) = StartsUpTo(t, c) \cup {first + 1}
<1> DEFINE N == Len(t)
<1>0. t \in Seq(Char) /\ N \in Nat /\ DOMAIN t = 1..N
  BY LenProperties DEF Plain
<1>1. c \in 0..N /\ (c = 0 \/ c = N \/ t[c] \in Delimiters)
  OBVIOUS
<1>2. /\ first \in c..(N - 1)
      /\ t[first + 1] \notin Delimiters
      /\ \A j \in c..(first - 1) : t[j + 1] \in Delimiters
      /\ last \in first..N
      /\ last = N \/ t[last + 1] \in Delimiters
      /\ \A j \in first..(last - 1) : t[j + 1] \notin Delimiters
  BY DEF NextWord
<1>3. \A i \in StartsOf(t) :
         i \in 1..N /\ t[i] \notin Delimiters /\ (i = 1 \/ t[i - 1] \in Delimiters)
  BY <1>0, Zenon DEF StartsOf
<1> HIDE DEF N
<1>4. /\ first \in Nat /\ last \in Nat /\ c \in Nat /\ c <= first /\ first < last
      /\ last <= N /\ first < N
  <2>1. first \in Nat /\ last \in Nat /\ c \in Nat /\ c <= first /\ first <= last
        /\ last <= N /\ first < N
    BY <1>0, <1>1, <1>2
  <2>2. first # last
    BY <1>2, <2>1
  <2> QED BY <2>1, <2>2
<1>5. \A i \in (c + 1)..first : t[i] \in Delimiters
  <2> SUFFICES ASSUME NEW i \in (c + 1)..first PROVE t[i] \in Delimiters
    OBVIOUS
  <2>1. i - 1 \in c..(first - 1) /\ (i - 1) + 1 = i
    BY <1>4
  <2>2. t[(i - 1) + 1] \in Delimiters
    BY <1>2, <2>1
  <2> QED BY <2>1, <2>2
<1>6. \A i \in (first + 1)..last : t[i] \notin Delimiters
  <2> SUFFICES ASSUME NEW i \in (first + 1)..last PROVE t[i] \notin Delimiters
    OBVIOUS
  <2>1. i - 1 \in first..(last - 1) /\ (i - 1) + 1 = i
    BY <1>4
  <2>2. t[(i - 1) + 1] \notin Delimiters
    BY <1>2, <2>1
  <2> QED BY <2>1, <2>2
<1>7. first + 1 \in StartsOf(t)
  <2>1. first + 1 = 1 \/ t[first] \in Delimiters
    <3>1. CASE first = c
      <4>1. c # N
        BY <1>4, <3>1
      <4> QED BY <1>1, <3>1, <4>1
    <3>2. CASE first # c
      <4>1. first \in (c + 1)..first
        BY <1>4, <3>2
      <4> QED BY <1>5, <4>1
    <3> QED BY <3>1, <3>2
  <2>2. (first + 1) - 1 = first /\ first + 1 \in 1..N
    BY <1>0, <1>4
  <2>3. t[first + 1] \notin Delimiters
    BY <1>2
  <2> QED BY <1>0, <2>1, <2>2, <2>3 DEF StartsOf
<1>8. EndOf(t, first + 1) = last + 1
  <2>1. /\ last + 1 \in (first + 1)..(N + 1) /\ (last + 1) - 1 = last
        /\ first + 1 \in 1..N
        /\ last + 1 <= N => last # N
    BY <1>0, <1>4
  <2>2. last + 1 <= N => t[last + 1] \in Delimiters
    BY <1>2, <2>1
  <2>3. \A i \in (first + 1)..((last + 1) - 1) : t[i] \notin Delimiters
    BY <1>6, <2>1
  <2>4. /\ last + 1 \in (first + 1)..(Len(t) + 1) /\ first + 1 \in 1..Len(t)
        /\ last + 1 <= Len(t) => t[last + 1] \in Delimiters
    BY <2>1, <2>2 DEF N
  <2> HIDE DEF N
  <2> QED BY <1>0, <2>3, <2>4, EndOfIs
<1>9. ASSUME NEW i \in StartsOf(t), i <= last + 1
      PROVE  i <= c \/ i = first + 1
  <2>1. i \in 1..N
    BY <1>3
  <2>2. i \in Nat
    BY <1>0, <2>1
  <2>3. i \notin (c + 1)..first
    BY <1>3, <1>5
  <2>4. i \notin (first + 2)..last
    <3> SUFFICES ASSUME i \in (first + 2)..last PROVE FALSE
      OBVIOUS
    <3>1. i # 1 /\ i - 1 \in (first + 1)..last
      BY <1>4, <2>2
    <3> QED BY <1>3, <1>6, <3>1
  <2>5. i # last + 1
    <3> SUFFICES ASSUME i = last + 1 PROVE FALSE
      OBVIOUS
    <3>1. last # N
      BY <1>0, <1>4, <2>1
    <3> QED BY <1>2, <1>3, <3>1
  <2> QED BY <1>4, <1>9, <2>2, <2>3, <2>4, <2>5
<1>10. \A i \in StartsOf(t) : i \in Nat
  BY <1>0, <1>3
<1>11. StartsBefore(t, first + 1) = StartsUpTo(t, c)
  <2>1. ASSUME NEW i \in StartsOf(t) PROVE i < first + 1 <=> i <= c
    <3>1. i \in Nat
      BY <1>10
    <3>2. i < first + 1 => i <= last + 1 /\ i # first + 1
      BY <1>4, <3>1
    <3>3. i <= c => i < first + 1
      BY <1>4, <3>1
    <3> QED BY <1>9, <3>2, <3>3
  <2> QED BY <2>1 DEF StartsBefore, StartsUpTo
<1>12. ASSUME NEW d \in {last, last + 1}
       PROVE  StartsUpTo(t, d) = StartsUpTo(t, c) \cup {first + 1}
  <2>1. /\ d \in Nat /\ d <= last + 1 /\ c <= d /\ first + 1 <= d
    BY <1>4
  <2>2. ASSUME NEW i \in StartsOf(t) PROVE i <= d <=> i <= c \/ i = first + 1
    <3>1. i \in Nat
      BY <1>10
    <3>2. i <= d => i <= last + 1
      BY <1>4, <2>1, <3>1
    <3>3. i <= c \/ i = first + 1 => i <= d
      BY <1>4, <2>1, <3>1
    <3> QED BY <1>9, <3>2, <3>3
  <2> QED BY <1>7, <2>2 DEF StartsUpTo
<1>13. N = Len(t)
  BY DEF N
<1>14. Len(t) \in Nat /\ DOMAIN t = 1..Len(t) /\ last <= Len(t)
  BY <1>0, <1>4, <1>13, Zenon
<1> QED BY <1>4, <1>7, <1>8, <1>11, <1>12, <1>14, Zenon

(* One token: the run is cut off behind its end and becomes an argument.   *)
LEMMA SplitMore ==
    ASSUME NEW t, Plain(t), NEW m \in [Cells -> Char \cup {Junk}], Len(t) \in Cells,
           NEW a \in Seq(Cells), NEW c, IsSplit(t, m, c, a),
           NEW first \in Cells, NEW last \in Cells, NextWord(t, c, first, last),
           NEW d \in {last, last + 1}, d = last <=> last = Len(t)
    PROVE  IsSplit(t, [m EXCEPT ![last] = 0], d, Append(a, first))
<1> DEFINE n == [m EXCEPT ![last] = 0]
           b == Append(a, first)
           N == Len(t)
<1>1. /\ c \in 0..N /\ m[N] = 0
      /\ \A j \in c..(N - 1) : m[j] = t[j + 1]
      /\ c = 0 \/ c = N \/ t[c] \in Delimiters
      /\ Cardinality(StartsUpTo(t, c)) = Len(a)
      /\ \A k \in 1..Len(a) : ArgumentIs(t, m, c, a[k], k)
  BY Zenon DEF IsSplit
<1>2. /\ N \in Nat /\ DOMAIN t = 1..N
      /\ first \in Nat /\ last \in Nat /\ c <= first /\ first < last /\ last <= N
      /\ first + 1 \in StartsOf(t)
      /\ EndOf(t, first + 1) = last + 1
      /\ StartsBefore(t, first + 1) = StartsUpTo(t, c)
      /\ StartsUpTo(t, d) = StartsUpTo(t, c) \cup {first + 1}
  <2>1. c \in 0..Len(t) /\ (c = 0 \/ c = Len(t) \/ t[c] \in Delimiters)
    BY <1>1, Zenon
  <2>2. /\ N \in Nat /\ DOMAIN t = 1..N
        /\ first \in Nat /\ last \in Nat /\ c <= first /\ first < last /\ last <= N
        /\ first + 1 \in StartsOf(t)
        /\ EndOf(t, first + 1) = last + 1
        /\ StartsBefore(t, first + 1) = StartsUpTo(t, c)
        /\ \A e \in {last, last + 1} : StartsUpTo(t, e) = StartsUpTo(t, c) \cup {first + 1}
    BY <2>1, NextWordFacts
  <2> QED BY <2>2, Zenon
<1>3. /\ n[last] = 0
      /\ \A j \in Cells : j # last => n[j] = m[j]
  OBVIOUS
<1>4. /\ b \in Seq(Cells) /\ Len(b) = Len(a) + 1 /\ Len(a) \in Nat
      /\ b[Len(a) + 1] = first /\ \A k \in 1..Len(a) : b[k] = a[k]
  BY AppendProperties, LenProperties
<1>5. /\ N \in Cells
      /\ d = last + 1 => last # N
      /\ d = last => last = N
      /\ last = N \/ t[last + 1] \in Delimiters
  <2>1. last # last + 1
    <3>1. \A x \in Nat : x # x + 1
      OBVIOUS
    <3> QED BY <1>2, <3>1, Zenon
  <2>2. last = N \/ t[last + 1] \in Delimiters
    BY Zenon DEF NextWord
  <2> QED BY <2>1, <2>2, Zenon
<1>6. t \in Seq(Char)
  BY DEF Plain
<1>7. StartsOf(t) \subseteq 1..N
  BY <1>6, StartsFinite, Zenon
<1> HIDE DEF n, b, N
<1>8. c \in Nat /\ d \in Nat /\ c <= N /\ last <= d /\ c <= d /\ d \in 0..N
  BY <1>1, <1>2, <1>5
<1>9. \A j \in 0..N : j \in Cells
  BY <1>2, <1>5, RemoteAssumption DEF Cells
<1>10. \A j \in c..(N - 1) : j # last => n[j] = t[j + 1]
  <2> SUFFICES ASSUME NEW j \in c..(N - 1), j # last PROVE n[j] = t[j + 1]
    OBVIOUS
  <2>1. j \in 0..N
    BY <1>2, <1>8
  <2>2. j \in Cells
    BY <1>9, <2>1
  <2> QED BY <1>1, <1>3, <2>2, Zenon
<1>11. d = N \/ t[d] \in Delimiters
  <2>1. CASE d = last
    BY <1>5, <2>1
  <2>2. CASE d = last + 1
    BY <1>5, <2>2
  <2> QED BY <2>1, <2>2
<1>12. n[N] = 0
  BY <1>1, <1>3, <1>5, Zenon
<1>13. \A j \in d..(N - 1) : n[j] = t[j + 1]
  <2> SUFFICES ASSUME NEW j \in d..(N - 1) PROVE n[j] = t[j + 1]
    OBVIOUS
  <2>1. j # last /\ j \in c..(N - 1)
    BY <1>2, <1>5, <1>8
  <2> QED BY <1>10, <2>1
<1>14. Cardinality(StartsUpTo(t, d)) = Len(b)
  <2>1. first + 1 \notin StartsUpTo(t, c)
    <3>1. ~(first + 1 <= c)
      BY <1>2, <1>8
    <3> QED BY <3>1 DEF StartsUpTo
  <2>2. IsFiniteSet(StartsUpTo(t, c))
    BY <1>6, StartsFinite, Zenon
  <2>3. Cardinality(StartsUpTo(t, c) \cup {first + 1}) = Cardinality(StartsUpTo(t, c)) + 1
    BY <2>1, <2>2, FS_AddElement
  <2> QED BY <1>1, <1>2, <1>4, <2>3, Zenon
<1>15. ASSUME NEW k \in 1..Len(a) PROVE ArgumentIs(t, n, d, b[k], k)
  <2> DEFINE p == a[k]
             end == EndOf(t, p + 1)
  <2>1. /\ p \in Nat /\ p + 1 \in StartsOf(t)
        /\ Cardinality(StartsBefore(t, p + 1)) = k - 1
        /\ end - 1 <= c /\ m[end - 1] = 0
        /\ \A j \in p..(end - 2) : m[j] = t[j + 1]
    BY <1>1, Zenon DEF ArgumentIs
  <2>2. p + 1 \in 1..N /\ end \in (p + 1)..(N + 1)
    <3>1. p + 1 \in 1..N
      BY <1>7, <2>1
    <3> QED BY <1>6, <3>1, EndOfFacts, Zenon DEF N
  <2>3. b[k] = p
    BY <1>4
  <2> HIDE DEF p, end
  <2>4. end - 1 \in 0..N /\ end - 1 <= d
    BY <1>2, <1>8, <2>1, <2>2
  <2>5. n[end - 1] = 0
    BY <1>3, <1>9, <2>1, <2>4
  <2>6. \A j \in p..(end - 2) : n[j] = t[j + 1]
    <3> SUFFICES ASSUME NEW j \in p..(end - 2) PROVE n[j] = t[j + 1]
      OBVIOUS
    <3>1. j # last /\ j \in 0..N
      BY <1>2, <1>8, <2>1, <2>2
    <3>2. j \in Cells
      BY <1>9, <3>1
    <3> QED BY <1>3, <2>1, <3>1, <3>2, Zenon
  <2>7. ArgumentIs(t, n, d, p, k)
    BY <2>1, <2>4, <2>5, <2>6, Zenon DEF ArgumentIs, end
  <2> QED BY <2>3, <2>7, Zenon
<1>16. ArgumentIs(t, n, d, first, Len(a) + 1)
  <2>1. (last + 1) - 1 = last /\ (last + 1) - 2 = last - 1 /\ (Len(a) + 1) - 1 = Len(a)
    BY <1>2, <1>4
  <2>2. \A j \in first..(last - 1) : n[j] = t[j + 1]
    <3> SUFFICES ASSUME NEW j \in first..(last - 1) PROVE n[j] = t[j + 1]
      OBVIOUS
    <3>1. j # last /\ j \in c..(N - 1)
      BY <1>2, <1>8
    <3> QED BY <1>10, <3>1
  <2>3. Cardinality(StartsBefore(t, first + 1)) = (Len(a) + 1) - 1
    BY <1>1, <1>2, <2>1, Zenon
  <2>4. /\ EndOf(t, first + 1) - 1 = last
        /\ EndOf(t, first + 1) - 2 = last - 1
    BY <1>2, <2>1, Zenon
  <2> QED BY <1>2, <1>3, <1>8, <2>2, <2>3, <2>4, Zenon DEF ArgumentIs
<1>17. \A k \in 1..Len(b) : ArgumentIs(t, n, d, b[k], k)
  <2> SUFFICES ASSUME NEW k \in 1..Len(b) PROVE ArgumentIs(t, n, d, b[k], k)
    OBVIOUS
  <2>1. k \in 1..Len(a) \/ k = Len(a) + 1
    BY <1>4
  <2>2. CASE k = Len(a) + 1
    BY <1>4, <1>16, <2>2, Zenon
  <2> QED BY <1>15, <2>1, <2>2, Zenon
<1> QED BY <1>8, <1>11, <1>12, <1>13, <1>14, <1>17, Zenon DEF IsSplit, N, n, b

-----------------------------------------------------------------------------
(* The decoded text as a C string ends at its first NUL.                   *)
Text == TextOf(Decoded)

LEMMA TextOfFacts ==
    ASSUME NEW bytes \in Seq(Char)
    PROVE  /\ Plain(TextOf(bytes))
           /\ Len(TextOf(bytes)) \in 0..Len(bytes)
           /\ \A i \in 1..Len(TextOf(bytes)) : TextOf(bytes)[i] = bytes[i] /\ bytes[i] # 0
           /\ Len(TextOf(bytes)) # Len(bytes) => bytes[Len(TextOf(bytes)) + 1] = 0
<1> DEFINE M == Len(bytes)
           Zeroes == {i \in DOMAIN bytes : bytes[i] = 0} \cup {M + 1}
           z == Min(Zeroes)
           u == SubSeq(bytes, 1, z - 1)
<1>1. M \in Nat /\ DOMAIN bytes = 1..M /\ \A i \in 1..M : bytes[i] \in Char
  BY ElementOfSeq, LenProperties
<1>2. TextOf(bytes) = u
  BY DEF TextOf
<1>3. z \in Zeroes /\ \A y \in Zeroes : z <= y
  <2>1. Zeroes \in SUBSET Nat /\ Zeroes # {}
    BY <1>1
  <2> HIDE DEF Zeroes
  <2> QED BY <2>1, MinIsLeast
<1> HIDE DEF z
<1>4. z \in 1..(M + 1) /\ (z # M + 1 => bytes[z] = 0)
  BY <1>1, <1>3
<1>5. \A i \in 1..(z - 1) : bytes[i] # 0 /\ bytes[i] \in Char
  BY <1>1, <1>3, <1>4
<1> HIDE DEF Zeroes, M
<1>6. u \in Seq(Char) /\ Len(u) = z - 1 /\ \A i \in 1..(z - 1) : u[i] = bytes[i]
  <2>1. 1 \in Int /\ z - 1 \in Int /\ (z - 1) - 1 + 1 = z - 1
    BY <1>1, <1>4
  <2>2. /\ u \in Seq(Char) /\ Len(u) = IF 1 <= z - 1 THEN (z - 1) - 1 + 1 ELSE 0
        /\ \A i \in 1..((z - 1) - 1 + 1) : u[i] = bytes[1 + i - 1]
    BY <1>5, <2>1, SubSeqProperties
  <2>3. \A i \in 1..(z - 1) : 1 + i - 1 = i
    BY <1>1, <1>4
  <2>4. (IF 1 <= z - 1 THEN z - 1 ELSE 0) = z - 1
    BY <1>1, <1>4
  <2> HIDE DEF u
  <2> QED BY <2>1, <2>2, <2>3, <2>4
<1> HIDE DEF u
<1>7. z - 1 \in 0..M /\ (z - 1) + 1 = z /\ (z - 1 # M => z # M + 1)
  BY <1>1, <1>4
<1>8. Plain(u)
  BY <1>5, <1>6 DEF Plain
<1> QED BY <1>2, <1>4, <1>5, <1>6, <1>7, <1>8 DEF M

(* The cells of the decoder hold the bytes the digits mean.                *)
LEMMA DecodedFacts ==
    ASSUME digits \in Seq(Char), ~Undecodable
    PROVE  /\ Decoded \in Seq(Char) /\ Len(Decoded) = Pairs /\ Pairs \in Cells
           /\ \A i \in 1..Pairs : Decoded[i] = Value(i - 1)
<1> DEFINE L == Len(digits)
<1>1. L \in Nat /\ DOMAIN digits = 1..L
  BY LenProperties
<1>2. /\ Pairs \in Nat
      /\ L = 2 * Pairs \/ L = 2 * Pairs - 1
      /\ L % 2 = 1 <=> L = 2 * Pairs - 1
      /\ L % 2 # 1 => L \div 2 = Pairs
      /\ Fits <=> Pairs < MESSAGE_MAX_LENGTH
  BY <1>1, HexLength
<1>3. Fits /\ \A i \in 0..(Pairs - 1) : ValidPair(i)
  BY PairsAreDigits
<1>4. L % 2 # 1
  BY DEF Undecodable, IsUndecodable
<1>5. Decoded = [i \in 1..(L \div 2) |-> 16 * char_from_hex_nibble(digits[2 * i - 1])
                                          + char_from_hex_nibble(digits[2 * i])]
  BY DEF Decoded, BytesOf
<1> HIDE DEF L
<1>6. L = 2 * Pairs /\ L \div 2 = Pairs
  BY <1>1, <1>2, <1>4
<1>7. Pairs \in Cells
  BY <1>2, <1>3, RemoteAssumption DEF Cells
<1>8. ASSUME NEW i \in 1..Pairs
      PROVE  /\ Value(i - 1) = 16 * char_from_hex_nibble(digits[2 * i - 1])
                                + char_from_hex_nibble(digits[2 * i])
             /\ Value(i - 1) \in Char
  <2>1. /\ i - 1 \in 0..(Pairs - 1) /\ i - 1 \in Nat
        /\ 2 * (i - 1) < L /\ 2 * (i - 1) + 1 < L
        /\ 2 * (i - 1) + 1 = 2 * i - 1 /\ (2 * (i - 1) + 1) + 1 = 2 * i
    BY <1>2, <1>6
  <2>2. Hexadecimal(2 * (i - 1)) = digits[2 * i - 1]
    BY <2>1, Zenon DEF Hexadecimal, L
  <2>3. Hexadecimal(2 * (i - 1) + 1) = digits[2 * i]
    BY <2>1, Zenon DEF Hexadecimal, L
  <2>4. Value(i - 1) \in Char
    BY <1>3, <2>1, ValueType
  <2> QED BY <2>2, <2>3, <2>4, Zenon DEF Value
<1>9. Decoded = [i \in 1..Pairs |-> Value(i - 1)]
  BY <1>5, <1>6, <1>8
<1>10. Decoded \in [1..Pairs -> Char]
  BY <1>8, <1>9
<1>11. Decoded \in Seq(Char) /\ Len(Decoded) = Pairs
  BY <1>2, <1>10
<1> QED BY <1>7, <1>9, <1>11

(* A terminated text that nothing has been cut from.                       *)
LEMMA TerminatedSplit ==
    ASSUME DecodeInv, Terminate
    PROVE  IsSplit(Text, message', 0, <<>>)
<1> DEFINE N == Len(Text)
<1>1. /\ pc = "convert" /\ Fits /\ value_index = Pairs /\ ~Undecodable
      /\ Pairs \in Cells /\ Pairs \in Nat
      /\ message' = [message EXCEPT ![Pairs] = 0]
      /\ message \in [Cells -> Char \cup {Junk}] /\ digits \in Seq(Char)
      /\ MESSAGE_MAX_LENGTH \in Nat
      /\ \A i \in 0..(Pairs - 1) : message[i] = Value(i)
  <2>1. TypeOK /\ ConvertInv
    BY DEF DecodeInv
  <2>2. Pairs \in Nat
    BY <2>1, SizeFacts
  <2> QED BY <2>1, <2>2, TerminateFacts, RemoteAssumption DEF TypeOK, ConvertInv
<1>2. /\ Decoded \in Seq(Char) /\ Len(Decoded) = Pairs
      /\ \A i \in 1..Pairs : Decoded[i] = Value(i - 1)
  BY <1>1, DecodedFacts
<1>3. /\ Plain(Text) /\ N \in 0..Pairs /\ N \in Nat
      /\ \A i \in 1..N : Text[i] = Decoded[i]
      /\ N # Pairs => Decoded[N + 1] = 0
  BY <1>1, <1>2, TextOfFacts DEF Text
<1> HIDE DEF N
<1>4. ASSUME NEW i \in 0..(Pairs - 1)
      PROVE  message'[i] = Decoded[i + 1] /\ i \in Cells
  <2>1. i # Pairs /\ i + 1 \in 1..Pairs /\ (i + 1) - 1 = i /\ i \in Cells
    BY <1>1 DEF Cells
  <2>2. message'[i] = message[i]
    BY <1>1, <2>1
  <2> QED BY <1>1, <1>2, <2>1, <2>2
<1>5. message'[N] = 0
  <2>1. CASE N = Pairs
    BY <1>1, <2>1
  <2>2. CASE N # Pairs
    <3>1. N \in 0..(Pairs - 1)
      BY <1>1, <1>3, <2>2
    <3> QED BY <1>3, <1>4, <2>2, <3>1
  <2> QED BY <2>1, <2>2
<1>6. \A j \in 0..(N - 1) : message'[j] = Text[j + 1]
  <2> SUFFICES ASSUME NEW j \in 0..(N - 1) PROVE message'[j] = Text[j + 1]
    OBVIOUS
  <2>1. j \in 0..(Pairs - 1) /\ j + 1 \in 1..N
    BY <1>1, <1>3
  <2> QED BY <1>3, <1>4, <2>1
<1>7. Cardinality(StartsUpTo(Text, 0)) = Len(<<>>)
  <2>1. Text \in Seq(Char)
    BY <1>3 DEF Plain
  <2>2. StartsOf(Text) \subseteq 1..N
    BY <2>1, StartsFinite DEF N
  <2>3. StartsUpTo(Text, 0) = {}
    BY <1>3, <2>2 DEF StartsUpTo
  <2>4. Cardinality({}) = 0 /\ Len(<<>>) = 0
    BY FS_EmptySet
  <2> QED BY <2>3, <2>4
<1>8. 0 \in 0..N /\ Len(<<>>) = 0 /\ 1..0 = {}
  BY <1>3
<1> QED BY <1>5, <1>6, <1>7, <1>8 DEF IsSplit, N

LEMMA EndFromIs ==
    ASSUME NEW e \in Cells, NEW i \in 0..e, message[e] = 0,
           \A j \in i..(e - 1) : message[j] # 0
    PROVE  EndFrom(i) = e
<1> DEFINE z == EndFrom(i)
<1>1. MESSAGE_MAX_LENGTH \in Nat /\ e \in Nat /\ i \in Nat /\ i <= e /\ e < MESSAGE_MAX_LENGTH
  BY RemoteAssumption DEF Cells
<1>2. i \in 0..MESSAGE_MAX_LENGTH
  BY <1>1
<1>3. /\ z \in i..MESSAGE_MAX_LENGTH
      /\ z # MESSAGE_MAX_LENGTH => message[z] = 0
      /\ \A j \in i..(z - 1) : message[j] # 0
  BY <1>2, EndFacts
<1> HIDE DEF z
<1>4. z \in Nat
  BY <1>1, <1>3
<1>5. ~(z < e)
  <2> SUFFICES ASSUME z < e PROVE FALSE
    OBVIOUS
  <2>1. z \in i..(e - 1) /\ z # MESSAGE_MAX_LENGTH
    BY <1>1, <1>3, <1>4
  <2> QED BY <1>3, <2>1
<1>6. ~(e < z)
  <2> SUFFICES ASSUME e < z PROVE FALSE
    OBVIOUS
  <2>1. e \in i..(z - 1)
    BY <1>1, <1>3, <1>4
  <2> QED BY <1>3, <2>1
<1> QED BY <1>1, <1>4, <1>5, <1>6 DEF z

(* What the tokenizer finds behind its cursor is the rest of the text.     *)
LEMMA RestOfText ==
    ASSUME NEW t, Plain(t), Len(t) \in Cells, NEW a, IsSplit(t, message, cursor, a)
    PROVE  /\ Len(t) \in Nat /\ cursor \in 0..Len(t) /\ cursor \in Nat
           /\ \A i \in cursor..Len(t) : EndFrom(i) = Len(t)
           /\ \A j \in cursor..(Len(t) - 1) : InWord(j) <=> t[j + 1] \notin Delimiters
           /\ ~InWord(Len(t))
<1> DEFINE N == Len(t)
<1>1. /\ cursor \in 0..N /\ message[N] = 0
      /\ \A j \in cursor..(N - 1) : message[j] = t[j + 1]
  BY Zenon DEF IsSplit
<1>2. N \in Nat /\ N \in Cells /\ \A i \in 1..N : t[i] # 0
  BY LenProperties DEF Plain
<1> HIDE DEF N
<1>3. cursor \in Nat
  BY <1>1, <1>2
<1>4. \A j \in cursor..(N - 1) : message[j] # 0
  <2> SUFFICES ASSUME NEW j \in cursor..(N - 1) PROVE message[j] # 0
    OBVIOUS
  <2>1. j + 1 \in 1..N
    BY <1>2, <1>3
  <2> QED BY <1>1, <1>2, <2>1, Zenon
<1>5. ASSUME NEW i \in cursor..N PROVE EndFrom(i) = N
  <2>1. i \in 0..N /\ \A j \in i..(N - 1) : j \in cursor..(N - 1)
    BY <1>2, <1>3
  <2> QED BY <1>1, <1>2, <1>4, <2>1, EndFromIs
<1>6. \A j \in cursor..(N - 1) : InWord(j) <=> t[j + 1] \notin Delimiters
  BY <1>1, <1>4, Zenon DEF InWord
<1>7. ~InWord(N)
  BY <1>1, Zenon DEF InWord
<1>8. N = Len(t)
  BY DEF N
<1> QED BY <1>1, <1>2, <1>3, <1>5, <1>6, <1>7, <1>8, Zenon

LEMMA TokenIsNextWord ==
    ASSUME NEW t, Plain(t), Len(t) \in Cells, NEW a, IsSplit(t, message, cursor, a),
           WordsFrom(cursor) # {}
    PROVE  /\ NextWord(t, cursor, FirstCell, LastCell)
           /\ FirstCell \in Cells /\ LastCell \in Cells
           /\ EndFrom(FirstCell) = Len(t)
<1> DEFINE N == Len(t)
           first == FirstCell
           last == LastCell
<1>1. /\ N \in Nat /\ cursor \in 0..N /\ cursor \in Nat
      /\ \A i \in cursor..N : EndFrom(i) = N
      /\ \A j \in cursor..(N - 1) : InWord(j) <=> t[j + 1] \notin Delimiters
      /\ ~InWord(N)
  BY RestOfText, Zenon
<1>2. N \in Cells /\ MESSAGE_MAX_LENGTH \in Nat
  BY RemoteAssumption
<1> HIDE DEF N
<1>3. cursor \in 0..MESSAGE_MAX_LENGTH /\ \A j \in 0..N : j \in Cells
  BY <1>1, <1>2 DEF Cells
<1>4. /\ first \in Cells /\ first >= cursor /\ first < EndFrom(cursor)
      /\ InWord(first)
      /\ \A j \in cursor..(first - 1) : ~InWord(j)
      /\ last \in first..EndFrom(first)
      /\ last = EndFrom(first) \/ ~InWord(last)
      /\ \A j \in first..(last - 1) : InWord(j)
  BY <1>3, TokenFacts
<1> HIDE DEF first, last
<1>5. EndFrom(cursor) = N
  <2>1. cursor \in cursor..N
    BY <1>1
  <2> QED BY <1>1, <2>1, Zenon
<1>6. first \in Nat /\ first < N /\ first \in cursor..(N - 1) /\ first \in cursor..N
  <2>1. first \in Nat
    BY <1>4 DEF Cells
  <2>2. first >= cursor /\ first < N
    BY <1>4, <1>5, Zenon
  <2> QED BY <1>1, <2>1, <2>2
<1>7. EndFrom(first) = N
  BY <1>1, <1>6, Zenon
<1>8. last \in first..N /\ last \in Nat /\ (last = N \/ ~InWord(last))
  <2>1. last \in first..N /\ (last = N \/ ~InWord(last))
    BY <1>4, <1>7, Zenon
  <2>2. last \in Nat
    BY <1>1, <1>6, <2>1
  <2> QED BY <2>1, <2>2
<1>9. \A j \in cursor..(first - 1) : t[j + 1] \in Delimiters
  <2> SUFFICES ASSUME NEW j \in cursor..(first - 1) PROVE t[j + 1] \in Delimiters
    OBVIOUS
  <2>1. j \in cursor..(N - 1)
    BY <1>1, <1>6
  <2> QED BY <1>1, <1>4, <2>1, Zenon
<1>10. \A j \in first..(last - 1) : t[j + 1] \notin Delimiters
  <2> SUFFICES ASSUME NEW j \in first..(last - 1) PROVE t[j + 1] \notin Delimiters
    OBVIOUS
  <2>1. j \in cursor..(N - 1)
    BY <1>1, <1>6, <1>8
  <2> QED BY <1>1, <1>4, <2>1, Zenon
<1>11. last = N \/ t[last + 1] \in Delimiters
  <2>1. last # N => last \in cursor..(N - 1)
    BY <1>1, <1>6, <1>8
  <2> QED BY <1>1, <1>8, <2>1, Zenon
<1>12. t[first + 1] \notin Delimiters
  BY <1>1, <1>4, <1>6, Zenon
<1>13. last \in Cells
  <2>1. last \in 0..N
    BY <1>1, <1>6, <1>8
  <2> QED BY <1>3, <2>1
<1>14. NextWord(t, cursor, first, last)
  BY <1>6, <1>8, <1>9, <1>10, <1>11, <1>12, Zenon DEF NextWord, N
<1> QED BY <1>4, <1>7, <1>13, <1>14, Zenon DEF N, first, last

LEMMA TokenSplit ==
    ASSUME TypeOK, NEW t, Plain(t), Len(t) \in Cells, IsSplit(t, message, cursor, argv), Token
    PROVE  IsSplit(t, message', cursor', argv')
<1> DEFINE N == Len(t)
           first == FirstCell
           last == LastCell
<1>1. /\ WordsFrom(cursor) # {}
      /\ argv' = Append(argv, first)
      /\ \/ last = EndFrom(first) /\ cursor' = last /\ message' = message
         \/ /\ last # EndFrom(first)
            /\ cursor' = last + 1
            /\ message' = [message EXCEPT ![last] = 0]
  BY TokenStep
<1>2. /\ NextWord(t, cursor, first, last) /\ first \in Cells /\ last \in Cells
      /\ EndFrom(first) = N
  BY <1>1, TokenIsNextWord, Zenon
<1>3. message \in [Cells -> Char \cup {Junk}] /\ argv \in Seq(Cells)
  BY Zenon DEF TypeOK
<1>4. message[N] = 0
  BY Zenon DEF IsSplit
<1> HIDE DEF first, last, N
<1>5. last = N => [message EXCEPT ![last] = 0] = message
  BY <1>3, <1>4
<1>6. message' = [message EXCEPT ![last] = 0]
  BY <1>1, <1>2, <1>5, Zenon
<1>7. last # last + 1
  BY <1>2 DEF Cells
<1>8. cursor' \in {last, last + 1} /\ (cursor' = last <=> last = N)
  BY <1>1, <1>2, <1>7, Zenon
<1>9. cursor' = last <=> last = Len(t)
  BY <1>8 DEF N
<1>10. IsSplit(t, [message EXCEPT ![last] = 0], cursor', Append(argv, first))
  BY <1>2, <1>3, <1>8, <1>9, SplitMore
<1> QED BY <1>1, <1>6, <1>10, Zenon

(* The arguments are the first words of the text; all of them, if there is *)
(* room.                                                                   *)
LEMMA TokenizedSplit ==
    ASSUME TypeOK, NEW t, Plain(t), Len(t) \in Cells, IsSplit(t, message, cursor, argv)
    PROVE  /\ Len(argv) <= Cardinality(StartsOf(t))
           /\ WordsFrom(cursor) = {} => Len(argv) = Cardinality(StartsOf(t))
<1> DEFINE N == Len(t)
<1>1. /\ N \in Nat /\ cursor \in Nat /\ cursor <= N
      /\ EndFrom(cursor) = N
      /\ \A j \in cursor..(N - 1) : InWord(j) <=> t[j + 1] \notin Delimiters
  <2>1. /\ N \in Nat /\ cursor \in 0..N /\ cursor \in Nat
        /\ \A i \in cursor..N : EndFrom(i) = N
        /\ \A j \in cursor..(N - 1) : InWord(j) <=> t[j + 1] \notin Delimiters
    BY RestOfText, Zenon
  <2> HIDE DEF N
  <2>2. cursor <= N /\ cursor \in cursor..N
    BY <2>1
  <2> QED BY <2>1, <2>2, Zenon
<1>2. t \in Seq(Char)
  BY DEF Plain
<1>3. /\ StartsOf(t) \subseteq 1..N /\ IsFiniteSet(StartsOf(t))
      /\ StartsUpTo(t, cursor) \subseteq StartsOf(t)
      /\ \A i \in StartsOf(t) : t[i] \notin Delimiters
  BY <1>2, StartsFinite, Zenon DEF StartsUpTo, StartsOf
<1>4. Cardinality(StartsUpTo(t, cursor)) = Len(argv)
  BY Zenon DEF IsSplit
<1> HIDE DEF N
<1>5. Len(argv) <= Cardinality(StartsOf(t))
  <2>1. Cardinality(StartsUpTo(t, cursor)) <= Cardinality(StartsOf(t))
    BY <1>3, FS_Subset
  <2> QED BY <1>4, <2>1, Zenon
<1>6. ASSUME WordsFrom(cursor) = {} PROVE StartsUpTo(t, cursor) = StartsOf(t)
  <2> SUFFICES ASSUME NEW i \in StartsOf(t), i \notin StartsUpTo(t, cursor) PROVE FALSE
    BY <1>3
  <2>1. i \in 1..N /\ ~(i <= cursor)
    BY <1>3 DEF StartsUpTo
  <2>2. i - 1 \in cursor..(N - 1) /\ (i - 1) + 1 = i
    BY <1>1, <2>1
  <2>3. InWord(i - 1)
    BY <1>1, <1>3, <2>2, Zenon
  <2> QED BY <1>1, <1>6, <2>2, <2>3 DEF WordsFrom
<1> QED BY <1>4, <1>5, <1>6, Zenon

-----------------------------------------------------------------------------
(* The whole call: from the decoded text on, the buffer is split, and what *)
(* is answered follows from the first argument.                            *)
Answer == IF Matching = {} THEN "" ELSE Subcommands[Min(Matching)].reply

FirstWords == Min({MAX_ARG_COUNT, Cardinality(StartsOf(Text))})

SplitInv ==
    /\ pc # "convert" /\ ~Undecodable => IsSplit(Text, message, cursor, argv)
    /\ pc # "returned" => reply = NoReply
    /\ pc \in {"execute", "returned"} \/ (pc = "halted" /\ ~Undecodable) => Len(argv) = FirstWords
    /\ pc = "returned" =>
          IF argv = <<>> THEN reply = NoReply
          ELSE message[argv[1]] # 36 /\ reply = Answer

WordInv == DecodeInv /\ SplitInv

LEMMA SameText ==
    ASSUME UNCHANGED digits
    PROVE  Text' = Text /\ Undecodable' = Undecodable /\ FirstWords' = FirstWords
BY DEF Text, TextOf, Decoded, BytesOf, Undecodable, FirstWords, StartsOf

LEMMA SameAnswer ==
    ASSUME UNCHANGED <<message, argv>>
    PROVE  Answer' = Answer
BY DEF Answer, Matching, BeginsWith, EndFrom

LEMMA TypeFacts ==
    ASSUME TypeOK
    PROVE  /\ digits \in Seq(Char) /\ argv \in Seq(Cells)
           /\ DOMAIN argv = 1..Len(argv) /\ Len(argv) \in Nat /\ Len(argv) <= MAX_ARG_COUNT
<1>1. digits \in Seq(Char) /\ argv \in Seq(Cells) /\ Len(argv) <= MAX_ARG_COUNT
  BY Zenon DEF TypeOK
<1> QED BY <1>1, LenProperties

LEMMA TextFacts ==
    ASSUME TypeOK, ~Undecodable
    PROVE  Plain(Text) /\ Len(Text) \in Cells
<1>1. /\ Decoded \in Seq(Char) /\ Len(Decoded) = Pairs /\ Pairs \in Cells
  BY DecodedFacts, TypeFacts
<1>2. Plain(Text) /\ Len(Text) \in 0..Pairs
  BY <1>1, TextOfFacts DEF Text
<1>3. MESSAGE_MAX_LENGTH \in Nat
  BY RemoteAssumption
<1> QED BY <1>1, <1>2, <1>3 DEF Cells

LEMMA WordInit == Init => WordInv
BY DecodeInit DEF Init, WordInv, SplitInv

LEMMA WordConvert == WordInv /\ (Convert \/ ConvertHalts) => SplitInv'
<1> SUFFICES ASSUME WordInv, Convert \/ ConvertHalts PROVE SplitInv'
  OBVIOUS
<1>1. /\ pc = "convert" /\ UNCHANGED <<digits, argv, reply>>
      /\ pc' = "convert" \/ pc' = "halted"
  BY DEF Convert, ConvertHalts, Converting
<1>2. DecodeInv'
  BY ConvertStep, ConvertHaltsStep DEF WordInv
<1>3. pc' = "halted" => Undecodable'
  <2> SUFFICES ASSUME pc' = "halted" PROVE Undecodable'
    OBVIOUS
  <2>1. argv = <<>>
    BY <1>1 DEF WordInv, DecodeInv, ConvertInv
  <2>2. ~(Len(argv') > 0)
    BY <1>1, <2>1
  <2> QED BY <1>2, <2>2 DEF DecodeInv, ConvertInv, HaltsExactlyUndecodable
<1>4. reply = NoReply
  BY <1>1 DEF WordInv, SplitInv
<1> QED BY <1>1, <1>3, <1>4 DEF SplitInv

LEMMA WordTerminate == WordInv /\ Terminate => SplitInv'
<1> SUFFICES ASSUME WordInv, Terminate PROVE SplitInv'
  OBVIOUS
<1>1. DecodeInv /\ SplitInv
  BY DEF WordInv
<1>2. /\ pc = "convert" /\ pc' = "split"
      /\ UNCHANGED <<digits, cursor, argv, reply>>
  BY DEF Terminate
<1>3. argv = <<>> /\ cursor = 0
  BY <1>1, <1>2 DEF DecodeInv, ConvertInv
<1>4. IsSplit(Text, message', 0, <<>>)
  BY <1>1, TerminatedSplit
<1>5. IsSplit(Text', message', cursor', argv')
  BY <1>2, <1>3, <1>4, SameText, Zenon
<1> QED BY <1>1, <1>2, <1>5 DEF SplitInv

LEMMA WordToken == WordInv /\ Token => SplitInv'
<1> SUFFICES ASSUME WordInv, Token PROVE SplitInv'
  OBVIOUS
<1>1. TypeOK /\ ConvertInv /\ SplitInv
  BY DEF WordInv, DecodeInv
<1>2. pc = "split" /\ UNCHANGED <<pc, digits, reply>>
  BY TokenStep
<1>3. ~Undecodable
  BY <1>1, <1>2 DEF ConvertInv, HaltsExactlyUndecodable
<1>4. IsSplit(Text, message', cursor', argv')
  <2>1. IsSplit(Text, message, cursor, argv)
    BY <1>1, <1>2, <1>3 DEF SplitInv
  <2>2. Plain(Text) /\ Len(Text) \in Cells
    BY <1>1, <1>3, TextFacts
  <2> QED BY <1>1, <2>1, <2>2, TokenSplit
<1>5. IsSplit(Text', message', cursor', argv')
  BY <1>2, <1>4, SameText, Zenon
<1> QED BY <1>1, <1>2, <1>5 DEF SplitInv

LEMMA WordTokenized == WordInv /\ Tokenized => SplitInv'
<1> SUFFICES ASSUME WordInv, Tokenized PROVE SplitInv'
  OBVIOUS
<1>1. TypeOK /\ ConvertInv /\ SplitInv
  BY DEF WordInv, DecodeInv
<1>2. /\ pc = "split" /\ UNCHANGED <<digits, message, cursor, argv, reply>>
      /\ WordsFrom(cursor) = {} \/ ~(Len(argv) < MAX_ARG_COUNT)
      /\ pc' = IF argv = <<>> THEN "returned" ELSE "execute"
  BY DEF Tokenized, RoomForArgument
<1>3. ~Undecodable
  BY <1>1, <1>2 DEF ConvertInv, HaltsExactlyUndecodable
<1>4. IsSplit(Text, message, cursor, argv)
  BY <1>1, <1>2, <1>3 DEF SplitInv
<1>5. Plain(Text) /\ Len(Text) \in Cells
  BY <1>1, <1>3, TextFacts
<1>6. Len(argv) = FirstWords
  <2> DEFINE C == Cardinality(StartsOf(Text))
             S == {MAX_ARG_COUNT, C}
  <2>1. /\ Len(argv) <= C
        /\ WordsFrom(cursor) = {} => Len(argv) = C
    BY <1>1, <1>4, <1>5, TokenizedSplit
  <2>2. /\ C \in Nat /\ MAX_ARG_COUNT \in Nat /\ Len(argv) \in Nat
        /\ Len(argv) <= MAX_ARG_COUNT
    <3>1. Text \in Seq(Char)
      BY <1>5 DEF Plain
    <3>2. C \in Nat
      BY <3>1, StartsFinite
    <3> QED BY <1>1, <3>2, TypeFacts, RemoteAssumption
  <2> HIDE DEF C
  <2>3. S \in SUBSET Nat /\ S # {}
    BY <2>2
  <2>4. Min(S) \in S /\ \A y \in S : Min(S) <= y
    BY <2>3, MinIsLeast
  <2>5. Min(S) \in Nat /\ (Min(S) = MAX_ARG_COUNT \/ Min(S) = C) /\ Min(S) <= MAX_ARG_COUNT
        /\ Min(S) <= C
    BY <2>2, <2>4
  <2> DEFINE z == Min(S)
  <2> HIDE DEF z
  <2>6. z \in Nat /\ (z = MAX_ARG_COUNT \/ z = C) /\ z <= MAX_ARG_COUNT /\ z <= C
    BY <2>5 DEF z
  <2>7. Len(argv) = C \/ Len(argv) = MAX_ARG_COUNT
    BY <1>2, <2>1, <2>2
  <2>8. Len(argv) = z
    BY <2>1, <2>2, <2>6, <2>7
  <2> QED BY <2>8 DEF FirstWords, z, C
<1>7. IsSplit(Text', message', cursor', argv') /\ Len(argv') = FirstWords'
  BY <1>2, <1>4, <1>6, SameText, Zenon
<1>8. reply = NoReply
  BY <1>1, <1>2 DEF SplitInv
<1> QED BY <1>2, <1>7, <1>8 DEF SplitInv

LEMMA WordExecute == WordInv /\ (Execute \/ ExecuteHalts) => SplitInv'
<1> SUFFICES ASSUME WordInv, Execute \/ ExecuteHalts PROVE SplitInv'
  OBVIOUS
<1>1. TypeOK /\ ConvertInv /\ SplitInv
  BY DEF WordInv, DecodeInv
<1>2. pc = "execute" /\ UNCHANGED <<digits, message, cursor, argv>>
  BY Zenon DEF Execute, ExecuteHalts
<1>3. ~Undecodable /\ argv # <<>>
  BY <1>1, <1>2 DEF ConvertInv, HaltsExactlyUndecodable
<1>4. IsSplit(Text, message, cursor, argv) /\ Len(argv) = FirstWords /\ reply = NoReply
  BY <1>1, <1>2, <1>3 DEF SplitInv
<1>5. IsSplit(Text', message', cursor', argv') /\ Len(argv') = FirstWords'
  BY <1>2, <1>4, SameText, Zenon
<1>6. CASE Execute
  <2>1. message[argv[1]] # 36 /\ reply' = Answer /\ pc' = "returned"
    BY <1>6, Zenon DEF Execute, Answer
  <2>2. Answer' = Answer
    BY <1>2, SameAnswer
  <2> QED BY <1>2, <1>3, <1>5, <2>1, <2>2 DEF SplitInv
<1>7. CASE ExecuteHalts
  <2>1. pc' = "halted" /\ reply' = reply
    BY <1>7 DEF ExecuteHalts
  <2> QED BY <1>4, <1>5, <2>1 DEF SplitInv
<1> QED BY <1>6, <1>7

LEMMA WordInvariant == Spec => []WordInv
<1>1. ASSUME WordInv, DecodeInv', [Next]_vars PROVE WordInv'
  <2>1. CASE Next
    BY <1>1, <2>1, WordConvert, WordTerminate, WordToken, WordTokenized, WordExecute
       DEF Next, WordInv
  <2>2. CASE UNCHANGED vars
    <3>1. UNCHANGED <<pc, digits, message, value_index, cursor, argv, reply>>
      BY <2>2 DEF vars
    <3>2. Text' = Text /\ Undecodable' = Undecodable /\ FirstWords' = FirstWords /\ Answer' = Answer
      BY <3>1, SameText, SameAnswer
    <3> QED BY <1>1, <3>1, <3>2 DEF WordInv, SplitInv
  <2> QED BY <1>1, <2>1, <2>2
<1> QED BY <1>1, DecodeInvariant, WordInit, PTL DEF Spec

(* The string of an argument is its word.                                  *)
LEMMA ArgumentString ==
    ASSUME NEW t, Plain(t), Len(t) \in Cells, NEW c, IsSplit(t, message, c, argv),
           NEW k \in 1..Len(argv), NEW p, p = argv[k]
    PROVE  /\ p \in Nat /\ p + 1 \in StartsOf(t) /\ p + 1 \in 1..Len(t)
           /\ Cardinality(StartsBefore(t, p + 1)) = k - 1
           /\ EndFrom(p) = EndOf(t, p + 1) - 1
           /\ EndOf(t, p + 1) \in (p + 1)..(Len(t) + 1)
           /\ \A j \in p..(EndOf(t, p + 1) - 2) : message[j] = t[j + 1]
<1> DEFINE N == Len(t)
           end == EndOf(t, p + 1)
<1>1. t \in Seq(Char) /\ N \in Nat /\ N \in Cells /\ \A i \in 1..N : t[i] # 0
  BY LenProperties DEF Plain
<1>2. ArgumentIs(t, message, c, p, k)
  BY Zenon DEF IsSplit
<1>3. /\ p \in Nat /\ p + 1 \in StartsOf(t)
      /\ Cardinality(StartsBefore(t, p + 1)) = k - 1
      /\ message[end - 1] = 0
      /\ \A j \in p..(end - 2) : message[j] = t[j + 1]
  BY <1>2, Zenon DEF ArgumentIs
<1>4. p + 1 \in 1..N /\ end \in (p + 1)..(N + 1)
  <2>1. p + 1 \in 1..N
    BY <1>1, <1>3, StartsFinite
  <2> QED BY <1>1, <2>1, EndOfFacts
<1> HIDE DEF end, N
<1>5. /\ end - 1 \in Nat /\ end - 1 <= N /\ p \in 0..(end - 1) /\ (end - 1) - 1 = end - 2
  BY <1>1, <1>3, <1>4
<1>6. end - 1 \in Cells
  BY <1>1, <1>5, RemoteAssumption DEF Cells
<1>7. ASSUME NEW j \in p..((end - 1) - 1) PROVE message[j] # 0
  <2>1. j \in p..(end - 2) /\ j + 1 \in 1..N
    BY <1>1, <1>3, <1>5
  <2> QED BY <1>1, <1>3, <2>1, Zenon
<1>8. EndFrom(p) = end - 1
  BY <1>3, <1>5, <1>6, <1>7, EndFromIs
<1> QED BY <1>3, <1>4, <1>8, Zenon DEF N, end

(* ArgumentsAreWords: the handler sees the first words of the client's     *)
(* text, as many as there is room for, whole, whatever text and room are.  *)
THEOREM ArgumentsAreWordsAlways == Spec => []ArgumentsAreWords
<1>1. WordInv => ArgumentsAreWords
  <2> SUFFICES ASSUME WordInv, pc = "execute"
               PROVE  /\ Len(argv) = Min({MAX_ARG_COUNT, Len(Words)})
                      /\ \A k \in DOMAIN argv : String(argv[k]) = Words[k]
    BY DEF ArgumentsAreWords
  <2> DEFINE t == Text
             N == Len(t)
  <2>1. /\ TypeOK /\ ~Undecodable /\ IsSplit(t, message, cursor, argv)
        /\ Len(argv) = FirstWords
    BY DEF WordInv, DecodeInv, ConvertInv, HaltsExactlyUndecodable, SplitInv
  <2>2. Plain(t) /\ N \in Cells /\ t \in Seq(Char)
    BY <2>1, TextFacts DEF Plain
  <2>3. /\ N \in Nat /\ StartsOf(t) \subseteq 1..N
        /\ Cardinality(StartsOf(t)) \in Nat
    BY <2>2, StartsFinite
  <2>4. Words = [k \in 1..Cardinality(StartsOf(t)) |-> WordAt(t, k)]
    BY WordsByStart DEF Words, Text
  <2>5. Len(Words) = Cardinality(StartsOf(t))
    BY <2>3, <2>4
  <2>6. Len(argv) = Min({MAX_ARG_COUNT, Len(Words)})
    BY <2>1, <2>5 DEF FirstWords
  <2>7. ASSUME NEW k \in DOMAIN argv PROVE String(argv[k]) = Words[k]
    <3> DEFINE p == argv[k]
               end == EndOf(t, p + 1)
    <3>1. k \in 1..Len(argv) /\ k \in Nat
      BY <2>1, TypeFacts
    <3>2. /\ p \in Nat /\ p + 1 \in StartsOf(t)
          /\ Cardinality(StartsBefore(t, p + 1)) = k - 1
          /\ EndFrom(p) = end - 1
          /\ end \in (p + 1)..(N + 1)
          /\ \A j \in p..(end - 2) : message[j] = t[j + 1]
      BY <2>1, <2>2, <3>1, ArgumentString
    <3>3. k \in 1..Cardinality(StartsOf(t))
      <4>1. Len(argv) <= Cardinality(StartsOf(t))
        BY <2>1, <2>2, TokenizedSplit
      <4>2. Len(argv) \in Nat
        BY <2>1, TypeFacts
      <4> QED BY <2>3, <3>1, <4>1, <4>2
    <3>4. Words[k] = SubSeq(t, p + 1, end - 1)
      <4>1. WordAt(t, k) = SubSeq(t, p + 1, end - 1)
        BY <2>2, <3>1, <3>2, WordIs
      <4> QED BY <2>4, <3>3, <4>1
    <3>5. \A i \in 1..N : t[i] \in Char
      BY <2>2, ElementOfSeq
    <3> HIDE DEF p, end, N, t
    <3>6. /\ end - 1 \in Nat /\ end - 1 <= N /\ p \in 0..(end - 1)
          /\ (end - 1) - (p + 1) + 1 = end - 1 - p
      BY <2>3, <3>2
    <3>7. String(p) = [i \in 1..(end - 1 - p) |-> message[p + i - 1]]
      BY <3>2 DEF String
    <3>8. \A i \in 1..(end - 1 - p) : message[p + i - 1] = t[p + i]
      <4> SUFFICES ASSUME NEW i \in 1..(end - 1 - p) PROVE message[p + i - 1] = t[p + i]
        OBVIOUS
      <4>1. p + i - 1 \in p..(end - 2) /\ (p + i - 1) + 1 = p + i
        BY <3>2, <3>6
      <4> QED BY <3>2, <4>1
    <3>9. /\ SubSeq(t, p + 1, end - 1) \in Seq(Char)
           /\ Len(SubSeq(t, p + 1, end - 1)) = end - 1 - p
           /\ \A i \in 1..(end - 1 - p) : SubSeq(t, p + 1, end - 1)[i] = t[p + i]
      <4>1. p + 1 \in Int /\ end - 1 \in Int /\ \A i \in (p + 1)..(end - 1) : t[i] \in Char
        BY <2>3, <3>2, <3>5, <3>6
      <4> DEFINE w == SubSeq(t, p + 1, end - 1)
      <4>2. /\ w \in Seq(Char)
            /\ Len(w) = IF p + 1 <= end - 1 THEN (end - 1) - (p + 1) + 1 ELSE 0
            /\ \A i \in 1..((end - 1) - (p + 1) + 1) : w[i] = t[(p + 1) + i - 1]
        BY <4>1, SubSeqProperties
      <4> HIDE DEF w
      <4>3. Len(w) = end - 1 - p
        BY <3>2, <3>6, <4>2
      <4>4. \A i \in 1..(end - 1 - p) : (p + 1) + i - 1 = p + i
        BY <3>2, <3>6
      <4>5. \A i \in 1..(end - 1 - p) : w[i] = t[p + i]
        BY <3>6, <4>2, <4>4
      <4> QED BY <4>2, <4>3, <4>5 DEF w
    <3> DEFINE w == SubSeq(t, p + 1, end - 1)
    <3> HIDE DEF w
    <3>10. /\ w \in Seq(Char) /\ Len(w) = end - 1 - p
           /\ \A i \in 1..(end - 1 - p) : w[i] = t[p + i]
      BY <3>9 DEF w
    <3>11. String(p) = w
      <4>1. w = [i \in 1..(end - 1 - p) |-> w[i]]
        BY <3>10
      <4> QED BY <3>7, <3>8, <3>10, <4>1
    <3> QED BY <3>4, <3>11 DEF w, p
  <2> QED BY <2>6, <2>7
<1> QED BY <1>1, WordInvariant, PTL

-----------------------------------------------------------------------------
(* A text in fragments: the characters it stands for.                      *)
BytesIn == [f \in DOMAIN Bytes |-> Bytes[f]]

Said(s) == FlattenMap(BytesIn, s)

NonZero == Char \ {0}

Space == " "

LEMMA FragmentFacts ==
    ASSUME NEW f \in DOMAIN Bytes
    PROVE  /\ Bytes[f] \in Seq(NonZero) /\ Len(Bytes[f]) \in Nat \ {0}
           /\ f = Space => Len(Bytes[f]) = 1 /\ Bytes[f][1] \in Delimiters
           /\ f # Space => \A i \in 1..Len(Bytes[f]) : Bytes[f][i] \notin Delimiters
           /\ \A g \in DOMAIN Bytes : IsPrefix(Bytes[f], Bytes[g]) => f = g
<1> DEFINE b == Bytes[f]
<1>1. FragmentOK(f)
  BY FragmentsAssumption, Zenon
<1>2. /\ b \in Seq(Char) /\ b # <<>>
      /\ \A i \in DOMAIN b : b[i] # 0
      /\ f = Space => Len(b) = 1 /\ b[1] \in Delimiters
      /\ f # Space => \A i \in DOMAIN b : b[i] \notin Delimiters
      /\ \A g \in DOMAIN Bytes : IsPrefix(b, Bytes[g]) => f = g
  BY <1>1, Zenon DEF FragmentOK, Space
<1> HIDE DEF b
<1>3. DOMAIN b = 1..Len(b) /\ Len(b) \in Nat \ {0} /\ \A i \in 1..Len(b) : b[i] \in Char
  BY <1>2, EmptySeq, LenProperties, ElementOfSeq
<1>4. b \in Seq(NonZero)
  <2>1. \A i \in 1..Len(b) : b[i] \in NonZero
    BY <1>2, <1>3 DEF NonZero
  <2>2. b \in [1..Len(b) -> NonZero]
    BY <1>2, <1>3, <2>1, LenProperties
  <2> QED BY <1>3, <2>2
<1> QED BY <1>2, <1>3, <1>4, Zenon DEF b

LEMMA BytesInMaps == MapsInto(BytesIn, DOMAIN Bytes, NonZero)
<1>1. \A f \in DOMAIN Bytes : Bytes[f] \in Seq(NonZero)
  BY FragmentFacts
<1> QED BY <1>1, Zenon DEF MapsInto, BytesIn

(* Either the text is blank, or after a number of blanks a fragment begins *)
(* that is none.                                                           *)
Blank(s, u) ==
    /\ \A i \in 1..Len(s) : s[i] = Space
    /\ \A i \in 1..Len(u) : u[i] \in Delimiters

Opens(s, u, f, a) ==
    /\ f \in 1..Len(s) /\ s[f] # Space /\ \A i \in 1..(f - 1) : s[i] = Space
    /\ a \in Nat /\ a + Len(Bytes[s[f]]) <= Len(u)
    /\ \A i \in 1..a : u[i] \in Delimiters
    /\ \A j \in 1..Len(Bytes[s[f]]) : u[a + j] = Bytes[s[f]][j]

BlankOrOpens(s) == Blank(s, Said(s)) \/ \E f, a \in Nat : Opens(s, Said(s), f, a)

LEMMA SaidStep ==
    ASSUME NEW s \in Seq(DOMAIN Bytes), s # <<>>
    PROVE  /\ Len(s) \in Nat /\ s[1] \in DOMAIN Bytes
           /\ Tail(s) \in Seq(DOMAIN Bytes) /\ Len(s) = Len(Tail(s)) + 1 /\ Len(Tail(s)) \in Nat
           /\ \A i \in 1..Len(Tail(s)) : Tail(s)[i] = s[i + 1]
           /\ Said(s) \in Seq(NonZero) /\ Said(Tail(s)) \in Seq(NonZero)
           /\ Len(Said(Tail(s))) \in Nat /\ Len(Bytes[s[1]]) \in Nat \ {0}
           /\ Len(Said(s)) = Len(Bytes[s[1]]) + Len(Said(Tail(s)))
           /\ \A i \in 1..Len(Bytes[s[1]]) : Said(s)[i] = Bytes[s[1]][i]
           /\ \A i \in 1..Len(Said(Tail(s))) :
                 Said(s)[i + Len(Bytes[s[1]])] = Said(Tail(s))[i]
<1> DEFINE h == s[1]
           r == Tail(s)
           b == Bytes[s[1]]
           u == Said(s)
           v == Said(Tail(s))
<1>1. Len(s) \in Nat \ {0} /\ Head(s) = h /\ h \in DOMAIN Bytes
  <2>1. Len(s) \in Nat \ {0} /\ Head(s) = h
    BY EmptySeq, LenProperties
  <2>2. 1 \in 1..Len(s)
    BY <2>1
  <2> QED BY <2>1, <2>2, ElementOfSeq
<1>2. /\ r \in Seq(DOMAIN Bytes) /\ Len(r) = Len(s) - 1
      /\ \A i \in 1..Len(r) : r[i] = s[i + 1]
  BY HeadTailProperties
<1>3. b \in Seq(NonZero) /\ Len(b) \in Nat \ {0}
  BY <1>1, FragmentFacts
<1>4. v \in Seq(NonZero) /\ Len(v) \in Nat
  <2>1. v \in Seq(NonZero)
    BY <1>2, BytesInMaps, FlattenMapType DEF Said
  <2> QED BY <2>1, LenProperties
<1>5. u = b \o v
  <2>1. FlattenMap(BytesIn, s) = BytesIn[Head(s)] \o FlattenMap(BytesIn, Tail(s))
    BY BytesInMaps, FlattenMapTail
  <2>2. BytesIn[Head(s)] = b
    BY <1>1, Zenon DEF BytesIn
  <2> QED BY <2>1, <2>2, Zenon DEF Said
<1> HIDE DEF b, v, u, r, h
<1>6. /\ b \o v \in Seq(NonZero) /\ Len(b \o v) = Len(b) + Len(v)
      /\ \A i \in 1..Len(b) : (b \o v)[i] = b[i]
      /\ \A i \in 1..Len(v) : (b \o v)[i + Len(b)] = v[i]
  <2> DEFINE w == b \o v
  <2>1. /\ w \in Seq(NonZero) /\ Len(w) = Len(b) + Len(v)
        /\ \A i \in 1..(Len(b) + Len(v)) : w[i] = IF i <= Len(b) THEN b[i] ELSE v[i - Len(b)]
    BY <1>3, <1>4, ConcatProperties
  <2> HIDE DEF w
  <2> DEFINE m == Len(b)
             n == Len(v)
  <2> HIDE DEF m, n
  <2>2. m \in Nat /\ n \in Nat
    BY <1>3, <1>4 DEF m, n
  <2>3. \A i \in 1..(m + n) : w[i] = IF i <= m THEN b[i] ELSE v[i - m]
    BY <2>1 DEF m, n
  <2>4. \A i \in 1..m : w[i] = b[i]
    BY <2>2, <2>3
  <2>5. \A i \in 1..n : w[i + m] = v[i]
    <3> SUFFICES ASSUME NEW i \in 1..n PROVE w[i + m] = v[i]
      OBVIOUS
    <3>1. i + m \in 1..(m + n) /\ ~(i + m <= m) /\ (i + m) - m = i
      BY <2>2
    <3> QED BY <2>3, <3>1
  <2> QED BY <2>1, <2>4, <2>5 DEF m, n, w
<1>7. Len(s) = Len(r) + 1 /\ Len(r) \in Nat
  <2>1. Len(r) \in Nat
    BY <1>2, LenProperties
  <2> QED BY <1>1, <1>2, <2>1
<1> QED BY <1>1, <1>2, <1>3, <1>4, <1>5, <1>6, <1>7, Zenon DEF b, v, u, r, h

LEMMA BlankOrOpensStep ==
    ASSUME NEW s \in Seq(DOMAIN Bytes), s # <<>>, BlankOrOpens(Tail(s))
    PROVE  BlankOrOpens(s)
<1> DEFINE r == Tail(s)
           u == Said(s)
           v == Said(Tail(s))
           m == Len(Bytes[s[1]])
           n == Len(Said(Tail(s)))
           l == Len(Tail(s))
<1>1. /\ s[1] \in DOMAIN Bytes /\ Len(s) = l + 1 /\ l \in Nat
      /\ \A i \in 1..l : r[i] = s[i + 1]
      /\ n \in Nat /\ m \in Nat \ {0} /\ Len(u) = m + n
      /\ \A i \in 1..m : u[i] = Bytes[s[1]][i]
      /\ \A i \in 1..n : u[i + m] = v[i]
  BY SaidStep, Zenon
<1> HIDE DEF r, u, v, m, n, l
<1>2. CASE s[1] # Space
  <2>1. 1 \in 1..Len(s) /\ 1 - 1 = 0 /\ 0 + m <= Len(u) /\ 1..0 = {} /\ 0 \in Nat /\ 1 \in Nat
    BY <1>1
  <2>2. \A j \in 1..m : u[0 + j] = Bytes[s[1]][j]
    <3>1. \A j \in 1..m : 0 + j = j
      BY <1>1
    <3> QED BY <1>1, <3>1
  <2>3. Opens(s, u, 1, 0)
    BY <1>2, <2>1, <2>2 DEF Opens, m
  <2> QED BY <2>1, <2>3, Zenon DEF BlankOrOpens, u
<1>3. CASE s[1] = Space
  <2>1. m = 1 /\ Bytes[s[1]][1] \in Delimiters
    BY <1>1, <1>3, FragmentFacts DEF m
  <2>2. u[1] \in Delimiters /\ Len(u) = n + 1 /\ \A i \in 1..n : u[i + 1] = v[i]
    <3>1. 1 \in 1..m
      BY <2>1
    <3>2. Len(u) = n + 1
      BY <1>1, <2>1
    <3> QED BY <1>1, <2>1, <3>1, <3>2, Zenon
  <2>3. CASE Blank(r, v)
    <3>1. \A i \in 1..Len(s) : s[i] = Space
      <4> SUFFICES ASSUME NEW i \in 1..Len(s), i # 1 PROVE s[i] = Space
        BY <1>3
      <4>1. i - 1 \in 1..l /\ (i - 1) + 1 = i
        BY <1>1
      <4>2. r[i - 1] = s[i] /\ r[i - 1] = Space
        BY <1>1, <2>3, <4>1 DEF Blank, l, r
      <4> QED BY <4>2
    <3>2. \A i \in 1..Len(u) : u[i] \in Delimiters
      <4> SUFFICES ASSUME NEW i \in 1..Len(u), i # 1 PROVE u[i] \in Delimiters
        BY <2>2
      <4>1. i - 1 \in 1..n /\ (i - 1) + 1 = i
        BY <1>1, <2>2
      <4>2. u[i] = v[i - 1] /\ v[i - 1] \in Delimiters
        BY <2>2, <2>3, <4>1 DEF Blank, n, v
      <4> QED BY <4>2
    <3> QED BY <3>1, <3>2, Zenon DEF Blank, BlankOrOpens, u
  <2>4. CASE \E f, a \in Nat : Opens(r, v, f, a)
    <3>1. PICK f \in Nat, a \in Nat : Opens(r, v, f, a)
      BY <2>4
    <3> DEFINE b == Bytes[r[f]]
               k == Len(Bytes[r[f]])
    <3>2. /\ f \in 1..l /\ r[f] # Space /\ \A i \in 1..(f - 1) : r[i] = Space
          /\ a + k <= n
          /\ \A i \in 1..a : v[i] \in Delimiters
          /\ \A j \in 1..k : v[a + j] = b[j]
      BY <3>1, Zenon DEF Opens, l, n, r, v
    <3>3. s[f + 1] = r[f] /\ f + 1 \in 1..Len(s) /\ (f + 1) - 1 = f /\ f + 1 \in Nat
          /\ a + 1 \in Nat
      BY <1>1, <3>2
    <3>4. k \in Nat
      <4>1. r[f] \in DOMAIN Bytes
        <5>1. r \in Seq(DOMAIN Bytes)
          BY SaidStep, Zenon DEF r
        <5> QED BY <3>2, <5>1, ElementOfSeq DEF l, r
      <4> QED BY <4>1, FragmentFacts
    <3> HIDE DEF k, b
    <3>5. \A i \in 1..f : s[i] = Space
      <4> SUFFICES ASSUME NEW i \in 1..f, i # 1 PROVE s[i] = Space
        BY <1>3
      <4>1. i - 1 \in 1..(f - 1) /\ i - 1 \in 1..l /\ (i - 1) + 1 = i
        BY <1>1, <3>2
      <4> QED BY <1>1, <3>2, <4>1
    <3>6. \A i \in 1..(a + 1) : u[i] \in Delimiters
      <4> SUFFICES ASSUME NEW i \in 1..(a + 1), i # 1 PROVE u[i] \in Delimiters
        BY <2>2
      <4>1. i - 1 \in 1..a /\ i - 1 \in 1..n /\ (i - 1) + 1 = i
        BY <1>1, <3>2, <3>4
      <4> QED BY <2>2, <3>2, <4>1
    <3>7. \A j \in 1..k : u[(a + 1) + j] = b[j]
      <4> SUFFICES ASSUME NEW j \in 1..k PROVE u[(a + 1) + j] = b[j]
        OBVIOUS
      <4>1. a + j \in 1..n /\ (a + j) + 1 = (a + 1) + j
        BY <1>1, <3>2, <3>4
      <4> QED BY <2>2, <3>2, <4>1
    <3>8. (a + 1) + k <= Len(u)
      BY <1>1, <2>2, <3>2, <3>4
    <3>9. Opens(s, u, f + 1, a + 1)
      BY <3>2, <3>3, <3>5, <3>6, <3>7, <3>8, Zenon DEF Opens, k, b
    <3> QED BY <3>3, <3>9, Zenon DEF BlankOrOpens, u
  <2> QED BY <2>3, <2>4, Zenon DEF BlankOrOpens, r, v
<1> QED BY <1>2, <1>3

LEMMA FirstFragment ==
    ASSUME NEW s \in Seq(DOMAIN Bytes)
    PROVE  BlankOrOpens(s)
<1> DEFINE Bad == {n \in Nat : \E r \in Seq(DOMAIN Bytes) : Len(r) = n /\ ~BlankOrOpens(r)}
<1>1. ASSUME NEW n \in Bad PROVE \E m \in Bad : m < n
  <2>1. PICK r \in Seq(DOMAIN Bytes) : Len(r) = n /\ ~BlankOrOpens(r)
    OBVIOUS
  <2>2. r # <<>>
    <3>1. Said(<<>>) = <<>>
      BY FlattenMapEmpty DEF Said
    <3>2. Blank(<<>>, <<>>)
      BY DEF Blank
    <3>3. BlankOrOpens(<<>>)
      BY <3>1, <3>2, Zenon DEF BlankOrOpens
    <3> QED BY <2>1, <3>3
  <2>3. Tail(r) \in Seq(DOMAIN Bytes) /\ n = Len(Tail(r)) + 1 /\ Len(Tail(r)) \in Nat
    BY <2>1, <2>2, SaidStep
  <2>4. ~BlankOrOpens(Tail(r))
    BY <2>1, <2>2, BlankOrOpensStep
  <2>5. Len(Tail(r)) \in Bad
    BY <2>3, <2>4, Zenon
  <2>6. Len(Tail(r)) < n
    BY <2>3
  <2> QED BY <2>5, <2>6, Zenon
<1>2. Bad = {}
  <2>1. Bad \in SUBSET Nat
    OBVIOUS
  <2> HIDE DEF Bad
  <2> QED BY <1>1, <2>1, NoLeast
<1>3. Len(s) \in Nat
  BY LenProperties
<1> QED BY <1>2, <1>3

(* The digits of such a text decode to its characters, and none is a NUL.  *)
LEMMA DecodedIsSaid ==
    ASSUME digits \in DOMAIN Fragments
    PROVE  /\ Fragments[digits] \in Seq(DOMAIN Bytes)
           /\ ~Undecodable
           /\ Text = Said(Fragments[digits]) /\ Text \in Seq(NonZero)
<1> DEFINE s == Fragments[digits]
           u == Said(s)
<1>1. /\ s \in Seq(DOMAIN Bytes) /\ ~IsUndecodable(digits)
      /\ BytesOf(digits) = FlattenSeq([i \in DOMAIN s |-> Bytes[s[i]]])
  BY FragmentsAssumption, Zenon
<1>2. \A i \in DOMAIN s : s[i] \in DOMAIN Bytes
  BY <1>1, ElementOfSeq, LenProperties
<1>3. [i \in DOMAIN s |-> Bytes[s[i]]] = [i \in DOMAIN s |-> BytesIn[s[i]]]
  BY <1>2 DEF BytesIn
<1>4. Decoded = u
  BY <1>1, <1>3, Zenon DEF Decoded, Said, FlattenMap, Mapped
<1>5. u \in Seq(NonZero)
  BY <1>1, BytesInMaps, FlattenMapType DEF Said
<1> HIDE DEF u
<1>6. /\ u \in Seq(Char) /\ Len(u) \in Nat
      /\ \A i \in 1..Len(u) : u[i] # 0
  <2>1. u \in [1..Len(u) -> NonZero] /\ Len(u) \in Nat
    BY <1>5, LenProperties
  <2>2. \A i \in 1..Len(u) : u[i] \in Char /\ u[i] # 0
    BY <2>1 DEF NonZero
  <2>3. NonZero \subseteq Char
    BY DEF NonZero
  <2> QED BY <1>5, <2>1, <2>2, <2>3
<1> DEFINE w == TextOf(u)
<1>7. /\ w \in Seq(Char) /\ Len(w) \in 0..Len(u)
      /\ \A i \in 1..Len(w) : w[i] = u[i]
      /\ Len(w) # Len(u) => u[Len(w) + 1] = 0
  BY <1>6, TextOfFacts DEF Plain
<1> HIDE DEF w
<1>8. Len(w) = Len(u)
  <2> SUFFICES ASSUME Len(w) # Len(u) PROVE FALSE
    OBVIOUS
  <2>1. Len(w) + 1 \in 1..Len(u)
    BY <1>6, <1>7
  <2> QED BY <1>6, <1>7, <2>1
<1>9. w = u
  BY <1>6, <1>7, <1>8, LenProperties
<1>10. Text = u
  BY <1>4, <1>9, Zenon DEF Text, w
<1> QED BY <1>1, <1>5, <1>10, Zenon DEF Undecodable, u

(* The first word of the text begins with that fragment.                   *)
LEMMA OpeningWord ==
    ASSUME NEW s \in Seq(DOMAIN Bytes), NEW t \in Seq(NonZero), NEW f, NEW a, Opens(s, t, f, a)
    PROVE  /\ a \in Nat /\ a + 1 \in StartsOf(t) /\ \A i \in 1..a : i \notin StartsOf(t)
           /\ s[f] \in DOMAIN Bytes /\ Len(Bytes[s[f]]) \in Nat \ {0}
           /\ a + Len(Bytes[s[f]]) < EndOf(t, a + 1)
<1> DEFINE b == Bytes[s[f]]
           k == Len(b)
           N == Len(t)
           end == EndOf(t, a + 1)
<1>1. /\ f \in 1..Len(s) /\ s[f] # Space
      /\ a \in Nat /\ a + k <= N
      /\ \A i \in 1..a : t[i] \in Delimiters
      /\ \A j \in 1..k : t[a + j] = b[j]
  BY Zenon DEF Opens
<1>2. s[f] \in DOMAIN Bytes
  BY <1>1, ElementOfSeq
<1>3. k \in Nat \ {0} /\ \A i \in 1..k : b[i] \notin Delimiters
  BY <1>1, <1>2, FragmentFacts
<1>4. N \in Nat /\ DOMAIN t = 1..N
  BY LenProperties
<1>5. t \in Seq(Char)
  <2>1. NonZero \subseteq Char
    BY DEF NonZero
  <2> QED BY <2>1
<1> HIDE DEF k, N, b
<1>6. a + 1 \in 1..N /\ (a + 1) - 1 = a /\ (a + 1 = 1 \/ a \in 1..a) /\ 1 \in 1..k
  BY <1>1, <1>3, <1>4
<1>7. t[a + 1] \notin Delimiters
  BY <1>1, <1>3, <1>6
<1>8. a + 1 \in StartsOf(t)
  <2>1. a + 1 = 1 \/ t[a] \in Delimiters
    BY <1>1, <1>6
  <2> QED BY <1>4, <1>6, <1>7, <2>1 DEF StartsOf
<1>9. \A i \in 1..a : i \notin StartsOf(t)
  BY <1>1 DEF StartsOf
<1>10. /\ end \in (a + 1)..(N + 1)
       /\ end <= N => t[end] \in Delimiters
  BY <1>5, <1>6, EndOfFacts DEF N
<1> HIDE DEF end
<1>11. a + k < end
  <2> SUFFICES ASSUME ~(a + k < end) PROVE FALSE
    OBVIOUS
  <2>1. end - a \in 1..k /\ a + (end - a) = end /\ end <= N
    BY <1>1, <1>3, <1>4, <1>10
  <2>2. t[a + (end - a)] = b[end - a]
    BY <1>1, <2>1
  <2> QED BY <1>3, <1>10, <2>1, <2>2
<1> QED BY <1>1, <1>2, <1>3, <1>8, <1>9, <1>11, Zenon DEF k, b, end

LEMMA FirstWordsCount ==
    ASSUME NEW t \in Seq(NonZero), t = Text
    PROVE  FirstWords \in Nat /\ (FirstWords = 0 <=> StartsOf(t) = {})
<1> DEFINE C == Cardinality(StartsOf(t))
           S == {MAX_ARG_COUNT, C}
           z == Min(S)
<1>1. t \in Seq(Char)
  <2>1. NonZero \subseteq Char
    BY DEF NonZero
  <2> QED BY <2>1
<1>2. C \in Nat /\ (C = 0 <=> StartsOf(t) = {})
  BY <1>1, StartsFinite, FS_EmptySet
<1>3. MAX_ARG_COUNT \in Nat \ {0}
  BY RemoteAssumption
<1>4. z \in {MAX_ARG_COUNT, C} /\ z <= MAX_ARG_COUNT /\ z <= C
  <2>1. S \in SUBSET Nat /\ S # {}
    BY <1>2, <1>3
  <2> QED BY <2>1, MinIsLeast
<1>5. z = FirstWords
  BY DEF FirstWords
<1> HIDE DEF z, C
<1>6. z \in Nat /\ (z = 0 <=> C = 0)
  BY <1>2, <1>3, <1>4
<1> QED BY <1>2, <1>5, <1>6

(* So the first argument is that word.                                     *)
LEMMA FirstArgument ==
    ASSUME WordInv, pc \in {"returned", "halted"}, NEW s \in Seq(DOMAIN Bytes),
           ~Undecodable, Text \in Seq(NonZero), NEW f, NEW a, Opens(s, Text, f, a)
    PROVE  /\ argv # <<>> /\ argv[1] = a /\ a \in Nat
           /\ s[f] \in DOMAIN Bytes /\ Len(Bytes[s[f]]) \in Nat \ {0}
           /\ EndFrom(a) \in Nat /\ a + Len(Bytes[s[f]]) <= EndFrom(a)
           /\ \A i \in 1..(EndFrom(a) - a) : message[a + i - 1] = Text[a + i]
           /\ \A i \in 1..Len(Bytes[s[f]]) : Text[a + i] = Bytes[s[f]][i]
<1> DEFINE t == Text
           k == Len(Bytes[s[f]])
           p == argv[1]
           end == EndOf(t, p + 1)
<1>1. /\ TypeOK /\ IsSplit(t, message, cursor, argv) /\ Len(argv) = FirstWords
  BY Zenon DEF WordInv, DecodeInv, SplitInv
<1>2. /\ a \in Nat /\ a + 1 \in StartsOf(t) /\ \A i \in 1..a : i \notin StartsOf(t)
      /\ s[f] \in DOMAIN Bytes /\ k \in Nat \ {0}
      /\ a + k < EndOf(t, a + 1)
  BY OpeningWord
<1>3. Plain(t) /\ Len(t) \in Cells
  BY <1>1, TextFacts
<1>4. 1 \in 1..Len(argv) /\ argv # <<>>
  <2>1. FirstWords \in Nat /\ FirstWords # 0
    BY <1>2, FirstWordsCount
  <2>2. Len(<<>>) = 0
    OBVIOUS
  <2> QED BY <1>1, <2>1, <2>2
<1>5. /\ p \in Nat /\ p + 1 \in StartsOf(t) /\ p + 1 \in 1..Len(t)
      /\ Cardinality(StartsBefore(t, p + 1)) = 1 - 1
      /\ EndFrom(p) = end - 1
      /\ end \in (p + 1)..(Len(t) + 1)
      /\ \A j \in p..(end - 2) : message[j] = t[j + 1]
  BY <1>1, <1>3, <1>4, ArgumentString
<1>6. StartsBefore(t, p + 1) = {}
  <2>1. IsFiniteSet(StartsBefore(t, p + 1))
    <3>1. t \in Seq(Char)
      BY <1>3 DEF Plain
    <3> QED BY <3>1, StartsFinite, Zenon
  <2>2. 1 - 1 = 0
    OBVIOUS
  <2> QED BY <1>5, <2>1, <2>2, FS_EmptySet
<1>7. Len(t) \in Nat
  BY <1>3, LenProperties DEF Plain
<1> HIDE DEF t, k, end, p
<1>8. p = a
  <2>1. ~(p < a)
    <3>1. p < a => p + 1 \in 1..a
      BY <1>2, <1>5
    <3> QED BY <1>2, <1>5, <3>1
  <2>2. ~(a < p)
    <3>1. a < p => a + 1 < p + 1
      BY <1>2, <1>5
    <3> QED BY <1>2, <1>6, <3>1 DEF StartsBefore
  <2> QED BY <1>2, <1>5, <2>1, <2>2
<1>9. end = EndOf(t, a + 1) /\ end \in Nat
  <2>1. end \in Nat
    BY <1>5, <1>7
  <2> QED BY <1>8, <2>1 DEF end
<1>10. /\ EndFrom(a) = end - 1 /\ a + k <= end - 1 /\ end - 1 \in Nat
       /\ \A j \in a..(end - 2) : message[j] = t[j + 1]
  <2>1. a + k < end
    BY <1>2, <1>9, Zenon
  <2>2. a + k <= end - 1 /\ end - 1 \in Nat
    BY <1>2, <1>9, <2>1
  <2> QED BY <1>5, <1>8, <2>2, Zenon
<1>11. \A i \in 1..(end - 1 - a) : message[a + i - 1] = t[a + i]
  <2> SUFFICES ASSUME NEW i \in 1..(end - 1 - a) PROVE message[a + i - 1] = t[a + i]
    OBVIOUS
  <2>1. a + i - 1 \in a..(end - 2) /\ (a + i - 1) + 1 = a + i
    BY <1>2, <1>9
  <2> QED BY <1>10, <2>1
<1>12. \A i \in 1..k : t[a + i] = Bytes[s[f]][i]
  BY Zenon DEF Opens, k, t
<1>13. p = argv[1]
  BY DEF p
<1> QED BY <1>2, <1>4, <1>8, <1>10, <1>11, <1>12, <1>13, Zenon DEF t, k

-----------------------------------------------------------------------------
LEMMA PrefixIs ==
    ASSUME NEW S, NEW x \in Seq(S), NEW y \in Seq(S), Len(x) <= Len(y),
           \A i \in 1..Len(x) : x[i] = y[i]
    PROVE  IsPrefix(x, y)
<1> DEFINE n == Len(x)
<1>1. n \in Nat /\ Len(y) \in Nat /\ n <= Len(y)
  BY LenProperties
<1>2. \A i \in 1..n : x[i] \in S /\ y[i] \in S
  BY <1>1, ElementOfSeq
<1> HIDE DEF n
<1>3. 1 \in Int /\ n \in Int /\ n - 1 + 1 = n /\ \A i \in 1..n : 1 + i - 1 = i
  BY <1>1
<1> DEFINE v == SubSeq(x, 1, n)
           w == SubSeq(y, 1, n)
<1>4. /\ v \in Seq(S) /\ w \in Seq(S)
      /\ Len(v) = IF 1 <= n THEN n - 1 + 1 ELSE 0
      /\ Len(w) = IF 1 <= n THEN n - 1 + 1 ELSE 0
      /\ \A i \in 1..(n - 1 + 1) : v[i] = x[1 + i - 1] /\ w[i] = y[1 + i - 1]
  BY <1>2, <1>3, SubSeqProperties
<1> HIDE DEF v, w
<1>5. Len(v) = n /\ Len(w) = n
  BY <1>1, <1>4
<1>6. \A i \in 1..n : v[i] = w[i]
  <2>1. \A i \in 1..n : v[i] = x[i] /\ w[i] = y[i]
    BY <1>3, <1>4
  <2> QED BY <2>1 DEF n
<1>7. v = w
  BY <1>4, <1>5, <1>6, LenProperties
<1> QED BY <1>1, <1>7, Zenon DEF IsPrefix, v, w, n

(* strncmp finds a name exactly where its fragment begins the argument.    *)
LEMMA NameMatches ==
    ASSUME NEW h \in DOMAIN Bytes, NEW g \in DOMAIN Bytes, NEW a \in Nat, EndFrom(a) \in Nat,
           a + Len(Bytes[h]) <= EndFrom(a),
           \A i \in 1..(EndFrom(a) - a) : message[a + i - 1] = Text[a + i],
           \A i \in 1..Len(Bytes[h]) : Text[a + i] = Bytes[h][i]
    PROVE  BeginsWith(Bytes[g], a) <=> h = g
<1> DEFINE b == Bytes[h]
           c == Bytes[g]
           k == Len(b)
           l == Len(c)
           e == EndFrom(a)
<1>1. b \in Seq(NonZero) /\ c \in Seq(NonZero) /\ k \in Nat \ {0} /\ l \in Nat \ {0}
  BY FragmentFacts
<1>2. /\ IsPrefix(b, c) => h = g
      /\ IsPrefix(c, b) => g = h
  BY FragmentFacts
<1>3. /\ e \in Nat /\ a + k <= e
      /\ \A i \in 1..(e - a) : message[a + i - 1] = Text[a + i]
      /\ \A i \in 1..k : Text[a + i] = b[i]
  OBVIOUS
<1>4. BeginsWith(c, a) <=> a + l <= e /\ \A i \in 1..l : message[a + i - 1] = c[i]
  BY Zenon DEF BeginsWith
<1>5. b \in Seq(NonZero) /\ c \in Seq(NonZero) /\ (k <= l \/ l <= k)
  BY <1>1
<1>6. ASSUME h = g PROVE BeginsWith(c, a)
  <2>1. b = c /\ k = l
    BY <1>6
  <2> HIDE DEF b, c, k, l, e
  <2>2. \A i \in 1..l : i \in 1..(e - a) /\ i \in 1..k
    <3>1. e \in Nat /\ a + l <= e /\ l \in Nat /\ l = k
      BY <1>1, <1>3, <2>1, Zenon
    <3>2. \A i \in 1..l : i \in 1..(e - a)
      BY <3>1
    <3> QED BY <3>1, <3>2
  <2>3. \A i \in 1..l : message[a + i - 1] = c[i]
    BY <1>3, <2>1, <2>2, Zenon
  <2>4. a + l <= e
    BY <1>3, <2>1, Zenon
  <2> QED BY <1>4, <2>3, <2>4, Zenon
<1>7. ASSUME BeginsWith(c, a) PROVE h = g
  <2>1. a + l <= e /\ \A i \in 1..l : message[a + i - 1] = c[i]
    BY <1>4, <1>7
  <2> HIDE DEF b, c, k, l, e
  <2>2. \A i \in 1..l : i \in 1..(e - a)
    BY <1>1, <1>3, <2>1
  <2>3. \A i \in 1..l : Text[a + i] = c[i]
    BY <1>3, <2>1, <2>2, Zenon
  <2>4. \A i \in 1..l : i \in 1..k => b[i] = c[i]
    BY <1>3, <2>3, Zenon
  <2>5. CASE k <= l
    <3>1. \A i \in 1..k : b[i] = c[i]
      <4>1. \A i \in 1..k : i \in 1..l
        BY <1>1, <2>5
      <4> QED BY <2>4, <4>1, Zenon
    <3>2. IsPrefix(b, c)
      BY <1>1, <2>5, <3>1, PrefixIs DEF k, l
    <3> QED BY <1>2, <3>2
  <2>6. CASE l <= k
    <3>1. \A i \in 1..l : c[i] = b[i]
      <4>1. \A i \in 1..l : i \in 1..k
        BY <1>1, <2>6
      <4> QED BY <2>4, <4>1, Zenon
    <3>2. IsPrefix(c, b)
      BY <1>1, <2>6, <3>1, PrefixIs DEF k, l
    <3> QED BY <1>2, <3>2
  <2> QED BY <1>5, <2>5, <2>6
<1> QED BY <1>6, <1>7

(* GdbCommands has its own instance of the operators of the library.       *)
LEMMA SameOperators ==
    /\ \A S : Commands!Min(S) = Min(S)
    /\ \A x, y : Commands!IsPrefix(x, y) <=> IsPrefix(x, y)
BY DEF Commands!Min, Min, Commands!IsPrefix, IsPrefix

(* The table's side: the command is what begins with that fragment.        *)
LEMMA CommandOpens ==
    ASSUME NEW D, NEW s \in Seq(D), NEW f \in 1..Len(s), s[f] # Space,
           \A i \in 1..(f - 1) : s[i] = Space
    PROVE  /\ Commands!gdb_get_args_first(s) \in Seq(D)
           /\ Len(Commands!gdb_get_args_first(s)) \in Nat \ {0}
           /\ Commands!gdb_get_args_first(s)[1] = s[f]
<1> DEFINE n == Len(s)
           word == {i \in DOMAIN s : s[i] # Space}
           gap  == {i \in DOMAIN s : s[i] = Space /\ \E j \in word : j < i}
           last == IF gap = {} THEN n ELSE Min(gap) - 1
           c == SubSeq(s, Min(word), last)
<1>1. DOMAIN s = 1..n /\ n \in Nat
  BY LenProperties
<1>2. /\ word \subseteq 1..n /\ gap \subseteq 1..n /\ f \in word
      /\ \A i \in word : i \notin 1..(f - 1)
  BY <1>1
<1>3. \A i \in gap : \E j \in word : j < i
  BY Zenon
<1>4. word # {} => Commands!gdb_get_args_first(s) = c
  <2>1. Commands!Min(word) = Min(word) /\ Commands!Min(gap) = Min(gap)
    BY SameOperators
  <2> QED BY <2>1, Zenon DEF Commands!gdb_get_args_first, Space
<1>5. last = IF gap = {} THEN n ELSE Min(gap) - 1
  OBVIOUS
<1>6. f \in 1..n /\ f \in Nat
  BY <1>1
<1> HIDE DEF word, gap, last, n
<1>7. word \in SUBSET Nat /\ gap \in SUBSET Nat /\ word # {}
  BY <1>1, <1>2
<1> DEFINE first == Min(word)
<1>8. first \in word /\ \A j \in word : first <= j
  BY <1>7, MinIsLeast
<1> HIDE DEF first
<1>9. first = f
  <2>1. first \in 1..n /\ first <= f /\ first \notin 1..(f - 1)
    BY <1>2, <1>8
  <2> QED BY <1>1, <1>6, <2>1
<1>10. last \in f..n
  <2>1. CASE gap = {}
    BY <1>1, <1>5, <1>6, <2>1
  <2>2. CASE gap # {}
    <3>1. Min(gap) \in gap
      BY <1>7, <2>2, MinIsLeast
    <3>2. PICK j \in word : j < Min(gap)
      BY <1>3, <3>1
    <3>3. j \in Nat /\ f <= j /\ Min(gap) \in 1..n
      BY <1>2, <1>7, <1>8, <1>9, <3>1
    <3> DEFINE m == Min(gap)
    <3> HIDE DEF m
    <3>4. m \in 1..n /\ j < m /\ last = m - 1
      BY <1>5, <2>2, <3>2, <3>3 DEF m
    <3> QED BY <1>1, <1>6, <3>3, <3>4
  <2> QED BY <2>1, <2>2
<1> DEFINE w == SubSeq(s, f, last)
<1>11. /\ w \in Seq(D) /\ Len(w) = IF f <= last THEN last - f + 1 ELSE 0
       /\ \A i \in 1..(last - f + 1) : w[i] = s[f + i - 1]
  <2>1. f \in Int /\ last \in Int /\ \A i \in f..last : i \in 1..n
    BY <1>1, <1>6, <1>10
  <2>2. \A i \in f..last : s[i] \in D
    BY <2>1, ElementOfSeq DEF n
  <2> QED BY <2>1, <2>2, SubSeqProperties
<1>12. Commands!gdb_get_args_first(s) = w
  BY <1>4, <1>7, <1>9, Zenon DEF first
<1> HIDE DEF w
<1>13. Len(w) \in Nat \ {0} /\ w[1] = s[f]
  <2>1. f <= last /\ last - f + 1 \in Nat \ {0} /\ 1 \in 1..(last - f + 1) /\ f + 1 - 1 = f
    BY <1>1, <1>6, <1>10
  <2> QED BY <1>11, <2>1
<1> QED BY <1>11, <1>12, <1>13, Zenon

LEMMA CommandBlank ==
    ASSUME NEW D, NEW s \in Seq(D), \A i \in 1..Len(s) : s[i] = Space
    PROVE  Commands!gdb_get_args_first(s) = <<>>
<1>1. {i \in DOMAIN s : s[i] # Space} = {}
  BY LenProperties
<1> QED BY <1>1, Zenon DEF Commands!gdb_get_args_first, Space

LEMMA BehindPrefix ==
    ASSUME NEW x, NEW y, NEW D, NEW s \in Seq(D)
    PROVE  SubSeq(<<x, y>> \o s, 3, Len(<<x, y>> \o s)) = s
<1> DEFINE E == D \cup {x, y}
           q == <<x, y>>
           n == Len(s)
           u == q \o s
           w == SubSeq(u, 3, n + 2)
<1>1. s \in Seq(E) /\ q \in Seq(E) /\ Len(q) = 2 /\ n \in Nat
  <2>1. D \subseteq E
    OBVIOUS
  <2>2. s \in Seq(E)
    BY <2>1
  <2> QED BY <2>2, LenProperties
<1>2. \A i \in 1..n : s[i] \in E
  BY <1>1, ElementOfSeq
<1> HIDE DEF q, E
<1>3. /\ Len(u) = Len(q) + Len(s)
      /\ \A i \in 1..(Len(q) + Len(s)) : u[i] = IF i <= Len(q) THEN q[i] ELSE s[i - Len(q)]
  BY <1>1, ConcatProperties
<1> HIDE DEF n, u
<1>4. Len(u) = n + 2 /\ \A i \in 1..n : u[i + 2] = s[i]
  <2>1. Len(u) = 2 + n /\ \A i \in 1..(2 + n) : u[i] = IF i <= 2 THEN q[i] ELSE s[i - 2]
    BY <1>1, <1>3, Zenon DEF n
  <2>2. ASSUME NEW i \in 1..n PROVE u[i + 2] = s[i]
    <3>1. i + 2 \in 1..(2 + n) /\ ~(i + 2 <= 2) /\ (i + 2) - 2 = i
      BY <1>1
    <3> QED BY <2>1, <3>1
  <2> QED BY <1>1, <2>1, <2>2
<1>5. /\ 3 \in Int /\ n + 2 \in Int /\ (n + 2) - 3 + 1 = n
      /\ (IF 3 <= n + 2 THEN (n + 2) - 3 + 1 ELSE 0) = n
      /\ \A i \in 1..n : 3 + i - 1 = i + 2
  BY <1>1
<1>6. \A i \in 3..(n + 2) : u[i] \in E
  <2> SUFFICES ASSUME NEW i \in 3..(n + 2) PROVE u[i] \in E
    OBVIOUS
  <2>1. i - 2 \in 1..n /\ (i - 2) + 2 = i
    BY <1>1
  <2> QED BY <1>2, <1>4, <2>1
<1>7. /\ w \in Seq(E)
      /\ Len(w) = IF 3 <= n + 2 THEN (n + 2) - 3 + 1 ELSE 0
      /\ \A i \in 1..((n + 2) - 3 + 1) : w[i] = u[3 + i - 1]
  BY <1>5, <1>6, SubSeqProperties
<1> HIDE DEF w
<1>8. Len(w) = n /\ \A i \in 1..n : w[i] = s[i]
  BY <1>4, <1>5, <1>7
<1>9. w = s
  BY <1>1, <1>7, <1>8, LenProperties DEF n
<1>10. SubSeq(u, 3, Len(u)) = s
  BY <1>4, <1>9, Zenon DEF w
<1> QED BY <1>10, Zenon DEF u, q

LEMMA OneFragmentPrefix ==
    ASSUME NEW x, NEW D, NEW c \in Seq(D), Len(c) \in Nat \ {0}
    PROVE  IsPrefix(<<x>>, c) <=> c[1] = x
<1>1. Len(<<x>>) = 1 /\ <<x>>[1] = x /\ 1 <= Len(c)
  OBVIOUS
<1> DEFINE v == SubSeq(<<x>>, 1, 1)
           w == SubSeq(c, 1, 1)
<1>2. v \in Seq({x}) /\ Len(v) = 1 /\ v[1] = x
  <2>1. /\ v \in Seq({x}) /\ Len(v) = IF 1 <= 1 THEN 1 - 1 + 1 ELSE 0
        /\ \A i \in 1..(1 - 1 + 1) : v[i] = <<x>>[1 + i - 1]
    <3>1. 1 \in Int /\ \A i \in 1..1 : <<x>>[i] \in {x}
      BY <1>1
    <3> QED BY <3>1, SubSeqProperties
  <2> HIDE DEF v
  <2> QED BY <1>1, <2>1
<1>3. w \in Seq(D) /\ Len(w) = 1 /\ w[1] = c[1]
  <2>1. /\ w \in Seq(D) /\ Len(w) = IF 1 <= 1 THEN 1 - 1 + 1 ELSE 0
        /\ \A i \in 1..(1 - 1 + 1) : w[i] = c[1 + i - 1]
    <3>1. 1 \in Int /\ \A i \in 1..1 : i \in 1..Len(c)
      OBVIOUS
    <3>2. \A i \in 1..1 : c[i] \in D
      BY <3>1, ElementOfSeq
    <3> QED BY <3>1, <3>2, SubSeqProperties
  <2> HIDE DEF w
  <2> QED BY <2>1
<1> HIDE DEF v, w
<1>4. v = w <=> v[1] = w[1]
  BY <1>2, <1>3, LenProperties
<1>5. IsPrefix(<<x>>, c) <=> v = w
  BY <1>1 DEF IsPrefix, v, w
<1> QED BY <1>2, <1>3, <1>4, <1>5

(* What gdb_query_remote of GdbCommands makes of a command name c.         *)
Table == Commands!G_QUERY_REMOTE_SUBCOMMANDS

NameOf == << "help", "version" >>

LEMMA TableFacts ==
    /\ DOMAIN Table = {1, 2} /\ DOMAIN Subcommands = {1, 2}
    /\ \A i \in {1, 2} :
          /\ Table[i].name = <<NameOf[i]>> /\ Table[i].reply = Subcommands[i].reply
          /\ NameOf[i] \in DOMAIN Bytes /\ Bytes[NameOf[i]] = Subcommands[i].name
<1>1. /\ Table[1].name = <<"help">> /\ Table[2].name = <<"version">>
      /\ Table[1].reply = "hex:help" /\ Table[2].reply = "hex:version"
      /\ Subcommands[1].reply = "hex:help" /\ Subcommands[2].reply = "hex:version"
      /\ DOMAIN Table = {1, 2} /\ DOMAIN Subcommands = {1, 2}
      /\ NameOf[1] = "help" /\ NameOf[2] = "version"
  BY DEF Table, Commands!G_QUERY_REMOTE_SUBCOMMANDS, Subcommands, NameOf
<1>2. /\ "help" \in DOMAIN Bytes /\ Bytes["help"] = Subcommands[1].name
      /\ "version" \in DOMAIN Bytes /\ Bytes["version"] = Subcommands[2].name
  BY FragmentsAssumption
<1> QED BY <1>1, <1>2

LEMMA OutcomeFacts ==
    /\ \A r : Commands!Outcome(r).halts = FALSE /\ Commands!Outcome(r).replies = r
    /\ Commands!Halted.halts = TRUE /\ Commands!Halted.replies = <<>>
BY DEF Commands!Outcome, Commands!Halted

(* The outcome of the command that the fragments s stand for, and the      *)
(* strings that are no identifiers, as operators.                          *)
RemoteOutcome(s) == Commands!gdb_query_remote(<<"q", "Rcmd,">> \o s)
CommandName(s)   == Commands!gdb_get_args_first(s)

Dollar  == "$"
NoText  == ""

LEMMA RemoteOutcomeIs ==
    ASSUME NEW s \in Seq(DOMAIN Bytes), NEW match,
           match = Commands!FirstMatch(Table, CommandName(s))
    PROVE  RemoteOutcome(s) =
               IF CommandName(s) = <<>> THEN Commands!Outcome(<<>>)
               ELSE IF Head(CommandName(s)) = Dollar THEN Commands!Halted
               ELSE IF match = 0 THEN Commands!Unrecognised
               ELSE Commands!Outcome(<<Table[match].reply>>)
<1> DEFINE text == <<"q", "Rcmd,">> \o s
<1>1. SubSeq(text, 3, Len(text)) = s
  BY BehindPrefix, Zenon
<1> HIDE DEF text
<1>2. Commands!gdb_query_remote(text) =
               IF CommandName(s) = <<>> THEN Commands!Outcome(<<>>)
               ELSE IF Head(CommandName(s)) = Dollar THEN Commands!Halted
               ELSE IF match = 0 THEN Commands!Unrecognised
               ELSE Commands!Outcome(<<Table[match].reply>>)
  BY <1>1, Zenon DEF Commands!gdb_query_remote, Table, CommandName, Dollar
<1> QED BY <1>2, Zenon DEF text, RemoteOutcome

LEMMA BlankOutcome ==
    ASSUME NEW s \in Seq(DOMAIN Bytes), CommandName(s) = <<>>
    PROVE  RemoteOutcome(s) = Commands!Outcome(<<>>)
BY RemoteOutcomeIs, Zenon

(* For a name that begins with fragment x, "$" stops the system and the    *)
(* table is searched for x.                                                *)
LEMMA NamedOutcome ==
    ASSUME NEW s \in Seq(DOMAIN Bytes), NEW c \in Seq(DOMAIN Bytes),
           c = CommandName(s), Len(c) \in Nat \ {0},
           NEW o, o = RemoteOutcome(s)
    PROVE  /\ c[1] = Dollar => o.halts = TRUE /\ o.replies = <<>>
           /\ c[1] # Dollar =>
                 LET found == {i \in {1, 2} : c[1] = NameOf[i]}
                 IN  /\ o.halts = FALSE
                     /\ found = {} => o.replies = <<NoText>>
                     /\ found # {} => o.replies = <<Subcommands[Min(found)].reply>>
<1> DEFINE found == {i \in {1, 2} : c[1] = NameOf[i]}
           matching == {i \in DOMAIN Table : Commands!IsPrefix(Table[i].name, c)}
           match == Commands!FirstMatch(Table, c)
<1>2. c # <<>> /\ Head(c) = c[1]
  <2>1. c # <<>>
    <3>1. Len(<<>>) = 0
      OBVIOUS
    <3> QED BY <3>1
  <2> QED BY <2>1, HeadTailProperties
<1>4. matching = found
  <2>1. \A i \in {1, 2} : Commands!IsPrefix(Table[i].name, c) <=> c[1] = NameOf[i]
    <3> SUFFICES ASSUME NEW i \in {1, 2}
                 PROVE  Commands!IsPrefix(Table[i].name, c) <=> c[1] = NameOf[i]
      OBVIOUS
    <3>1. Table[i].name = <<NameOf[i]>>
      BY TableFacts, Zenon
    <3>2. IsPrefix(<<NameOf[i]>>, c) <=> c[1] = NameOf[i]
      BY OneFragmentPrefix
    <3> QED BY <3>1, <3>2, SameOperators, Zenon
  <2>2. DOMAIN Table = {1, 2}
    BY TableFacts
  <2> QED BY <2>1, <2>2, Zenon
<1>5. match = IF matching = {} THEN 0 ELSE Commands!Min(matching)
  BY Zenon DEF Commands!FirstMatch
<1> HIDE DEF matching, match
<1>6. match = IF found = {} THEN 0 ELSE Min(found)
  BY <1>4, <1>5, SameOperators, Zenon
<1>7. found # {} => Min(found) \in {1, 2}
  <2>1. found \in SUBSET Nat /\ found \subseteq {1, 2}
    OBVIOUS
  <2> HIDE DEF found
  <2> QED BY <2>1, MinIsLeast
<1> HIDE DEF found
<1>8. o = IF c[1] = Dollar THEN Commands!Halted
          ELSE IF match = 0 THEN Commands!Unrecognised
          ELSE Commands!Outcome(<<Table[match].reply>>)
  BY <1>2, RemoteOutcomeIs, Zenon DEF match
<1>9. c[1] = Dollar => o.halts = TRUE /\ o.replies = <<>>
  BY <1>8, OutcomeFacts, Zenon
<1>10. ASSUME c[1] # Dollar, found = {} PROVE o.halts = FALSE /\ o.replies = <<NoText>>
  <2>1. o = Commands!Outcome(<<NoText>>)
    BY <1>6, <1>8, <1>10, Zenon DEF Commands!Unrecognised, NoText
  <2> QED BY <2>1, OutcomeFacts, Zenon
<1>11. ASSUME c[1] # Dollar, found # {}
       PROVE  o.halts = FALSE /\ o.replies = <<Subcommands[Min(found)].reply>>
  <2>1. match = Min(found) /\ match \in {1, 2}
    BY <1>6, <1>7, <1>11, Zenon
  <2>2. match # 0
    BY <2>1
  <2>3. o = Commands!Outcome(<<Table[match].reply>>)
    BY <1>8, <1>11, <2>2, Zenon
  <2>4. Table[match].reply = Subcommands[match].reply
    BY <2>1, TableFacts, Zenon
  <2> QED BY <2>1, <2>3, <2>4, OutcomeFacts, Zenon
<1>12. found = {i \in {1, 2} : c[1] = NameOf[i]}
  BY DEF found
<1> QED BY <1>9, <1>10, <1>11, <1>12, Zenon

(* The characters' side.                                                   *)
LEMMA AnswerByFragment ==
    ASSUME WordInv, pc \in {"returned", "halted"}, NEW s \in Seq(DOMAIN Bytes),
           ~Undecodable, Text \in Seq(NonZero), NEW f, NEW a, Opens(s, Text, f, a)
    PROVE  /\ argv # <<>>
           /\ message[argv[1]] = 36 <=> s[f] = Dollar
           /\ Matching = {i \in {1, 2} : s[f] = NameOf[i]}
<1> DEFINE b == Bytes[s[f]]
           k == Len(Bytes[s[f]])
<1>1. /\ argv # <<>> /\ argv[1] = a /\ a \in Nat
      /\ s[f] \in DOMAIN Bytes /\ k \in Nat \ {0}
      /\ EndFrom(a) \in Nat /\ a + k <= EndFrom(a)
      /\ \A i \in 1..(EndFrom(a) - a) : message[a + i - 1] = Text[a + i]
      /\ \A i \in 1..k : Text[a + i] = b[i]
  BY FirstArgument
<1>2. ASSUME NEW g \in DOMAIN Bytes PROVE BeginsWith(Bytes[g], a) <=> s[f] = g
  <2>1. /\ a \in Nat /\ s[f] \in DOMAIN Bytes /\ EndFrom(a) \in Nat
        /\ a + Len(Bytes[s[f]]) <= EndFrom(a)
        /\ \A i \in 1..(EndFrom(a) - a) : message[a + i - 1] = Text[a + i]
        /\ \A i \in 1..Len(Bytes[s[f]]) : Text[a + i] = Bytes[s[f]][i]
    BY <1>1, Zenon
  <2> HIDE DEF b, k
  <2> QED BY <2>1, NameMatches, Zenon
<1>3. message[a] = 36 <=> s[f] = Dollar
  <2>1. Dollar \in DOMAIN Bytes /\ Bytes[Dollar] = <<36>>
    BY FragmentsAssumption, Zenon DEF Dollar
  <2>2. BeginsWith(<<36>>, a) <=> s[f] = Dollar
    BY <1>2, <2>1, Zenon
  <2>3. BeginsWith(<<36>>, a) <=> a + Len(<<36>>) <= EndFrom(a)
                                   /\ \A i \in 1..Len(<<36>>) : message[a + i - 1] = <<36>>[i]
    BY Zenon DEF BeginsWith
  <2>4. Len(<<36>>) = 1 /\ <<36>>[1] = 36 /\ 1..1 = {1} /\ a + 1 - 1 = a
    BY <1>1
  <2>5. a + 1 <= EndFrom(a)
    <3> HIDE DEF k
    <3> DEFINE e == EndFrom(a)
    <3>1. e \in Nat /\ a + k <= e /\ k \in Nat \ {0} /\ a \in Nat
      BY <1>1, Zenon
    <3> HIDE DEF e
    <3>2. a + 1 <= e
      BY <3>1
    <3> QED BY <3>2 DEF e
  <2>6. (\A i \in 1..1 : message[a + i - 1] = <<36>>[i]) <=> message[a] = 36
    BY <2>4
  <2> QED BY <2>2, <2>3, <2>4, <2>5, <2>6, Zenon
<1>4. Matching = {i \in {1, 2} : s[f] = NameOf[i]}
  <2>1. Matching = {i \in {1, 2} : BeginsWith(Subcommands[i].name, a)}
    BY <1>1, TableFacts, Zenon DEF Matching
  <2>2. \A i \in {1, 2} : BeginsWith(Subcommands[i].name, a) <=> s[f] = NameOf[i]
    BY <1>2, TableFacts, Zenon
  <2> QED BY <2>1, <2>2, Zenon
<1> QED BY <1>1, <1>3, <1>4, Zenon

(* MatchesCommandTable: character by character, a monitor command gets the *)
(* answer, or stops the system, that the table of GdbCommands says, in     *)
(* whatever fragments its text is written.                                 *)
THEOREM MatchesCommandTableAlways == Spec => []MatchesCommandTable
<1>1. WordInv => MatchesCommandTable
  <2> DEFINE s == Fragments[digits]
             o == RemoteOutcome(Fragments[digits])
  <2> SUFFICES ASSUME WordInv, pc \in {"returned", "halted"}, digits \in DOMAIN Fragments
               PROVE  /\ o.halts <=> pc = "halted"
                      /\ o.replies = IF reply = NoReply THEN <<>> ELSE <<reply>>
    BY Zenon DEF MatchesCommandTable, RemoteOutcome
  <2>1. /\ s \in Seq(DOMAIN Bytes) /\ ~Undecodable
        /\ Text = Said(s) /\ Text \in Seq(NonZero)
    BY DecodedIsSaid
  <2> DEFINE c == CommandName(s)
  <2>2. /\ TypeOK /\ HaltsExactlyUndecodable /\ SplitInv
    BY Zenon DEF WordInv, DecodeInv, ConvertInv
  <2>3. /\ Len(argv) = FirstWords
        /\ pc = "halted" => reply = NoReply /\ message[argv[1]] = 36 /\ Len(argv) > 0
        /\ pc = "returned" /\ argv = <<>> => reply = NoReply
        /\ pc = "returned" /\ argv # <<>> => message[argv[1]] # 36 /\ reply = Answer
    BY <2>1, <2>2 DEF HaltsExactlyUndecodable, SplitInv
  <2> HIDE DEF s, c, o
  <2>4. o = RemoteOutcome(s)
    BY Zenon DEF o, s
  <2>5. CASE Blank(s, Text)
    <3>1. argv = <<>>
      <4>1. StartsOf(Text) = {}
        BY <2>1, <2>5, LenProperties DEF Blank, StartsOf
      <4>2. FirstWords = 0
        BY <2>1, <4>1, FirstWordsCount
      <4> QED BY <2>2, <2>3, <4>2, TypeFacts, EmptySeq
    <3>2. pc = "returned" /\ reply = NoReply
      <4>1. Len(<<>>) = 0
        OBVIOUS
      <4> QED BY <2>3, <3>1, <4>1
    <3>3. c = <<>>
      BY <2>1, <2>5, CommandBlank, Zenon DEF Blank, c, CommandName
    <3>4. o = Commands!Outcome(<<>>)
      BY <2>1, <2>4, <3>3, BlankOutcome DEF c
    <3>5. o.halts = FALSE /\ o.replies = <<>>
      BY <3>4, OutcomeFacts, Zenon
    <3> QED BY <3>2, <3>5
  <2>6. CASE \E f, a \in Nat : Opens(s, Text, f, a)
    <3>1. PICK f \in Nat, a \in Nat : Opens(s, Text, f, a)
      BY <2>6
    <3> DEFINE found == {i \in {1, 2} : s[f] = NameOf[i]}
    <3>2. /\ argv # <<>>
          /\ message[argv[1]] = 36 <=> s[f] = Dollar
          /\ Matching = found
      BY <2>1, <3>1, AnswerByFragment
    <3>3. c \in Seq(DOMAIN Bytes) /\ Len(c) \in Nat \ {0} /\ c[1] = s[f]
      <4>1. f \in 1..Len(s) /\ s[f] # Space /\ \A i \in 1..(f - 1) : s[i] = Space
        BY <3>1, Zenon DEF Opens
      <4> QED BY <2>1, <4>1, CommandOpens DEF c, CommandName
    <3>4. /\ s[f] = Dollar => o.halts = TRUE /\ o.replies = <<>>
          /\ s[f] # Dollar =>
                /\ o.halts = FALSE
                /\ found = {} => o.replies = <<NoText>>
                /\ found # {} => o.replies = <<Subcommands[Min(found)].reply>>
      <4>1. c = CommandName(s)
        BY DEF c
      <4> DEFINE hits == {i \in {1, 2} : c[1] = NameOf[i]}
      <4>2. /\ c[1] = Dollar => o.halts = TRUE /\ o.replies = <<>>
            /\ c[1] # Dollar =>
                  /\ o.halts = FALSE
                  /\ hits = {} => o.replies = <<NoText>>
                  /\ hits # {} => o.replies = <<Subcommands[Min(hits)].reply>>
        BY <2>1, <2>4, <3>3, <4>1, NamedOutcome
      <4>3. hits = found
        BY <3>3, Zenon
      <4> HIDE DEF hits, found
      <4> QED BY <3>3, <4>2, <4>3, Zenon
    <3>5. CASE pc = "halted"
      BY <2>3, <3>2, <3>4, <3>5, Zenon
    <3>6. CASE pc = "returned"
      <4>1. s[f] # Dollar /\ reply = Answer
        BY <2>3, <3>2, <3>6, Zenon
      <4>2. o.halts = FALSE /\ pc # "halted"
        BY <3>4, <3>6, <4>1
      <4>3. Answer = IF found = {} THEN NoText ELSE Subcommands[Min(found)].reply
        BY <3>2, Zenon DEF Answer, NoText
      <4>4. o.replies = <<Answer>>
        BY <3>4, <4>1, <4>3, Zenon
      <4>5. Answer # NoReply
        <5>1. found # {} => Min(found) \in {1, 2}
          <6>1. found \in SUBSET Nat /\ found \subseteq {1, 2}
            OBVIOUS
          <6> HIDE DEF found
          <6> QED BY <6>1, MinIsLeast
        <5>2. \A i \in {1, 2} : Subcommands[i].reply \in {"hex:help", "hex:version"}
          BY DEF Subcommands
        <5>3. NoText # NoReply /\ "hex:help" # NoReply /\ "hex:version" # NoReply
          BY Zenon DEF NoReply, NoText
        <5> HIDE DEF found
        <5> QED BY <4>3, <5>1, <5>2, <5>3, Zenon
      <4> QED BY <4>1, <4>2, <4>4, <4>5, Zenon
    <3> QED BY <3>5, <3>6
  <2> QED BY <2>1, <2>5, <2>6, FirstFragment, Zenon DEF BlankOrOpens
<1> QED BY <1>1, WordInvariant, PTL
=============================================================================
