----------------------------- MODULE ItemReader -----------------------------
(***************************************************************************)
(* Links StreamItems to the characters: the reader of PacketReader, run on *)
(* the characters of an array of items, gives the verdict, stops where and *)
(* leaves the payload that StreamItems says of the items.                  *)
(*                                                                         *)
(* Every step is one of PacketReader; "item" and "offset" only say which   *)
(* character of the array is next.                                         *)
(***************************************************************************)
EXTENDS PacketReader, StreamItems

CONSTANTS Characters,   \* item name -> its characters
          ItemOf,       \* item name -> its item
          Bytes,        \* fragment of a command text -> its characters
          MaxItems      \* items in one call's array

(* What it means that an item stands for its characters.  A '#' is only in *)
(* the frame that the last two characters close.                           *)
ItemFits(name) ==
    LET c      == Characters[name]
        closes == LowerDigit(c, Len(c))
    IN  /\ c \in Seq(Alphabet) /\ c # <<>>
        /\ \A i \in DOMAIN c : c[i] = CHAR_STOP => closes /\ i = Len(c) - 2
        /\ ItemOf[name].sum = SumOver(c, CountedPositions(c))
        /\ ItemOf[name].ref =
               IF ~closes THEN OpenEnd
               ELSE IF IsHexNibble(c[Len(c) - 1]) /\ IsHexNibble(c[Len(c)]) THEN DigitsOf(c)
               ELSE BadDigits

BytesOf(text) == FlattenSeq([i \in DOMAIN text |-> Bytes[text[i]]])

(* The text of an item is what its frame has between '$' and '#'.          *)
TextFits(name) ==
    LET c == Characters[name]
    IN  LowerDigit(c, Len(c)) /\ c[1] = CHAR_START =>
            /\ BytesOf(ItemOf[name].text) = SubSeq(c, 2, Len(c) - 3)
            /\ \A i \in DOMAIN c : c[i] # CHAR_CTRL_C

(* The array is one pbuf's, which is shorter than the buffer.              *)
ASSUME ItemReaderAssumption ==
    /\ MaxInput < MAX_BUFFER_LENGTH
    /\ MaxItems \in Nat \ {0}
    /\ DOMAIN Characters = DOMAIN ItemOf
    /\ \A name \in DOMAIN ItemOf : ItemFits(name) /\ TextFits(name)

VARIABLES data,     \* the names of the items of the array
          item,     \* the place in it of the item that is read
          offset    \* how many of its characters are read

itemVars == <<vars, data, item, offset>>

Arrays == UNION {[1..n -> DOMAIN ItemOf] : n \in 1..MaxItems}

ItemInit ==
    /\ Init
    /\ data \in Arrays /\ item = 1 /\ offset = 0

CallWithItems == pc = "idle" /\ Call /\ UNCHANGED <<data, item, offset>>

ItemLeft == item <= Len(data)

Current == Characters[data[item]]

ReadItem ==
    /\ ItemLeft /\ Read(Current[offset + 1])
    /\ UNCHANGED data
    /\ IF offset + 1 = Len(Current)
       THEN item' = item + 1 /\ offset' = 0
       ELSE offset' = offset + 1 /\ UNCHANGED item

ReadItemHalts ==
    /\ ItemLeft /\ ReadHalts(Current[offset + 1])
    /\ UNCHANGED <<data, item, offset>>

EndOfItems ==
    /\ ~ItemLeft /\ EndOfInput
    /\ UNCHANGED <<data, item, offset>>

ItemNext == CallWithItems \/ ReadItem \/ ReadItemHalts \/ EndOfItems

ItemSpec == ItemInit /\ [][ItemNext]_itemVars
-----------------------------------------------------------------------------
CharactersOf(names) == FlattenSeq([i \in DOMAIN names |-> Characters[names[i]]])

ItemsOf(names) == [i \in DOMAIN names |-> ItemOf[names[i]]]

ByItem == gdb_packet_read_stream(ItemsOf(data))

(* The call on the items and the call on their characters agree on the     *)
(* verdict and on where the call stops: behind a whole item.               *)
VerdictsMatchCharacters ==
    pc \in {"returned", "halted"} =>
        /\ ByItem.verdict = IF pc = "halted" THEN "HALT" ELSE result
        /\ pc = "returned" => input = CharactersOf(SubSeq(data, 1, ByItem.consumed))

GDB_PACKET_PREIX_LENGTH == 1    \* '$'

(* The payload that gdb_packet_get_buffer_payload points to: it starts     *)
(* behind the buffer's first character, whatever that is; '#', two digits  *)
(* and the NUL follow it.                                                  *)
Payload(buffer) == SubSeq(buffer, GDB_PACKET_PREIX_LENGTH + 1, Len(buffer) - 4)

(* What the handlers find in the buffer of an accepted frame is the text   *)
(* of the item that closed it.  (The exception, which these items do not   *)
(* meet, is a frame behind stored characters whose counted sum is a        *)
(* multiple of 256, such as a lone '$': it is read at the wrong place.)    *)
TextsMatchCharacters ==
    Returned /\ result = "OK" => Payload(packet.buffer) = BytesOf(ByItem.text)
=============================================================================
