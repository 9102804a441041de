--------------------------- MODULE RemoteCommand ---------------------------
(***************************************************************************)
(* gdb_query_remote (firmware/source/gdb/query/gdb_query_remote.c): a      *)
(* monitor command from the hex digits of its packet to the handler, with  *)
(* the str_from_hex of common/hex.c and the gdb_get_args of gdb/gdb.c.     *)
(*                                                                         *)
(* "message" is the array on the stack, indexed from 0 as in C; a cell not *)
(* written since the call holds Junk.  "digits" is what the packet carries *)
(* behind "qRcmd,"; in the input packet a '#' follows it.  Nothing of a    *)
(* call outlives it, so a behaviour is one call.                           *)
(***************************************************************************)
EXTENDS Hex, SequencesExt, FiniteSetsExt

CONSTANTS Texts,                \* the digits clients send
          Fragments,            \* for some of them, the text in GdbCommands' terms
          Bytes,                \* fragment of such a text -> its characters
          MESSAGE_MAX_LENGTH,   \* GDB_QUERY_MESSAGE_MAX_LENGTH, 256
          MAX_ARG_COUNT         \* GDB_MAX_ARG_COUNT, 32

ASSUME RemoteAssumption ==
    /\ Texts \subseteq Seq(Char \ {35})
    /\ MESSAGE_MAX_LENGTH \in Nat \ {0}
    /\ MAX_ARG_COUNT \in Nat \ {0}

VARIABLES pc,            \* "convert", "split", "execute", "returned", "halted"
          digits,        \* the digits of this command
          message,       \* the decoded text
          value_index,   \* the loop counter of str_from_hex
          cursor,        \* p_tokenizer_state of gdb_get_args
          argv,          \* the arguments, as offsets into message
          reply          \* what the client gets; NoReply if nothing

vars == <<pc, digits, message, value_index, cursor, argv, reply>>

Junk    == -1
NoReply == "none"

Cells == 0..(MESSAGE_MAX_LENGTH - 1)

Delimiters == {32, 9}       \* " \t"

Subcommands ==
    << [name |-> <<104, 101, 108, 112>>,                  reply |-> "hex:help"],
       [name |-> <<118, 101, 114, 115, 105, 111, 110>>,   reply |-> "hex:version"] >>
-----------------------------------------------------------------------------
PREFIX_LENGTH   == 6        \* strlen("qRcmd,")
OVERHEAD_LENGTH == 4        \* '$', '#' and two digits

(* gdb_packet_get_payload_length: the packet's length counts its NUL.      *)
payload_length ==
    LET length == 1 + PREFIX_LENGTH + Len(digits) + 3 + 1
    IN  length - OVERHEAD_LENGTH

hex_length == payload_length - PREFIX_LENGTH

(* Character i of the packet's buffer, counted from the first digit.       *)
Hexadecimal(i) == IF i < Len(digits) THEN digits[i + 1] ELSE 35

Value(i) == 16 * char_from_hex_nibble(Hexadecimal(2 * i))
               + char_from_hex_nibble(Hexadecimal(2 * i + 1))

ValidPair(i) == IsHexNibble(Hexadecimal(2 * i)) /\ IsHexNibble(Hexadecimal(2 * i + 1))

(* The handler is called with an accepted packet.                          *)
Init ==
    /\ pc = "convert"
    /\ digits \in Texts
    /\ message = [i \in Cells |-> Junk]
    /\ value_index = 0 /\ cursor = 0
    /\ argv = <<>>
    /\ reply = NoReply

(* "Target buffer length exceeded." and the length above zero.             *)
Fits == MESSAGE_MAX_LENGTH >= hex_length \div 2 + 1 /\ hex_length > 0

Converting == pc = "convert" /\ Fits /\ value_index < hex_length \div 2

Convert ==
    /\ Converting /\ ValidPair(value_index)
    /\ message' = [message EXCEPT ![value_index] = Value(value_index)]
    /\ value_index' = value_index + 1
    /\ UNCHANGED <<pc, digits, cursor, argv, reply>>

ConvertHalts ==
    /\ \/ pc = "convert" /\ ~Fits
       \/ Converting /\ ~ValidPair(value_index)
    /\ pc' = "halted"
    /\ UNCHANGED <<digits, message, value_index, cursor, argv, reply>>

(* Mutant: the NUL forgotten.                                              *)
Terminate_NoNul ==
    /\ pc = "convert" /\ Fits /\ value_index = hex_length \div 2
    /\ pc' = "split"
    /\ UNCHANGED <<digits, message, value_index, cursor, argv, reply>>

(* The loop ends and the text is terminated.                               *)
Terminate ==
    /\ pc = "convert" /\ Fits /\ value_index = hex_length \div 2
    /\ message' = [message EXCEPT ![hex_length \div 2] = 0]
    /\ pc' = "split"
    /\ UNCHANGED <<digits, value_index, cursor, argv, reply>>
-----------------------------------------------------------------------------
(* strtok_r: a token is a run without delimiters; the character behind it  *)
(* becomes its NUL.  EndFrom(i) is the end of the string that starts at i. *)
EndFrom(i)   == Min({j \in Cells : j >= i /\ message[j] = 0} \cup {MESSAGE_MAX_LENGTH})
InWord(i)    == message[i] # 0 /\ message[i] \notin Delimiters
WordsFrom(i) == {j \in i..(EndFrom(i) - 1) : InWord(j)}

(* Mutant: one argument more than the array holds.                         *)
RoomForArgument_OffByOne == Len(argv) <= MAX_ARG_COUNT

RoomForArgument == Len(argv) < MAX_ARG_COUNT

Token ==
    LET first == Min(WordsFrom(cursor))
        last  == Min({j \in first..EndFrom(first) : j = EndFrom(first) \/ ~InWord(j)})
    IN  /\ pc = "split" /\ WordsFrom(cursor) # {} /\ RoomForArgument
        /\ argv' = Append(argv, first)
        /\ \/ last = EndFrom(first) /\ cursor' = last /\ UNCHANGED message
           \/ /\ last # EndFrom(first)
              /\ cursor' = last + 1
              /\ message' = [message EXCEPT ![last] = 0]
        /\ UNCHANGED <<pc, digits, value_index, reply>>

(* No token is left, or GDB_RESULT_EXCESS_ARGUMENTS, which nobody looks    *)
(* at.  Without an argument the client gets no answer.                     *)
Tokenized ==
    /\ pc = "split"
    /\ WordsFrom(cursor) = {} \/ ~RoomForArgument
    /\ pc' = IF argv = <<>> THEN "returned" ELSE "execute"
    /\ UNCHANGED <<digits, message, value_index, cursor, argv, reply>>
-----------------------------------------------------------------------------
(* gdb_execute_sub on argv[0].  Mutant: strcmp in place of strncmp.        *)
BeginsWith_Whole(name, offset) ==
    /\ offset + Len(name) = EndFrom(offset)
    /\ \A k \in 1..Len(name) : message[offset + k - 1] = name[k]

(* strncmp over the length of the name.                                    *)
BeginsWith(name, offset) ==
    /\ offset + Len(name) <= EndFrom(offset)
    /\ \A k \in 1..Len(name) : message[offset + k - 1] = name[k]

Matching == {i \in DOMAIN Subcommands : BeginsWith(Subcommands[i].name, argv[1])}

Execute ==
    /\ pc = "execute"
    /\ message[argv[1]] # 36
    /\ reply' = IF Matching = {} THEN "" ELSE Subcommands[Min(Matching)].reply
    /\ pc' = "returned"
    /\ UNCHANGED <<digits, message, value_index, cursor, argv>>

(* "GDB packet start delimiter is invalid in commands names."              *)
ExecuteHalts ==
    /\ pc = "execute"
    /\ message[argv[1]] = 36
    /\ pc' = "halted"
    /\ UNCHANGED <<digits, message, value_index, cursor, argv, reply>>

Next ==
    \/ Convert \/ ConvertHalts \/ Terminate
    \/ Token \/ Tokenized
    \/ Execute \/ ExecuteHalts

Spec == Init /\ [][Next]_vars
-----------------------------------------------------------------------------
(* Every variable has its type; the text, its NUL and the arguments stay   *)
(* inside the arrays on the stack.                                         *)
TypeOK ==
    /\ pc \in {"returned", "convert", "split", "execute", "halted"}
    /\ digits \in Seq(Char)
    /\ message \in [Cells -> Char \cup {Junk}]
    /\ value_index \in 0..(MESSAGE_MAX_LENGTH - 1)
    /\ cursor \in 0..MESSAGE_MAX_LENGTH
    /\ argv \in Seq(Cells) /\ Len(argv) <= MAX_ARG_COUNT
    /\ reply \in {NoReply, "", "hex:help", "hex:version"}

(* '0'..'9', 'A'..'F' and 'a'..'f'; and the characters that the decoder's  *)
(* two corrections turn into values of digits as well: ':'..'@' and        *)
(* 'W'..'`', of which hex.c ("Convert a single hex nibble", line 57) and   *)
(* its assertion "Invalid hex nibble." (line 71) say nothing.              *)
HexDigits      == (48..57) \cup (65..70) \cup (97..102)
TakenForDigits == (58..64) \cup (87..96)

IsUndecodable(d) ==
    \/ Len(d) % 2 = 1
    \/ Len(d) \div 2 >= MESSAGE_MAX_LENGTH
    \/ \E i \in DOMAIN d : d[i] \notin HexDigits \cup TakenForDigits

(* The text a client means by its digits, read off the digits alone.       *)
BytesOf(d) ==
    [i \in 1..(Len(d) \div 2) |->
        16 * char_from_hex_nibble(d[2 * i - 1]) + char_from_hex_nibble(d[2 * i])]

Undecodable == IsUndecodable(digits)
Decoded     == BytesOf(digits)

TextOf(bytes) ==
    SubSeq(bytes, 1, Min({i \in DOMAIN bytes : bytes[i] = 0} \cup {Len(bytes) + 1}) - 1)

(* The words of a text, in order: maximal runs without a delimiter.        *)
WordsOf(text) ==
    LET starts == {i \in DOMAIN text : /\ text[i] \notin Delimiters
                                       /\ i = 1 \/ text[i - 1] \in Delimiters}
        end(i) == Min({j \in i..Len(text) : text[j] \in Delimiters} \cup {Len(text) + 1})
    IN  [k \in 1..Cardinality(starts) |->
            LET i == CHOOSE s \in starts : Cardinality({r \in starts : r < s}) = k - 1
            IN  SubSeq(text, i, end(i) - 1)]

Words == WordsOf(TextOf(Decoded))

String(offset) == [k \in 1..(EndFrom(offset) - offset) |-> message[offset + k - 1]]

(* The decoder stops the system for a text of odd length, one that does    *)
(* not fit with its NUL, and one with a character that is neither a hex    *)
(* digit nor among the seventeen it takes for one, and for nothing else;   *)
(* after that only a command name that begins with '$' does.               *)
HaltsExactlyUndecodable ==
    /\ pc \in {"split", "execute", "returned"} => ~Undecodable
    /\ pc = "halted" =>
          Undecodable \/ (Len(argv) > 0 /\ message[argv[1]] = 36)

(* What the handler sees are the first words of the client's text, as many *)
(* as there is room for: no cell is read that the decoder did not write,   *)
(* and no argument changes when a later one is cut off.                    *)
ArgumentsAreWords ==
    pc = "execute" =>
        /\ Len(argv) = Min({MAX_ARG_COUNT, Len(Words)})
        /\ \A k \in DOMAIN argv : String(argv[k]) = Words[k]

(* The table of GdbCommands, which the other modules use for monitor       *)
(* commands, answers and stops the system as the characters do.            *)
Commands == INSTANCE GdbCommands WITH HasTarget <- FALSE

(* What it means to cut a text the way GdbCommands does: the names of the  *)
(* table and "$" are fragments, no fragment begins another, and " " alone  *)
(* is a delimiter.                                                         *)
FragmentOK(f) ==
    /\ Bytes[f] \in Seq(Char) /\ Bytes[f] # <<>>
    /\ \A i \in DOMAIN Bytes[f] : Bytes[f][i] # 0
    /\ f = " " => Len(Bytes[f]) = 1 /\ Bytes[f][1] \in Delimiters
    /\ f # " " => \A i \in DOMAIN Bytes[f] : Bytes[f][i] \notin Delimiters
    /\ \A g \in DOMAIN Bytes : IsPrefix(Bytes[f], Bytes[g]) => f = g

ASSUME FragmentsAssumption ==
    /\ {"help", "version", "$"} \subseteq DOMAIN Bytes
    /\ Bytes["help"] = Subcommands[1].name
    /\ Bytes["version"] = Subcommands[2].name
    /\ Bytes["$"] = <<36>>
    /\ \A f \in DOMAIN Bytes : FragmentOK(f)
    /\ \A d \in DOMAIN Fragments :
          /\ Fragments[d] \in Seq(DOMAIN Bytes)
          /\ ~IsUndecodable(d)
          /\ BytesOf(d) = FlattenSeq([i \in DOMAIN Fragments[d] |-> Bytes[Fragments[d][i]]])

MatchesCommandTable ==
    pc \in {"returned", "halted"} /\ digits \in DOMAIN Fragments =>
        LET outcome == Commands!gdb_query_remote(<<"q", "Rcmd,">> \o Fragments[digits])
        IN  /\ outcome.halts <=> pc = "halted"
            /\ outcome.replies = IF reply = NoReply THEN <<>> ELSE <<reply>>
=============================================================================
