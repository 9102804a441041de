---------------------------- MODULE StreamItems ----------------------------
(***************************************************************************)
(* gdb_packet_read_stream over items instead of characters.                *)
(*                                                                         *)
(* An item is a run of received characters that the reader treats as one:  *)
(*   sum   what it adds to the checksum, modulo 256;                       *)
(*   ref   the value of the two digits that close a frame in it,           *)
(*         OpenEnd when none does, BadDigits when a digit is rejected;     *)
(*   text  the command text of the frame it closes.                        *)
(* A whole packet is an item, and so are a '+', a Ctrl-C, the first part   *)
(* of a packet cut by a segment boundary, and its last part.               *)
(*                                                                         *)
(* An accepted frame carries the text of the item that closes it.  That is *)
(* so unless the stored characters in front of it add up to a multiple of  *)
(* 256; ItemReader relates items to their characters.                      *)
(***************************************************************************)
EXTENDS Integers, Sequences, FiniteSetsExt

OpenEnd   == -1
BadDigits == -2

Item(sum, ref, text) == [sum |-> sum, ref |-> ref, text |-> text]

AllItems ==
    [sum : 0..255, ref : {OpenEnd, BadDigits} \cup 0..255, text : Seq(STRING)]

Sums(data) == [i \in DOMAIN data |-> data[i].sum]

(* What one call makes of a non-empty array of items: the items consumed,  *)
(* and the verdict on them ("HALT" is the assertion on a checksum digit).  *)
gdb_packet_read_stream(data) ==
    LET closing  == {i \in DOMAIN data : data[i].ref # OpenEnd}
        consumed == IF closing = {} THEN Len(data) ELSE Min(closing)
        last     == data[consumed]
        checksum == MapThenSumSet(LAMBDA i : Sums(data)[i], 1..consumed) % 256
    IN  [consumed |-> consumed,
         text     |-> last.text,
         verdict  |-> CASE last.ref = OpenEnd   -> "COLLECTING"
                        [] last.ref = BadDigits -> "HALT"
                        [] last.ref = checksum  -> "OK"
                        [] OTHER                -> "CHECKSUM_ERROR"]
=============================================================================
