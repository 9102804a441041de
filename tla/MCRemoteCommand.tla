-------------------------- MODULE MCRemoteCommand --------------------------
(***************************************************************************)
(* RemoteCommand over every text of up to five bytes from an alphabet with *)
(* both delimiters, NUL and '$', every string of up to three characters    *)
(* around the edges of the hex digits, every character in either place of  *)
(* a pair, and the commands of MCCommandLoop with two texts that just fit  *)
(* and just do not.                                                        *)
(***************************************************************************)
EXTENDS RemoteCommand, SequencesExt, TLC

Encoded(text) ==
    [i \in 1..(2 * Len(text)) |->
        LET byte == text[(i + 1) \div 2]
        IN  hex_nibble_from_char(IF i % 2 = 1 THEN byte \div 16 ELSE byte % 16)]

ShortTexts == SeqOf({0, 9, 32, 36, 97}, 5)

(* '/', '0', '9', ':', '@', 'A', 'F', 'G', '`', 'a', 'f', 'g'              *)
EdgeDigits ==
    SeqOf({47, 48, 57, 58, 64, 65, 70, 71, 96, 97, 102, 103}, 3)
        \cup {<<48, c>> : c \in Char \ {35}} \cup {<<c, 48>> : c \in Char \ {35}}

FragmentBytes ==
    ("help" :> Subcommands[1].name) @@ ("version" :> Subcommands[2].name) @@
    ("$" :> <<36>>) @@ (" " :> <<32>>) @@
    ("me" :> <<109, 101>>) @@ ("reset" :> <<114, 101, 115, 101, 116>>)

NamedTexts ==
    {<<>>, <<" ">>, <<"help">>, <<" ", "version", " ", "help">>, <<"help", "me">>,
     <<"reset">>, <<"$">>, <<"$", "help">>}

Digits(text) == Encoded(FlattenSeq([i \in DOMAIN text |-> FragmentBytes[text[i]]]))

TextFragments ==
    [d \in {Digits(text) : text \in NamedTexts} |->
        CHOOSE text \in NamedTexts : Digits(text) = d]

LongTexts == {[i \in 1..13 |-> 97], [i \in 1..14 |-> 97], [i \in 1..15 |-> 97]}

ClientTexts ==
    {Encoded(text) : text \in ShortTexts \cup LongTexts}
        \cup EdgeDigits \cup DOMAIN TextFragments
=============================================================================
