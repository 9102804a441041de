---------------------------- MODULE SampleItems ----------------------------
(***************************************************************************)
(* The items the runs send, as characters and as items of StreamItems.     *)
(***************************************************************************)
EXTENDS StreamItems, TLC

SampleBytes == ("!" :> <<33>>) @@ ("g" :> <<103>>) @@ ("q" :> <<113>>) @@ ("C" :> <<67>>)
            @@ ("X" :> <<88>>) @@ ("binary" :> <<255>>) @@ ("z" :> <<122>>)
            @@ ("Rcmd," :> <<82, 99, 109, 100, 44>>) @@ ("$" :> <<50, 52>>)

SampleCharacters ==
       ("!"      :> <<36, 33, 35, 50, 49>>)             \* $!#21
    @@ ("g"      :> <<36, 103, 35, 54, 55>>)            \* $g#67
    @@ ("qC"     :> <<36, 113, 67, 35, 98, 52>>)        \* $qC#b4
    @@ ("z"      :> <<36, 122, 35, 55, 65>>)            \* $z#7A
    @@ ("X"      :> <<36, 88, 255, 35, 53, 55>>)        \* $X, one byte, #57
    @@ ("mon$"   :> <<36, 113, 82, 99, 109, 100, 44, 50, 52, 35, 56, 57>>)
                                                       \* $qRcmd,24#89
    @@ ("bad"    :> <<36, 103, 35, 48, 48>>)            \* $g#00
    @@ ("nonhex" :> <<36, 103, 35, 122, 122>>)          \* $g#zz
    @@ ("head"   :> <<36, 113>>)                        \* $q, cut
    @@ ("tail"   :> <<67, 35, 98, 52>>)                 \* its C#b4
    @@ ("+"      :> <<43>>)
    @@ ("^C"     :> <<3>>)

SampleItemOf ==
       ("!"      :> Item(33, 33, <<"!">>))
    @@ ("g"      :> Item(103, 103, <<"g">>))
    @@ ("qC"     :> Item(180, 180, <<"q", "C">>))
    @@ ("z"      :> Item(122, 122, <<"z">>))
    @@ ("X"      :> Item(87, 87, <<"X", "binary">>))
    @@ ("mon$"   :> Item(137, 137, <<"q", "Rcmd,", "$">>))
    @@ ("bad"    :> Item(103, 0, <<"g">>))
    @@ ("nonhex" :> Item(103, BadDigits, <<"g">>))
    @@ ("head"   :> Item(113, OpenEnd, <<>>))
    @@ ("tail"   :> Item(67, 180, <<"q", "C">>))
    @@ ("+"      :> Item(43, OpenEnd, <<>>))
    @@ ("^C"     :> Item(0, OpenEnd, <<>>))
=============================================================================
