--------------------------- MODULE MCCommandLoop ---------------------------
(***************************************************************************)
(* CommandLoop over one text per handler, each query with and without      *)
(* arguments, and the monitor commands that take another way out.          *)
(***************************************************************************)
EXTENDS CommandLoop

Monitor(words) == <<"q", "Rcmd,">> \o words

CommandTexts ==
    {<<>>, <<"!">>, <<"?">>, <<"c">>, <<"g">>, <<"H">>, <<"k">>, <<"y">>,
     <<"z", "0,0,2">>, <<"Z", "0,0,2">>,
     <<"Q", "StartNoAckMode">>, <<"q">>,
     <<"q", "Supported", ":">>, <<"q", "C">>, <<"q", "C", "RC", ":0,4">>,
     <<"q", "Xfer:", "memory-map:read::">>, <<"q", "Xfer:", "exec-file">>,
     <<"q", "fThreadInfo">>, <<"q", "sThreadInfo">>, <<"q", "Attached">>,
     Monitor(<<>>), Monitor(<<" ">>), Monitor(<<"help">>),
     Monitor(<<" ", "version", " ", "help">>), Monitor(<<"help", "me">>),
     Monitor(<<"reset">>), Monitor(<<"$">>)}
=============================================================================
