---------------------------- MODULE GdbCommands ----------------------------
(***************************************************************************)
(* The command tables and handlers of firmware/source/gdb/gdb.c,           *)
(* gdb/query/gdb_query.c and gdb/query/gdb_query_remote.c.                 *)
(*                                                                         *)
(* A command text (the payload of an accepted packet) is a sequence of     *)
(* fragments: the command character, then pieces cut so that every name in *)
(* a table is a whole number of fragments and no fragment begins another.  *)
(* A string-prefix test is then IsPrefix.  What follows "qRcmd," stands    *)
(* for its hex encoding; " " is a delimiter of gdb_get_args.               *)
(***************************************************************************)
EXTENDS Integers, Sequences, FiniteSetsExt, SequencesExt

CONSTANT HasTarget      \* p_target # NULL; no code assigns it

(* The payloads the handlers pass to gdb_reply or write in hex.             *)
Replies == {"", "OK", "E01", "W00", "PacketSize=7FF", "QC1", "l", "m1",
            "hex:help", "hex:version"}

(* Outcome of one command: the payloads passed to gdb_reply, in order, the *)
(* session properties it sets, and whether an assertion stops the system.  *)
Outcome(replies) ==
    [replies |-> replies, extended |-> FALSE, no_ack |-> FALSE, halts |-> FALSE]

(* Mutant: what is not recognised is not answered.                         *)
Unrecognised_Silent == Outcome(<<>>)

(* An empty reply means that the command is not supported.                 *)
Unrecognised == Outcome(<<"">>)

Halted == [Outcome(<<>>) EXCEPT !.halts = TRUE]

(* Mutant: strncmp over the length of the text, not of the name.           *)
FirstMatch_TextLength(table, text) ==
    LET matching == {i \in DOMAIN table : IsPrefix(text, table[i].name)}
    IN  IF matching = {} THEN 0 ELSE Min(matching)

(* gdb_execute_sub's search: the first entry whose name begins the text.   *)
FirstMatch(table, text) ==
    LET matching == {i \in DOMAIN table : IsPrefix(table[i].name, text)}
    IN  IF matching = {} THEN 0 ELSE Min(matching)

-----------------------------------------------------------------------------
(* gdb_query_remote.c                                                      *)

G_QUERY_REMOTE_SUBCOMMANDS ==
    << [name |-> <<"help">>,    reply |-> "hex:help"],
       [name |-> <<"version">>, reply |-> "hex:version"] >>

(* argv[0]: the fragments up to a delimiter, leading delimiters skipped.   *)
gdb_get_args_first(message) ==
    LET word == {i \in DOMAIN message : message[i] # " "}
        gap  == {i \in DOMAIN message : message[i] = " " /\ \E j \in word : j < i}
    IN  IF word = {} THEN <<>>
        ELSE SubSeq(message, Min(word), IF gap = {} THEN Len(message) ELSE Min(gap) - 1)

(* A blank command calls nothing and so replies nothing; a "$" at the      *)
(* start of the name fails the assertion of gdb_execute_sub.               *)
gdb_query_remote(text) ==
    LET command == gdb_get_args_first(SubSeq(text, 3, Len(text)))
        match   == FirstMatch(G_QUERY_REMOTE_SUBCOMMANDS, command)
    IN  IF command = <<>> THEN Outcome(<<>>)
        ELSE IF Head(command) = "$" THEN Halted
        ELSE IF match = 0 THEN Unrecognised
        ELSE Outcome(<<G_QUERY_REMOTE_SUBCOMMANDS[match].reply>>)

-----------------------------------------------------------------------------
(* gdb_query.c                                                             *)

Entry(name, callback) == [name |-> name, callback |-> callback]

(* The table, in its order; the two qXfer names share their first part.    *)
G_QUERY_COMMANDS ==
    << Entry(<<"q", "Rcmd,">>, "remote"),
       Entry(<<"q", "Supported">>, "supported"),
       Entry(<<"q", "C">>, "current_thread_id"),
       Entry(<<"q", "C", "RC">>, "NULL"),
       Entry(<<"q", "Xfer:", "memory-map:read::">>, "NULL"),
       Entry(<<"q", "Xfer:", "features:read:target.xml:">>, "NULL"),
       Entry(<<"q", "fThreadInfo">>, "first_thread_info"),
       Entry(<<"q", "sThreadInfo">>, "subsequent_thread_info"),
       Entry(<<"Q", "StartNoAckMode">>, "start_no_ack_mode"),
       Entry(<<"q", "Attached">>, "NULL") >>

QueryCallback(callback, text) ==
    CASE callback = "NULL"                   -> Unrecognised
      [] callback = "remote"                 -> gdb_query_remote(text)
      [] callback = "supported"              -> Outcome(<<"PacketSize=7FF">>)
      [] callback = "current_thread_id"      -> Outcome(<<"QC1">>)
      [] callback = "first_thread_info"      -> Outcome(<<IF HasTarget THEN "m1" ELSE "l">>)
      [] callback = "subsequent_thread_info" -> Outcome(<<"l">>)
      [] callback = "start_no_ack_mode"      ->
            [Outcome(<<"OK">>) EXCEPT !.no_ack = TRUE]

gdb_query(text) ==
    LET match == FirstMatch(G_QUERY_COMMANDS, text)
    IN  IF match = 0 THEN Unrecognised
        ELSE QueryCallback(G_QUERY_COMMANDS[match].callback, text)

-----------------------------------------------------------------------------
(* gdb.c                                                                   *)

gdb_extended_remote == [Outcome(<<"OK">>) EXCEPT !.extended = TRUE]

(* gdb_breakpoint sends its three replies one after the other.             *)
gdb_breakpoint == Outcome(<<"E01", "OK", "">>)

(* The command character is buffer[1]; that of an empty payload is '#'.    *)
CommandOf(text) == IF text = <<>> THEN "#" ELSE Head(text)

(* The G_COMMANDS table and the handlers it names.  The handlers of c, C,  *)
(* D, G, m, M, p, P, Q, R, s, S, T, v and X answer as to a character the   *)
(* table lacks: with an empty reply.                                       *)
gdb_execute(text) ==
    CASE CommandOf(text) = "!"                -> gdb_extended_remote
      [] CommandOf(text) = "?"                -> Outcome(<<"W00">>)
      [] CommandOf(text) \in {"g", "H", "k"}  -> Outcome(<<"OK">>)
      [] CommandOf(text) = "q"                -> gdb_query(text)
      [] CommandOf(text) \in {"z", "Z"}       -> gdb_breakpoint
      [] OTHER                                -> Unrecognised
=============================================================================
