------------------------- MODULE GdbCommandsProofs -------------------------
(***************************************************************************)
(* What the command tables and their handlers can do, for any text.        *)
(***************************************************************************)
EXTENDS GdbCommands, CommonLemmas

(* A prefix that is not empty shares its first fragment with the text.     *)
LEMMA PrefixHead ==
    ASSUME NEW S, NEW T, NEW s \in Seq(S), NEW text \in Seq(T), s # <<>>,
           IsPrefix(s, text)
    PROVE  text # <<>> /\ text[1] = s[1]
<1>1. /\ Len(s) \in Nat \ {0} /\ Len(s) <= Len(text) /\ Len(text) \in Nat
      /\ SubSeq(s, 1, Len(s)) = SubSeq(text, 1, Len(s))
  BY EmptySeq, LenProperties DEF IsPrefix
<1>2. /\ SubSeq(s, 1, Len(s))[1] = s[1]
      /\ SubSeq(text, 1, Len(s))[1] = text[1]
  BY <1>1, SubSeqProperties
<1> QED BY <1>1, <1>2

(* The first-match search finds an entry whose name begins the text.       *)
LEMMA FirstMatchBegins ==
    ASSUME NEW table, DOMAIN table \subseteq Nat, NEW text,
           FirstMatch(table, text) # 0
    PROVE  /\ FirstMatch(table, text) \in DOMAIN table
           /\ IsPrefix(table[FirstMatch(table, text)].name, text)
<1> DEFINE matching == {i \in DOMAIN table : IsPrefix(table[i].name, text)}
<1>1. matching # {} /\ FirstMatch(table, text) = Min(matching)
  BY DEF FirstMatch
<1>2. matching \in SUBSET Nat
  OBVIOUS
<1>3. Min(matching) \in matching
  BY <1>1, <1>2, MinIsLeast
<1> QED BY <1>1, <1>3

(* The entries of the query table that matter: the ones of the monitor     *)
(* commands and of QStartNoAckMode; the others have harmless callbacks.    *)
LEMMA QueryTable ==
    /\ DOMAIN G_QUERY_COMMANDS = 1..10
    /\ G_QUERY_COMMANDS[1].name = <<"q", "Rcmd,">>
    /\ G_QUERY_COMMANDS[1].callback = "remote"
    /\ G_QUERY_COMMANDS[9].name = <<"Q", "StartNoAckMode">>
    /\ \A i \in 1..10 : i # 1 /\ i # 9 =>
          G_QUERY_COMMANDS[i].callback \in
              {"NULL", "supported", "current_thread_id", "first_thread_info",
               "subsequent_thread_info"}
<1>1. DOMAIN G_QUERY_COMMANDS = 1..10
  BY DEF G_QUERY_COMMANDS, Entry
<1>2. /\ G_QUERY_COMMANDS[1].name = <<"q", "Rcmd,">>
      /\ G_QUERY_COMMANDS[1].callback = "remote"
  BY DEF G_QUERY_COMMANDS, Entry
<1>3. G_QUERY_COMMANDS[9].name = <<"Q", "StartNoAckMode">>
  BY DEF G_QUERY_COMMANDS, Entry
<1>4. /\ G_QUERY_COMMANDS[2].callback = "supported"
      /\ G_QUERY_COMMANDS[3].callback = "current_thread_id"
      /\ G_QUERY_COMMANDS[4].callback = "NULL"
      /\ G_QUERY_COMMANDS[5].callback = "NULL"
  BY DEF G_QUERY_COMMANDS, Entry
<1>5. /\ G_QUERY_COMMANDS[6].callback = "NULL"
      /\ G_QUERY_COMMANDS[7].callback = "first_thread_info"
      /\ G_QUERY_COMMANDS[8].callback = "subsequent_thread_info"
      /\ G_QUERY_COMMANDS[10].callback = "NULL"
  BY DEF G_QUERY_COMMANDS, Entry
<1>6. \A i \in 1..10 : i # 1 /\ i # 9 =>
          i = 2 \/ i = 3 \/ i = 4 \/ i = 5 \/ i = 6 \/ i = 7 \/ i = 8 \/ i = 10
  OBVIOUS
<1>7. \A i \in 1..10 : i # 1 /\ i # 9 =>
          G_QUERY_COMMANDS[i].callback \in
              {"NULL", "supported", "current_thread_id", "first_thread_info",
               "subsequent_thread_info"}
  BY <1>4, <1>5, <1>6, Zenon
<1> QED BY <1>1, <1>2, <1>3, <1>7, Zenon

LEMMA NameOfNoAck ==
    /\ <<"Q", "StartNoAckMode">> \in Seq({"Q", "StartNoAckMode"})
    /\ <<"Q", "StartNoAckMode">> # <<>>
    /\ <<"Q", "StartNoAckMode">>[1] = "Q"
<1>1. <<"Q", "StartNoAckMode">> \in Seq({"Q", "StartNoAckMode"})
  OBVIOUS
<1>2. Len(<<"Q", "StartNoAckMode">>) = 2 /\ Len(<<>>) = 0
  OBVIOUS
<1>3. <<"Q", "StartNoAckMode">>[1] = "Q"
  OBVIOUS
<1>4. <<"Q", "StartNoAckMode">> # <<>>
  <2>1. 2 # 0
    OBVIOUS
  <2> QED BY <1>2, <2>1, Zenon
<1> QED BY <1>1, <1>3, <1>4, Zenon

(* Only a text that begins with 'Q' reaches the handler of                 *)
(* QStartNoAckMode, and only a monitor command stops the system.           *)
LEMMA QueryOutcome ==
    ASSUME NEW text \in Seq(STRING), text # <<>>, text[1] = "q"
    PROVE  /\ gdb_query(text).no_ack = FALSE /\ gdb_query(text).extended = FALSE
           /\ gdb_query(text).halts \in BOOLEAN
           /\ gdb_query(text).halts =>
                 IsPrefix(<<"q", "Rcmd,">>, text) /\ gdb_query_remote(text).halts
<1> DEFINE match == FirstMatch(G_QUERY_COMMANDS, text)
           entry == G_QUERY_COMMANDS[match]
<1>1. /\ gdb_query_remote(text).no_ack = FALSE /\ gdb_query_remote(text).extended = FALSE
      /\ gdb_query_remote(text).halts \in BOOLEAN
  BY DEF gdb_query_remote, Outcome, Halted, Unrecognised
<1>2. CASE match = 0
  BY <1>2 DEF gdb_query, Unrecognised, Outcome
<1>3. CASE match # 0
  <2>1. match \in 1..10 /\ IsPrefix(entry.name, text)
    <3>1. 1..10 \subseteq Nat
      OBVIOUS
    <3>2. DOMAIN G_QUERY_COMMANDS \subseteq Nat
      BY <3>1, QueryTable, Zenon
    <3>3. match \in DOMAIN G_QUERY_COMMANDS /\ IsPrefix(entry.name, text)
      BY <1>3, <3>2, FirstMatchBegins, Zenon
    <3> QED BY <3>3, QueryTable, Zenon
  <2>2. gdb_query(text) = QueryCallback(entry.callback, text)
    BY <1>3, Zenon DEF gdb_query
  <2>3. match # 9
    <3>1. SUFFICES ASSUME match = 9 PROVE FALSE
      OBVIOUS
    <3> DEFINE name == <<"Q", "StartNoAckMode">>
    <3>2. IsPrefix(name, text)
      BY <2>1, <3>1, QueryTable, Zenon
    <3>3. name \in Seq({"Q", "StartNoAckMode"}) /\ name # <<>> /\ name[1] = "Q"
      BY NameOfNoAck, Zenon
    <3>4. text[1] = name[1]
      <4> HIDE DEF name
      <4> QED BY <3>2, <3>3, PrefixHead, Zenon
    <3>5. "Q" # "q"
      OBVIOUS
    <3> QED BY <3>3, <3>4, <3>5, Zenon
  <2>4. CASE match = 1
    <3>1. entry.callback = "remote" /\ entry.name = <<"q", "Rcmd,">>
      BY <2>4, QueryTable, Zenon
    <3>2. IsPrefix(<<"q", "Rcmd,">>, text)
      BY <2>1, <3>1, Zenon
    <3>3. gdb_query(text) = QueryCallback("remote", text)
      BY <2>2, <3>1, Zenon
    <3>4. QueryCallback("remote", text) = gdb_query_remote(text)
      BY DEF QueryCallback
    <3> QED BY <1>1, <3>2, <3>3, <3>4, Zenon
  <2>5. CASE match # 1
    <3>1. entry.callback \in {"NULL", "supported", "current_thread_id", "first_thread_info",
                             "subsequent_thread_info"}
      BY <2>1, <2>3, <2>5, QueryTable, Zenon
    <3>2. \A callback \in {"NULL", "supported", "current_thread_id", "first_thread_info",
                           "subsequent_thread_info"} :
              /\ QueryCallback(callback, text).no_ack = FALSE
              /\ QueryCallback(callback, text).extended = FALSE
              /\ QueryCallback(callback, text).halts = FALSE
      BY DEF QueryCallback, Unrecognised, Outcome
    <3> QED BY <2>2, <3>1, <3>2, Zenon
  <2> QED BY <2>4, <2>5, Zenon
<1> QED BY <1>2, <1>3, Zenon

LEMMA OutcomeFields ==
    ASSUME NEW replies
    PROVE  /\ Outcome(replies).no_ack = FALSE /\ Outcome(replies).extended = FALSE
           /\ Outcome(replies).halts = FALSE
BY DEF Outcome

(* What one command can do: set the extended mode if it is '!', never turn *)
(* acknowledgements off, and stop the system only from a monitor command.  *)
LEMMA ExecuteOutcome ==
    ASSUME NEW text \in Seq(STRING)
    PROVE  /\ gdb_execute(text).no_ack = FALSE
           /\ gdb_execute(text).extended = (CommandOf(text) = "!")
           /\ gdb_execute(text).halts \in BOOLEAN
           /\ gdb_execute(text).halts =>
                 IsPrefix(<<"q", "Rcmd,">>, text) /\ gdb_query_remote(text).halts
<1>1. CASE CommandOf(text) = "q"
  <2>1. text # <<>> /\ text[1] = "q"
    BY <1>1 DEF CommandOf
  <2>2. gdb_execute(text) = gdb_query(text)
    BY <1>1 DEF gdb_execute
  <2> QED BY <1>1, <2>1, <2>2, QueryOutcome
<1>2. CASE CommandOf(text) = "!"
  <2>1. gdb_execute(text) = gdb_extended_remote
    BY <1>2 DEF gdb_execute
  <2>2. /\ gdb_execute(text).no_ack = FALSE /\ gdb_execute(text).extended = TRUE
        /\ gdb_execute(text).halts = FALSE
    BY <2>1 DEF gdb_extended_remote, Outcome
  <2> QED BY <1>2, <2>2, Zenon
<1>3. CASE CommandOf(text) \notin {"q", "!"}
  <2>1. gdb_execute(text) \in {Outcome(<<"W00">>), Outcome(<<"OK">>), gdb_breakpoint,
                              Unrecognised}
    BY <1>3 DEF gdb_execute
  <2>2. \A result \in {Outcome(<<"W00">>), Outcome(<<"OK">>), gdb_breakpoint,
                       Unrecognised} :
            result.no_ack = FALSE /\ result.extended = FALSE /\ result.halts = FALSE
    BY OutcomeFields, Zenon DEF gdb_breakpoint, Unrecognised
  <2> QED BY <1>3, <2>1, <2>2, Zenon
<1> QED BY <1>1, <1>2, <1>3

(* The handler of the monitor commands stops the system only when the      *)
(* name of the command begins with "$".                                    *)
LEMMA RemoteHalts ==
    ASSUME NEW text, gdb_query_remote(text).halts
    PROVE  gdb_get_args_first(SubSeq(text, 3, Len(text)))[1] = "$"
BY DEF gdb_query_remote, Outcome, Halted, Unrecognised

(* A command has one of these outcomes: it is answered once, and may set a *)
(* property; or it is one of the three exceptions.                         *)
Answered(outcome, extended, no_ack) ==
    \E reply \in Replies :
        outcome = [replies |-> <<reply>>, extended |-> extended, no_ack |-> no_ack,
                   halts |-> FALSE]

LEMMA AnsweredRecord ==
    ASSUME NEW reply \in Replies, NEW e, NEW n,
           NEW outcome \in [replies : {<<reply>>}, extended : {e}, no_ack : {n},
                            halts : {FALSE}]
    PROVE  Answered(outcome, e, n)
<1>1. outcome = [replies |-> <<reply>>, extended |-> e, no_ack |-> n, halts |-> FALSE]
  OBVIOUS
<1> QED BY <1>1 DEF Answered

LEMMA OneReply ==
    ASSUME NEW reply \in Replies
    PROVE  /\ Answered(Outcome(<<reply>>), FALSE, FALSE)
           /\ Answered([Outcome(<<reply>>) EXCEPT !.extended = TRUE], TRUE, FALSE)
           /\ Answered([Outcome(<<reply>>) EXCEPT !.no_ack = TRUE], FALSE, TRUE)
<1> DEFINE Form(e, n) == [replies : {<<reply>>}, extended : {e}, no_ack : {n}, halts : {FALSE}]
<1>1. Outcome(<<reply>>) \in Form(FALSE, FALSE)
  BY DEF Outcome
<1>2. [Outcome(<<reply>>) EXCEPT !.extended = TRUE] \in Form(TRUE, FALSE)
  BY DEF Outcome
<1>3. [Outcome(<<reply>>) EXCEPT !.no_ack = TRUE] \in Form(FALSE, TRUE)
  BY DEF Outcome
<1> QED BY <1>1, <1>2, <1>3, AnsweredRecord

LEMMA ReplyNames ==
    /\ {"", "OK", "E01", "W00", "PacketSize=7FF", "QC1", "l", "m1"} \subseteq Replies
    /\ {"hex:help", "hex:version"} \subseteq Replies
BY DEF Replies

LEMMA RemoteCases ==
    ASSUME NEW text
    PROVE  \/ /\ gdb_query_remote(text) = Outcome(<<>>)
              /\ gdb_get_args_first(SubSeq(text, 3, Len(text))) = <<>>
           \/ gdb_query_remote(text) = Halted
           \/ Answered(gdb_query_remote(text), FALSE, FALSE)
<1> DEFINE command == gdb_get_args_first(SubSeq(text, 3, Len(text)))
           table   == G_QUERY_REMOTE_SUBCOMMANDS
           match   == FirstMatch(table, command)
<1>1. DOMAIN table = {1, 2} /\ table[1].reply = "hex:help" /\ table[2].reply = "hex:version"
  BY DEF G_QUERY_REMOTE_SUBCOMMANDS
<1>2. CASE command = <<>> \/ Head(command) = "$"
  BY <1>2 DEF gdb_query_remote
<1>3. CASE command # <<>> /\ Head(command) # "$" /\ match = 0
  <2>1. gdb_query_remote(text) = Outcome(<<"">>)
    BY <1>3 DEF gdb_query_remote, Unrecognised
  <2> QED BY <2>1, OneReply, ReplyNames
<1>4. CASE command # <<>> /\ Head(command) # "$" /\ match # 0
  <2>1. gdb_query_remote(text) = Outcome(<<table[match].reply>>)
    BY <1>4 DEF gdb_query_remote
  <2>2. match \in {1, 2}
    <3>1. DOMAIN table \subseteq Nat
      BY <1>1
    <3> HIDE DEF table
    <3>2. match \in DOMAIN table
      BY <1>4, <3>1, FirstMatchBegins
    <3> QED BY <1>1, <3>2
  <2> HIDE DEF table, match
  <2>3. table[match].reply \in Replies
    BY <1>1, <2>2, ReplyNames
  <2> QED BY <2>1, <2>3, OneReply
<1> QED BY <1>2, <1>3, <1>4

(* What the callback of a query does.                                      *)
LEMMA CallbackCases ==
    ASSUME NEW text,
           NEW callback \in {"NULL", "supported", "current_thread_id", "first_thread_info",
                             "subsequent_thread_info", "start_no_ack_mode"}
    PROVE  \E no_ack \in BOOLEAN : Answered(QueryCallback(callback, text), FALSE, no_ack)
<1>1. CASE callback = "NULL"
  BY <1>1, OneReply, ReplyNames DEF QueryCallback, Unrecognised
<1>2. CASE callback = "supported"
  BY <1>2, OneReply, ReplyNames DEF QueryCallback
<1>3. CASE callback = "current_thread_id"
  BY <1>3, OneReply, ReplyNames DEF QueryCallback
<1>4. CASE callback = "first_thread_info"
  BY <1>4, OneReply, ReplyNames DEF QueryCallback
<1>5. CASE callback = "subsequent_thread_info"
  BY <1>5, OneReply, ReplyNames DEF QueryCallback
<1>6. CASE callback = "start_no_ack_mode"
  BY <1>6, OneReply, ReplyNames DEF QueryCallback
<1> QED BY <1>1, <1>2, <1>3, <1>4, <1>5, <1>6

LEMMA QueryCases ==
    ASSUME NEW text
    PROVE  \/ /\ gdb_query(text) = gdb_query_remote(text)
              /\ IsPrefix(<<"q", "Rcmd,">>, text)
           \/ \E no_ack \in BOOLEAN : Answered(gdb_query(text), FALSE, no_ack)
<1> DEFINE match == FirstMatch(G_QUERY_COMMANDS, text)
           entry == G_QUERY_COMMANDS[match]
<1>1. CASE match = 0
  BY <1>1, OneReply, ReplyNames DEF gdb_query, Unrecognised
<1>2. CASE match # 0
  <2>1. match \in 1..10 /\ IsPrefix(entry.name, text)
    <3>1. DOMAIN G_QUERY_COMMANDS \subseteq Nat
      <4>1. 1..10 \subseteq Nat
        OBVIOUS
      <4> QED BY <4>1, QueryTable, Zenon
    <3> QED BY <1>2, <3>1, FirstMatchBegins, QueryTable, Zenon
  <2>2. gdb_query(text) = QueryCallback(entry.callback, text)
    BY <1>2, Zenon DEF gdb_query
  <2>3. CASE match = 1
    <3>1. entry.callback = "remote" /\ entry.name = <<"q", "Rcmd,">>
      BY <2>3, QueryTable, Zenon
    <3>2. QueryCallback("remote", text) = gdb_query_remote(text)
      BY DEF QueryCallback
    <3> QED BY <2>1, <2>2, <3>1, <3>2, Zenon
  <2>4. CASE match # 1
    <3>1. entry.callback \in {"NULL", "supported", "current_thread_id", "first_thread_info",
                             "subsequent_thread_info", "start_no_ack_mode"}
      <4>1. G_QUERY_COMMANDS[9].callback = "start_no_ack_mode"
        BY DEF G_QUERY_COMMANDS, Entry
      <4> QED BY <2>1, <2>4, <4>1, QueryTable, Zenon
    <3> QED BY <2>2, <3>1, CallbackCases, Zenon
  <2> QED BY <2>3, <2>4
<1> QED BY <1>1, <1>2

(* A query is answered once unless it is a monitor command that is blank,  *)
(* or that stops the system; so is every other command but a breakpoint.   *)
LEMMA ExecuteCases ==
    ASSUME NEW text
    PROVE  \/ \E extended, no_ack \in BOOLEAN : Answered(gdb_execute(text), extended, no_ack)
           \/ gdb_execute(text) = gdb_breakpoint /\ CommandOf(text) \in {"z", "Z"}
           \/ /\ gdb_execute(text) = Outcome(<<>>)
              /\ IsPrefix(<<"q", "Rcmd,">>, text)
              /\ gdb_get_args_first(SubSeq(text, 3, Len(text))) = <<>>
           \/ gdb_execute(text) = Halted
<1>1. CASE CommandOf(text) = "q"
  BY <1>1, QueryCases, RemoteCases DEF gdb_execute
<1>2. CASE CommandOf(text) = "!"
  BY <1>2, OneReply, ReplyNames DEF gdb_execute, gdb_extended_remote
<1>3. CASE CommandOf(text) \in {"z", "Z"}
  BY <1>3 DEF gdb_execute
<1>4. CASE CommandOf(text) \notin {"q", "!", "z", "Z"}
  <2>1. \E reply \in {"W00", "OK", ""} : gdb_execute(text) = Outcome(<<reply>>)
    BY <1>4 DEF gdb_execute, Unrecognised
  <2> QED BY <2>1, OneReply, ReplyNames
<1> QED BY <1>1, <1>2, <1>3, <1>4

AllOutcomes == [replies : Seq(Replies), extended : BOOLEAN, no_ack : BOOLEAN, halts : BOOLEAN]

LEMMA ExecuteType ==
    ASSUME NEW text
    PROVE  gdb_execute(text) \in AllOutcomes
<1>1. ASSUME NEW e \in BOOLEAN, NEW n \in BOOLEAN, Answered(gdb_execute(text), e, n)
      PROVE  gdb_execute(text) \in AllOutcomes
  <2>1. PICK reply \in Replies :
            gdb_execute(text) = [replies |-> <<reply>>, extended |-> e, no_ack |-> n,
                                 halts |-> FALSE]
    BY <1>1 DEF Answered
  <2>2. <<reply>> \in Seq(Replies)
    OBVIOUS
  <2> QED BY <2>1, <2>2 DEF AllOutcomes
<1>2. gdb_breakpoint \in AllOutcomes
  <2>1. {"E01", "OK", ""} \subseteq Replies
    BY ReplyNames
  <2>2. \A S : \A a, b, c \in S : <<a, b, c>> \in Seq(S)
    OBVIOUS
  <2>3. <<"E01", "OK", "">> \in Seq(Replies)
    BY <2>1, <2>2, Zenon
  <2> QED BY <2>3 DEF gdb_breakpoint, Outcome, AllOutcomes
<1>3. Outcome(<<>>) \in AllOutcomes /\ Halted \in AllOutcomes
  <2>1. <<>> \in Seq(Replies)
    BY EmptySeq
  <2> QED BY <2>1 DEF Outcome, Halted, AllOutcomes
<1> QED BY <1>1, <1>2, <1>3, ExecuteCases

LEMMA ExecuteReplies ==
    ASSUME NEW text
    PROVE  gdb_execute(text).replies \in Seq(Replies)
BY ExecuteType DEF AllOutcomes

-----------------------------------------------------------------------------
(* A monitor command without a name has nothing but blanks after "qRcmd,". *)
LEMMA NoArgument ==
    ASSUME NEW message \in Seq(STRING), gdb_get_args_first(message) = <<>>
    PROVE  \A i \in 1..Len(message) : message[i] = " "
<1> DEFINE word == {i \in DOMAIN message : message[i] # " "}
           gap  == {i \in DOMAIN message : message[i] = " " /\ \E j \in word : j < i}
           last == IF gap = {} THEN Len(message) ELSE Min(gap) - 1
           n    == Len(message)
<1>1. DOMAIN message = 1..n /\ n \in Nat
  BY LenProperties
<1>2. /\ word \subseteq DOMAIN message /\ gap \subseteq DOMAIN message
      /\ \A i \in DOMAIN message : i \notin word => message[i] = " "
  OBVIOUS
<1>3. \A i \in gap : \E j \in word : j < i
  BY Zenon
<1>4. word # {} => SubSeq(message, Min(word), last) = <<>>
  BY DEF gdb_get_args_first
<1>5. last = IF gap = {} THEN n ELSE Min(gap) - 1
  OBVIOUS
<1> HIDE DEF word, gap, last, n
<1> SUFFICES ASSUME word # {} PROVE FALSE
  BY <1>1, <1>2 DEF n
<1>6. word \in SUBSET Nat /\ gap \in SUBSET Nat
  <2>1. 1..n \subseteq Nat
    BY <1>1
  <2>2. DOMAIN message \subseteq Nat
    BY <1>1, <2>1, Zenon
  <2> QED BY <1>2, <2>2, Zenon
<1>7. Min(word) \in word /\ \A j \in word : Min(word) <= j
  BY <1>6, MinIsLeast
<1>8. gap # {} => Min(gap) \in gap
  BY <1>6, MinIsLeast
<1>9. Min(word) \in 1..n
  BY <1>1, <1>2, <1>7
<1>10. last \in 1..n /\ Min(word) <= last
  <2>1. CASE gap = {}
    BY <1>1, <1>5, <1>9, <2>1
  <2>2. CASE gap # {}
    <3>1. PICK j \in word : j < Min(gap)
      BY <1>3, <1>8, <2>2
    <3>2. Min(word) <= j /\ j \in Nat /\ Min(gap) \in 1..n
      BY <1>1, <1>2, <1>6, <1>7, <1>8, <2>2
    <3> QED BY <1>1, <1>5, <1>9, <2>2, <3>1, <3>2
  <2> QED BY <2>1, <2>2
<1>11. Len(SubSeq(message, Min(word), last)) = last - Min(word) + 1
  <2>1. message \in Seq(STRING) /\ Min(word) \in 1..Len(message) /\ last \in 1..Len(message)
    BY <1>9, <1>10 DEF n
  <2>2. Min(word) <= last
    BY <1>10
  <2> QED BY <2>1, <2>2, SubSeqProperties
<1>12. Len(SubSeq(message, Min(word), last)) = 0
  <2>1. Len(<<>>) = 0
    OBVIOUS
  <2> QED BY <1>4, <2>1, Zenon
<1> QED BY <1>1, <1>9, <1>10, <1>11, <1>12

LEMMA BlankCommand ==
    ASSUME NEW text \in Seq(STRING), Len(text) >= 2,
           gdb_get_args_first(SubSeq(text, 3, Len(text))) = <<>>
    PROVE  \A i \in 3..Len(text) : text[i] = " "
<1> DEFINE message == SubSeq(text, 3, Len(text))
<1>1. Len(text) \in Nat
  BY LenProperties
<1>2. /\ message \in Seq(STRING) /\ Len(message) = Len(text) - 2
      /\ \A i \in 1..(Len(text) - 2) : message[i] = text[i + 2]
  <2> DEFINE n == Len(text)
  <2>1. n \in Nat /\ n >= 2
    BY <1>1
  <2>2. CASE n = 2
    <3>1. message = <<>>
      BY <2>2, SubSeqProperties
    <3> HIDE DEF message
    <3>2. message \in Seq(STRING) /\ Len(message) = 0
      BY <3>1
    <3> QED BY <2>2, <3>2
  <2>3. CASE n >= 3
    <3>1. 3 \in 1..Len(text) + 1 /\ Len(text) \in 0..Len(text) /\ 3 <= Len(text)
      BY <2>1, <2>3
    <3>2. /\ message \in Seq(STRING) /\ Len(message) = Len(text) - 3 + 1
          /\ \A i \in 1..(Len(text) - 3 + 1) : message[i] = text[3 + i - 1]
      BY <3>1, SubSeqProperties
    <3> HIDE DEF message
    <3> QED BY <1>1, <3>2
  <2>4. n = 2 \/ n >= 3
    <3> HIDE DEF n, message
    <3> QED BY <2>1
  <2> QED BY <2>2, <2>3, <2>4, Zenon
<1>3. gdb_get_args_first(message) = <<>>
  OBVIOUS
<1> HIDE DEF message
<1>4. \A i \in 1..Len(message) : message[i] = " "
  BY <1>2, <1>3, NoArgument
<1> SUFFICES ASSUME NEW i \in 3..Len(text) PROVE text[i] = " "
  OBVIOUS
<1>5. i - 2 \in 1..(Len(text) - 2) /\ (i - 2) + 2 = i
  BY <1>1
<1> QED BY <1>2, <1>4, <1>5

-----------------------------------------------------------------------------
(* A text shares every fragment of its prefixes.                           *)
LEMMA PrefixElement ==
    ASSUME NEW S, NEW T, NEW s \in Seq(S), NEW text \in Seq(T), IsPrefix(s, text),
           NEW i \in 1..Len(s)
    PROVE  i \in 1..Len(text) /\ text[i] = s[i]
<1>1. /\ Len(s) \in Nat /\ Len(s) <= Len(text) /\ Len(text) \in Nat
      /\ SubSeq(s, 1, Len(s)) = SubSeq(text, 1, Len(s))
  BY LenProperties DEF IsPrefix
<1>2. /\ SubSeq(s, 1, Len(s))[i] = s[i]
      /\ SubSeq(text, 1, Len(s))[i] = text[i]
  BY <1>1, SubSeqProperties
<1> QED BY <1>1, <1>2

(* The second fragments of the query table: where two names share one, the *)
(* later entry has no callback.                                            *)
Second ==
    << "Rcmd,", "Supported", "C", "C", "Xfer:", "Xfer:", "fThreadInfo", "sThreadInfo",
       "StartNoAckMode", "Attached" >>

Named(name, S, second) == name \in Seq(S) /\ 2 \in 1..Len(name) /\ name[2] = second

LEMMA QueryNames ==
    /\ \A i \in 1..10 : \E S : Named(G_QUERY_COMMANDS[i].name, S, Second[i])
    /\ \A i, j \in 1..10 : i < j /\ Second[i] = Second[j] =>
          G_QUERY_COMMANDS[j].callback = "NULL"
<1> DEFINE Good(name, s) == \E S : Named(name, S, s)
<1>1. \A a, b : Good(<<a, b>>, b)
  <2> TAKE a, b
  <2>1. Named(<<a, b>>, {a, b}, b)
    BY DEF Named
  <2> QED BY <2>1
<1>2. \A a, b, c : Good(<<a, b, c>>, b)
  <2> TAKE a, b, c
  <2>1. Named(<<a, b, c>>, {a, b, c}, b)
    BY DEF Named
  <2> QED BY <2>1
<1>3. \A i \in 1..10 : i = 1 \/ i = 2 \/ i = 3 \/ i = 4 \/ i = 5 \/ i = 6 \/ i = 7 \/ i = 8
                       \/ i = 9 \/ i = 10
  OBVIOUS
<1>4. /\ G_QUERY_COMMANDS[1].name = <<"q", "Rcmd,">>
      /\ G_QUERY_COMMANDS[2].name = <<"q", "Supported">>
      /\ G_QUERY_COMMANDS[3].name = <<"q", "C">>
  BY DEF G_QUERY_COMMANDS, Entry
<1>5. /\ G_QUERY_COMMANDS[4].name = <<"q", "C", "RC">>
      /\ G_QUERY_COMMANDS[5].name = <<"q", "Xfer:", "memory-map:read::">>
      /\ G_QUERY_COMMANDS[6].name = <<"q", "Xfer:", "features:read:target.xml:">>
  BY DEF G_QUERY_COMMANDS, Entry
<1>6. /\ G_QUERY_COMMANDS[7].name = <<"q", "fThreadInfo">>
      /\ G_QUERY_COMMANDS[8].name = <<"q", "sThreadInfo">>
      /\ G_QUERY_COMMANDS[9].name = <<"Q", "StartNoAckMode">>
      /\ G_QUERY_COMMANDS[10].name = <<"q", "Attached">>
  BY DEF G_QUERY_COMMANDS, Entry
<1>7. /\ Second[1] = "Rcmd," /\ Second[2] = "Supported" /\ Second[3] = "C" /\ Second[4] = "C"
      /\ Second[5] = "Xfer:" /\ Second[6] = "Xfer:" /\ Second[7] = "fThreadInfo"
      /\ Second[8] = "sThreadInfo" /\ Second[9] = "StartNoAckMode" /\ Second[10] = "Attached"
  BY DEF Second
<1>8. /\ G_QUERY_COMMANDS[4].callback = "NULL"
      /\ G_QUERY_COMMANDS[6].callback = "NULL"
  BY DEF G_QUERY_COMMANDS, Entry
<1> HIDE DEF Good
<1>10. /\ Good(G_QUERY_COMMANDS[1].name, Second[1]) /\ Good(G_QUERY_COMMANDS[2].name, Second[2])
       /\ Good(G_QUERY_COMMANDS[3].name, Second[3]) /\ Good(G_QUERY_COMMANDS[7].name, Second[7])
       /\ Good(G_QUERY_COMMANDS[8].name, Second[8]) /\ Good(G_QUERY_COMMANDS[9].name, Second[9])
       /\ Good(G_QUERY_COMMANDS[10].name, Second[10])
  BY <1>1, <1>4, <1>6, <1>7, Zenon
<1>11. /\ Good(G_QUERY_COMMANDS[4].name, Second[4]) /\ Good(G_QUERY_COMMANDS[5].name, Second[5])
       /\ Good(G_QUERY_COMMANDS[6].name, Second[6])
  BY <1>2, <1>5, <1>7, Zenon
<1>12. \A i \in 1..10 : Good(G_QUERY_COMMANDS[i].name, Second[i])
  BY <1>3, <1>10, <1>11, Zenon
<1>13. ASSUME NEW i \in 1..10, NEW j \in 1..10, i < j, Second[i] = Second[j]
       PROVE  j = 4 \/ j = 6
  <2> SUFFICES ASSUME j # 4, j # 6 PROVE FALSE
    OBVIOUS
  <2> DEFINE u == Second[i]  v == Second[j]
  <2>1. \/ i = 1 /\ u = "Rcmd,"
        \/ i = 2 /\ u = "Supported"
        \/ i = 3 /\ u = "C"
        \/ i = 4 /\ u = "C"
        \/ i = 5 /\ u = "Xfer:"
        \/ i = 6 /\ u = "Xfer:"
        \/ i = 7 /\ u = "fThreadInfo"
        \/ i = 8 /\ u = "sThreadInfo"
        \/ i = 9 /\ u = "StartNoAckMode"
        \/ i = 10 /\ u = "Attached"
    BY <1>3, <1>7, Zenon
  <2>2. \/ j = 1 /\ v = "Rcmd,"
        \/ j = 2 /\ v = "Supported"
        \/ j = 3 /\ v = "C"
        \/ j = 5 /\ v = "Xfer:"
        \/ j = 7 /\ v = "fThreadInfo"
        \/ j = 8 /\ v = "sThreadInfo"
        \/ j = 9 /\ v = "StartNoAckMode"
        \/ j = 10 /\ v = "Attached"
    BY <1>3, <1>7, Zenon
  <2>3. u = v /\ i < j
    BY <1>13
  <2> HIDE DEF u, v
  <2>4. /\ u = "Rcmd," => i = 1
        /\ u = "Supported" => i = 2
        /\ u = "C" => i = 3 \/ i = 4
        /\ u = "Xfer:" => i = 5 \/ i = 6
    BY <2>1
  <2>5. /\ u = "fThreadInfo" => i = 7
        /\ u = "sThreadInfo" => i = 8
        /\ u = "StartNoAckMode" => i = 9
        /\ u = "Attached" => i = 10
    BY <2>1
  <2>6. \/ j = 1 /\ i = 1
        \/ j = 2 /\ i = 2
        \/ j = 3 /\ (i = 3 \/ i = 4)
        \/ j = 5 /\ (i = 5 \/ i = 6)
        \/ j = 7 /\ i = 7
        \/ j = 8 /\ i = 8
        \/ j = 9 /\ i = 9
        \/ j = 10 /\ i = 10
    BY <2>2, <2>3, <2>4, <2>5, Zenon
  <2> QED BY <2>3, <2>6
<1>14. \A i, j \in 1..10 : i < j /\ Second[i] = Second[j] => G_QUERY_COMMANDS[j].callback = "NULL"
  BY <1>8, <1>13, Zenon
<1> QED BY <1>12, <1>14, Zenon DEF Good

(* The first-match search finds the callback of any implemented query that *)
(* the text begins with.                                                   *)
LEMMA NoneShadowed ==
    ASSUME NEW text \in Seq(STRING), NEW i \in DOMAIN G_QUERY_COMMANDS,
           G_QUERY_COMMANDS[i].callback # "NULL", IsPrefix(G_QUERY_COMMANDS[i].name, text)
    PROVE  gdb_query(text) = QueryCallback(G_QUERY_COMMANDS[i].callback, text)
<1> DEFINE matching == {j \in DOMAIN G_QUERY_COMMANDS : IsPrefix(G_QUERY_COMMANDS[j].name, text)}
           match    == FirstMatch(G_QUERY_COMMANDS, text)
<1>1. DOMAIN G_QUERY_COMMANDS = 1..10
  BY QueryTable
<1>2. match = Min(matching) /\ i \in matching
  BY DEF FirstMatch
<1>3. match \in matching /\ match <= i
  <2>1. matching \in SUBSET Nat
    BY <1>1
  <2> HIDE DEF matching, match
  <2> QED BY <1>2, <2>1, MinIsLeast
<1>4. /\ match \in 1..10 /\ IsPrefix(G_QUERY_COMMANDS[match].name, text)
      /\ i \in 1..10
  BY <1>1, <1>3
<1> HIDE DEF match
<1>5. Second[match] = Second[i]
  <2>1. ASSUME NEW j \in 1..10, IsPrefix(G_QUERY_COMMANDS[j].name, text)
        PROVE  text[2] = Second[j]
    <3> DEFINE name == G_QUERY_COMMANDS[j].name
    <3>1. PICK S : Named(name, S, Second[j])
      BY QueryNames, Zenon
    <3>2. IsPrefix(name, text)
      BY <2>1
    <3> HIDE DEF name
    <3> QED BY <3>1, <3>2, PrefixElement DEF Named
  <2> QED BY <1>4, <2>1
<1>6. match = i
  <2>1. ~(match < i)
    BY <1>4, <1>5, QueryNames, Zenon
  <2> QED BY <1>3, <1>4, <2>1
<1>7. match # 0
  BY <1>4
<1> QED BY <1>6, <1>7 DEF gdb_query, match
=============================================================================
