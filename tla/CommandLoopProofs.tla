------------------------- MODULE CommandLoopProofs -------------------------
(***************************************************************************)
(* What no sequence of commands can do to a session, for any set of        *)
(* command texts, of any length, and sessions of any length.               *)
(***************************************************************************)
EXTENDS CommandLoop, GdbCommandsProofs

(* What holds between two commands of a session.                           *)
SessionInv ==
    /\ log \in Seq(Texts)
    /\ properties \in [extended : BOOLEAN, no_ack : BOOLEAN]
    /\ AlwaysAcknowledges
    /\ ExtendedOnlyByRequest
    /\ halted \in BOOLEAN
    /\ halted => /\ IsPrefix(<<"q", "Rcmd,">>, Text)
                 /\ gdb_query_remote(Text).halts

LEMMA InitSession == Init => SessionInv
<1> SUFFICES ASSUME Init PROVE SessionInv
  OBVIOUS
<1>1. log \in Seq(Texts) /\ DOMAIN log = {}
  BY DEF Init
<1>2. /\ properties \in [extended : BOOLEAN, no_ack : BOOLEAN]
      /\ properties.no_ack = FALSE /\ properties.extended = FALSE
      /\ halted = FALSE
  BY DEF Init, FreshProperties
<1> QED BY <1>1, <1>2 DEF SessionInv, AlwaysAcknowledges, ExtendedOnlyByRequest

LEMMA AppendFacts ==
    ASSUME NEW S, NEW s \in Seq(S), NEW e \in S
    PROVE  /\ Append(s, e) \in Seq(S) /\ Len(Append(s, e)) = Len(s) + 1
           /\ DOMAIN Append(s, e) = DOMAIN s \cup {Len(s) + 1}
           /\ \A i \in DOMAIN s : Append(s, e)[i] = s[i]
           /\ Append(s, e)[Len(s) + 1] = e
<1>1. /\ Append(s, e) \in Seq(S) /\ Len(Append(s, e)) = Len(s) + 1
      /\ \A i \in 1..Len(s) : Append(s, e)[i] = s[i]
      /\ Append(s, e)[Len(s) + 1] = e
  BY AppendProperties
<1>2. Len(s) \in Nat /\ DOMAIN s = 1..Len(s)
  BY LenProperties
<1>3. DOMAIN Append(s, e) = 1..(Len(s) + 1)
  BY <1>1, LenProperties
<1> QED BY <1>1, <1>2, <1>3

(* The acknowledgement keeps gdb_breakpoint's assertion from failing, and  *)
(* a command adds to the properties only what it asked for itself.         *)
LEMMA ExecuteKeeps ==
    ASSUME SessionInv, NEW text \in Texts, Execute(text)
    PROVE  SessionInv'
<1>1. text \in Seq(STRING)
  BY LoopAssumption
<1>2. ~LengthAsserts(text)
  BY DEF LengthAsserts, Acknowledged, AlwaysAcknowledges, SessionInv
<1>3. /\ log' = Append(log, text)
      /\ properties' = [extended |-> properties.extended \/ gdb_execute(text).extended,
                        no_ack   |-> properties.no_ack \/ gdb_execute(text).no_ack]
      /\ halted' = gdb_execute(text).halts
  BY <1>2 DEF Execute
<1>4. /\ log' \in Seq(Texts)
      /\ DOMAIN log' = DOMAIN log \cup {Len(log) + 1}
      /\ \A i \in DOMAIN log : log'[i] = log[i]
      /\ log'[Len(log) + 1] = text /\ Len(log') = Len(log) + 1
  <2>1. log \in Seq(Texts)
    BY DEF SessionInv
  <2>2. /\ Append(log, text) \in Seq(Texts) /\ Len(Append(log, text)) = Len(log) + 1
        /\ DOMAIN Append(log, text) = DOMAIN log \cup {Len(log) + 1}
        /\ \A i \in DOMAIN log : Append(log, text)[i] = log[i]
        /\ Append(log, text)[Len(log) + 1] = text
    BY <2>1, AppendFacts, Zenon
  <2> QED BY <1>3, <2>2, Zenon
<1>5. /\ properties' \in [extended : BOOLEAN, no_ack : BOOLEAN]
      /\ properties'.no_ack = FALSE
      /\ properties'.extended = (properties.extended \/ CommandOf(text) = "!")
  <2>1. /\ properties.no_ack = FALSE /\ properties.extended \in BOOLEAN
        /\ gdb_execute(text).no_ack = FALSE
        /\ gdb_execute(text).extended = (CommandOf(text) = "!")
    BY <1>1, ExecuteOutcome DEF AlwaysAcknowledges, SessionInv
  <2>2. properties' = [extended |-> properties.extended \/ CommandOf(text) = "!",
                       no_ack   |-> FALSE]
    BY <1>3, <2>1
  <2> QED BY <2>2
<1>6. ExtendedOnlyByRequest'
  <2>1. Len(log) + 1 \notin DOMAIN log
    <3>1. DOMAIN log = 1..Len(log) /\ Len(log) \in Nat
      BY LenProperties DEF SessionInv
    <3> QED BY <3>1
  <2>2. properties.extended <=> \E i \in DOMAIN log : CommandOf(log[i]) = "!"
    BY DEF SessionInv, ExtendedOnlyByRequest
  <2>3. properties'.extended <=> \E i \in DOMAIN log' : CommandOf(log'[i]) = "!"
    BY <1>4, <1>5, <2>1, <2>2, Zenon
  <2> QED BY <2>3 DEF ExtendedOnlyByRequest
<1>7. /\ halted' \in BOOLEAN
      /\ halted' => /\ IsPrefix(<<"q", "Rcmd,">>, text)
                    /\ gdb_query_remote(text).halts
  BY <1>1, <1>3, ExecuteOutcome
<1>8. Text' = text
  BY <1>4 DEF Text
<1> QED BY <1>4, <1>5, <1>6, <1>7, <1>8 DEF SessionInv, AlwaysAcknowledges

LEMMA ReconnectKeeps == SessionInv /\ Reconnect => SessionInv'
<1> SUFFICES ASSUME SessionInv, Reconnect PROVE SessionInv'
  OBVIOUS
<1>1. log' \in Seq(Texts) /\ DOMAIN log' = {}
  BY DEF Reconnect
<1>2. /\ properties' \in [extended : BOOLEAN, no_ack : BOOLEAN]
      /\ properties'.no_ack = FALSE /\ properties'.extended = FALSE
      /\ halted' = FALSE
  BY DEF Reconnect, FreshProperties, SessionInv
<1> QED BY <1>1, <1>2 DEF SessionInv, AlwaysAcknowledges, ExtendedOnlyByRequest

LEMMA SessionInvariant == Spec => []SessionInv
<1>1. SessionInv /\ [Next]_vars => SessionInv'
  <2> SUFFICES ASSUME SessionInv, [Next]_vars PROVE SessionInv'
    OBVIOUS
  <2>1. CASE \E text \in Texts : Execute(text)
    BY <2>1, ExecuteKeeps
  <2>2. CASE Reconnect
    BY <2>2, ReconnectKeeps
  <2>3. CASE UNCHANGED vars
    BY <2>3 DEF SessionInv, AlwaysAcknowledges, ExtendedOnlyByRequest, Text, vars
  <2> QED BY <2>1, <2>2, <2>3 DEF Next
<1> QED BY <1>1, InitSession, PTL DEF Spec

(* No sequence of commands, of any length, turns acknowledgements off: a   *)
(* "QStartNoAckMode" never reaches its handler, because the command table  *)
(* sends 'Q' to the handler that answers with an empty reply.              *)
THEOREM AcknowledgesAlways == Spec => []AlwaysAcknowledges
<1>1. SessionInv => AlwaysAcknowledges
  BY DEF SessionInv
<1> QED BY <1>1, SessionInvariant, PTL

(* A session is in extended-remote mode exactly when its own client asked, *)
(* however many sessions came before it.                                   *)
THEOREM ExtendedByRequestAlways == Spec => []ExtendedOnlyByRequest
<1>1. SessionInv => ExtendedOnlyByRequest
  BY DEF SessionInv
<1> QED BY <1>1, SessionInvariant, PTL

(* No command but a monitor command whose name begins with "$" stops the   *)
(* system, breakpoints as the first command of a session included.         *)
THEOREM HaltsOnDollarAlways == Spec => []HaltsOnlyOnDollar
<1>1. SessionInv => HaltsOnlyOnDollar
  BY RemoteHalts DEF SessionInv, HaltsOnlyOnDollar
<1> QED BY <1>1, SessionInvariant, PTL
-----------------------------------------------------------------------------
(* The last outcome is what the handler of the last command answers.       *)
LastInv ==
    /\ TypeOK
    /\ Executed => outcome = gdb_execute(Text)
    /\ halted <=> outcome.halts

LEMMA InitLast == Init => LastInv
<1> SUFFICES ASSUME Init PROVE LastInv
  OBVIOUS
<1>1. /\ log = <<>> /\ outcome = Outcome(<<>>) /\ output = "INIT" /\ halted = FALSE
      /\ properties = FreshProperties
  BY DEF Init
<1>2. Outcome(<<>>) \in AllOutcomes /\ Outcome(<<>>).halts = FALSE
  BY DEF Outcome, AllOutcomes
<1>3. log \in Seq(Texts) /\ Len(log) <= MaxLog
  BY <1>1, LoopAssumption
<1>4. TypeOK
  BY <1>1, <1>2, <1>3 DEF TypeOK, FreshProperties, AllOutcomes
<1> QED BY <1>1, <1>2, <1>4 DEF LastInv, Executed

LEMMA ExecuteKeepsLast ==
    ASSUME SessionInv, LastInv, NEW text \in Texts, Execute(text)
    PROVE  LastInv'
<1>1. ~LengthAsserts(text)
  BY DEF LengthAsserts, Acknowledged, AlwaysAcknowledges, SessionInv
<1>2. /\ log' = Append(log, text) /\ Len(log) < MaxLog
      /\ outcome' = gdb_execute(text) /\ halted' = gdb_execute(text).halts
      /\ output' = IF gdb_execute(text).replies = <<>> THEN Acknowledged ELSE "SENT"
  BY <1>1 DEF Execute
<1>3. /\ Append(log, text) \in Seq(Texts) /\ Len(Append(log, text)) = Len(log) + 1
      /\ Append(log, text)[Len(log) + 1] = text
  <2>1. log \in Seq(Texts)
    BY DEF SessionInv
  <2> QED BY <2>1, AppendFacts, Zenon
<1>4. Len(log) \in Nat /\ Len(log') <= MaxLog
  <2>1. Len(log) \in Nat
    BY LenProperties DEF SessionInv
  <2> QED BY <1>2, <1>3, <2>1, LoopAssumption
<1>5. Text' = text
  BY <1>2, <1>3 DEF Text
<1>6. gdb_execute(text) \in AllOutcomes
  BY ExecuteType
<1>7. properties' \in [extended : BOOLEAN, no_ack : BOOLEAN]
  BY ExecuteKeeps DEF SessionInv
<1>8. output' \in {"INIT", "SENT"}
  BY <1>2 DEF Acknowledged, LastInv, TypeOK
<1>9. TypeOK'
  BY <1>2, <1>3, <1>4, <1>6, <1>7, <1>8 DEF TypeOK, AllOutcomes
<1> QED BY <1>2, <1>5, <1>9 DEF LastInv

LEMMA ReconnectKeepsLast ==
    ASSUME SessionInv, LastInv, Reconnect
    PROVE  LastInv'
<1>1. /\ log' = <<>> /\ outcome' = Outcome(<<>>) /\ output' = "INIT" /\ halted' = FALSE
      /\ properties' = FreshProperties
  BY DEF Reconnect, SessionInv
<1>2. Outcome(<<>>) \in AllOutcomes /\ Outcome(<<>>).halts = FALSE
  BY DEF Outcome, AllOutcomes
<1>3. log' \in Seq(Texts) /\ Len(log') <= MaxLog
  BY <1>1, LoopAssumption
<1>4. TypeOK'
  BY <1>1, <1>2, <1>3 DEF TypeOK, FreshProperties, AllOutcomes
<1> QED BY <1>1, <1>2, <1>4 DEF LastInv, Executed

LEMMA LastInvariant == Spec => [](SessionInv /\ LastInv)
<1>1. SessionInv /\ LastInv /\ [Next]_vars => LastInv'
  <2> SUFFICES ASSUME SessionInv, LastInv, [Next]_vars PROVE LastInv'
    OBVIOUS
  <2>1. CASE \E text \in Texts : Execute(text)
    BY <2>1, ExecuteKeepsLast
  <2>2. CASE Reconnect
    BY <2>2, ReconnectKeepsLast
  <2>3. CASE UNCHANGED vars
    BY <2>3 DEF LastInv, TypeOK, Executed, Text, vars
  <2> QED BY <2>1, <2>2, <2>3 DEF Next
<1> QED BY <1>1, InitLast, SessionInvariant, PTL DEF Spec

LEMMA LastText ==
    ASSUME SessionInv, Executed
    PROVE  Text \in Seq(STRING)
<1>1. Len(log) \in 1..Len(log)
  <2>1. log \in Seq(Texts) /\ log # <<>>
    BY DEF SessionInv, Executed
  <2>2. Len(log) \in Nat /\ Len(log) # 0
    BY <2>1, LenProperties, EmptySeq
  <2> QED BY <2>2
<1>2. Text \in Texts
  BY <1>1, ElementOfSeq DEF Text, SessionInv
<1> QED BY <1>2, LoopAssumption

(* Every variable of the session keeps its type, outcomes included.        *)
THEOREM TypeOKAlways == Spec => []TypeOK
<1>1. LastInv => TypeOK
  BY DEF LastInv
<1> QED BY <1>1, LastInvariant, PTL

(* Whatever its text, a command that is neither a breakpoint nor a blank   *)
(* monitor command and does not stop the system is answered exactly once.  *)
THEOREM OneReplyAlways == Spec => []OneReplyPerCommand
<1>1. ASSUME SessionInv, LastInv PROVE OneReplyPerCommand
  <2> SUFFICES ASSUME Executed, ~halted, CommandOf(Text) \notin {"z", "Z"}, ~Blank(Text)
               PROVE  Len(outcome.replies) = 1
    BY DEF OneReplyPerCommand
  <2>1. outcome = gdb_execute(Text) /\ ~gdb_execute(Text).halts /\ Text \in Seq(STRING)
    BY <1>1, LastText DEF LastInv
  <2>2. \E extended, no_ack \in BOOLEAN : Answered(gdb_execute(Text), extended, no_ack)
    <3>1. gdb_execute(Text) # Halted
      BY <2>1 DEF Halted, Outcome
    <3>2. ~( /\ IsPrefix(<<"q", "Rcmd,">>, Text)
             /\ gdb_get_args_first(SubSeq(Text, 3, Len(Text))) = <<>> )
      <4> SUFFICES ASSUME IsPrefix(<<"q", "Rcmd,">>, Text),
                          gdb_get_args_first(SubSeq(Text, 3, Len(Text))) = <<>>
                   PROVE  FALSE
        OBVIOUS
      <4>1. Len(Text) >= 2
        BY DEF IsPrefix
      <4>2. \A i \in 3..Len(Text) : Text[i] = " "
        BY <2>1, <4>1, BlankCommand
      <4> QED BY <4>2 DEF Blank
    <3> QED BY <3>1, <3>2, ExecuteCases
  <2>3. PICK reply \in Replies : gdb_execute(Text).replies = <<reply>>
    BY <2>2 DEF Answered
  <2> QED BY <2>1, <2>3
<1> QED BY <1>1, LastInvariant, PTL

(* No entry of the query table hides an implemented one, whatever follows  *)
(* its name: the names that share a beginning are the unimplemented ones.  *)
THEOREM NoneShadowedAlways == Spec => []NoImplementedQueryShadowed
<1>1. ASSUME SessionInv, LastInv PROVE NoImplementedQueryShadowed
  <2> SUFFICES ASSUME Executed, CommandOf(Text) = "q", NEW i \in DOMAIN G_QUERY_COMMANDS,
                      G_QUERY_COMMANDS[i].callback # "NULL",
                      IsPrefix(G_QUERY_COMMANDS[i].name, Text)
               PROVE  outcome = QueryCallback(G_QUERY_COMMANDS[i].callback, Text)
    BY DEF NoImplementedQueryShadowed
  <2>1. outcome = gdb_execute(Text) /\ Text \in Seq(STRING)
    BY <1>1, LastText DEF LastInv
  <2>2. gdb_execute(Text) = gdb_query(Text)
    BY DEF gdb_execute
  <2> QED BY <2>1, <2>2, NoneShadowed
<1> QED BY <1>1, LastInvariant, PTL
=============================================================================
