---------------------------- MODULE CommandLoop ----------------------------
(***************************************************************************)
(* A client's accepted commands, one after the other, in the sessions it   *)
(* opens: gdb_execute and the session properties, without the transport.   *)
(***************************************************************************)
EXTENDS GdbCommands

CONSTANTS Texts,     \* the command texts a client sends
          MaxLog     \* commands considered in one session

ASSUME LoopAssumption ==
    /\ Texts \subseteq Seq(STRING)
    /\ MaxLog \in Nat \ {0} /\ HasTarget \in BOOLEAN

VARIABLES log,          \* texts executed in this session
          outcome,      \* of the last one
          properties,   \* p_gdb_session->properties (b_non_stop is never set)
          output,       \* state of the output packet between two commands
          halted        \* an assertion stopped the system

vars == <<log, outcome, properties, output, halted>>

FreshProperties == [extended |-> FALSE, no_ack |-> FALSE]

Init ==
    /\ log = <<>>
    /\ outcome = Outcome(<<>>)
    /\ properties = FreshProperties
    /\ output = "INIT"
    /\ halted = FALSE

(* Mutant: the acknowledgement is not written.                             *)
Acknowledged_Never == output

(* The acknowledgement goes through the output packet and leaves it SENT.  *)
Acknowledged == IF properties.no_ack THEN output ELSE "SENT"

(* gdb_breakpoint asks for the length of the output packet, which only a   *)
(* packet that was completed has.                                          *)
LengthAsserts(text) == CommandOf(text) \in {"z", "Z"} /\ Acknowledged = "INIT"

Execute(text) ==
    LET result == IF LengthAsserts(text) THEN Halted ELSE gdb_execute(text)
    IN  /\ ~halted
        /\ Len(log) < MaxLog
        /\ log' = Append(log, text)
        /\ outcome' = result
        /\ properties' = [extended |-> properties.extended \/ result.extended,
                          no_ack   |-> properties.no_ack \/ result.no_ack]
        /\ output' = IF result.replies = <<>> THEN Acknowledged ELSE "SENT"
        /\ halted' = result.halts

(* Mutant: the properties outlive the session.                             *)
Reconnect_KeepsProperties ==
    /\ ~halted /\ log # <<>>
    /\ log' = <<>>
    /\ outcome' = Outcome(<<>>)
    /\ output' = "INIT"
    /\ UNCHANGED <<properties, halted>>

(* gdb_session_release, then gdb_session_lock for the next connection.     *)
Reconnect ==
    /\ ~halted /\ log # <<>>
    /\ log' = <<>>
    /\ outcome' = Outcome(<<>>)
    /\ properties' = FreshProperties
    /\ output' = "INIT"
    /\ UNCHANGED halted

Next == (\E text \in Texts : Execute(text)) \/ Reconnect

Spec == Init /\ [][Next]_vars
-----------------------------------------------------------------------------
Executed == log # <<>>
Text     == log[Len(log)]

Blank(text) ==
    IsPrefix(<<"q", "Rcmd,">>, text) /\ \A i \in 3..Len(text) : text[i] = " "

(* Every variable has its type.                                            *)
TypeOK ==
    /\ log \in Seq(Texts) /\ Len(log) <= MaxLog
    /\ properties \in [extended : BOOLEAN, no_ack : BOOLEAN]
    /\ output \in {"INIT", "SENT"}
    /\ halted \in BOOLEAN
    /\ outcome \in [replies : Seq(Replies), extended : BOOLEAN,
                    no_ack : BOOLEAN, halts : BOOLEAN]

(* A session is in extended-remote mode exactly when its own client asked  *)
(* for it: nothing of an earlier session is left.                          *)
ExtendedOnlyByRequest ==
    properties.extended <=> \E i \in DOMAIN log : CommandOf(log[i]) = "!"

(* Apart from breakpoints and a blank monitor command, a command that does *)
(* not stop the system gets one reply, no more and no less: the protocol   *)
(* pairs replies with commands by their order only.                        *)
OneReplyPerCommand ==
    Executed /\ ~halted /\ CommandOf(Text) \notin {"z", "Z"} /\ ~Blank(Text) =>
        Len(outcome.replies) = 1

(* The first-match search of gdb_execute_sub hides no implemented query:   *)
(* the callback of the longest matching name, if there is one, answers.    *)
NoImplementedQueryShadowed ==
    Executed /\ CommandOf(Text) = "q" =>
        \A i \in DOMAIN G_QUERY_COMMANDS :
            LET entry == G_QUERY_COMMANDS[i]
            IN  /\ entry.callback # "NULL"
                /\ IsPrefix(entry.name, Text)
                /\ \A j \in DOMAIN G_QUERY_COMMANDS :
                      IsPrefix(G_QUERY_COMMANDS[j].name, Text) =>
                        Len(G_QUERY_COMMANDS[j].name) <= Len(entry.name)
                => outcome = QueryCallback(entry.callback, Text)

(* Of what this module models, only a monitor command whose name begins    *)
(* with "$" stops the system.  gdb_breakpoint's look at the output packet  *)
(* does not, because the acknowledgement of the very command went through  *)
(* that packet first: without acknowledgements a breakpoint as the first   *)
(* command of a session would fail the assertion of gdb_packet_get_length. *)
HaltsOnlyOnDollar ==
    halted => /\ IsPrefix(<<"q", "Rcmd,">>, Text)
              /\ gdb_get_args_first(SubSeq(Text, 3, Len(Text)))[1] = "$"

(* Acknowledgements are never turned off, so every complete frame is       *)
(* answered by at least a '+' or a '-', a write that also refreshes the    *)
(* error that network.c tests.  It is so because the next statement fails. *)
AlwaysAcknowledges == ~properties.no_ack
-----------------------------------------------------------------------------
(* A statement of the sources that the code does not keep.                 *)

(* gdb_query.c lists QStartNoAckMode among the "Supported query commands." *)
(* (line 114) with a handler to "Start the no-ACK mode." (line 98): the    *)
(* request leaves the session in that mode.                                *)
NoAckModeStarts ==
    (\E i \in DOMAIN log : log[i] = <<"Q", "StartNoAckMode">>) => properties.no_ack
=============================================================================
