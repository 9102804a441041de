----------------------------- MODULE GdbServer -----------------------------
(***************************************************************************)
(* The GDB server: the TCP thread of firmware/source/network/network.c,    *)
(* the session of gdb/gdb_session.c it owns, and the commands it executes, *)
(* over the netconns of Netconn.                                           *)
(*                                                                         *)
(* One action per call that touches shared state: netconn_accept,          *)
(* gdb_session_lock, netconn_recv, the reading half of gdb_session_handle, *)
(* each gdb_session_flush, the return to network_serve_gdb, netconn_close  *)
(* with netconn_delete, and gdb_session_release.                           *)
(***************************************************************************)
EXTENDS Netconn, GdbCommands

CONSTANTS ItemOf,         \* item name -> its item of StreamItems
          WriteMayFail,   \* netconn_write may fail without a reset (ERR_MEM)
          OtherTransport  \* a second transport competes for the session

Stream == INSTANCE StreamItems

ASSUME ServerAssumption ==
    /\ ItemOf \in [ItemNames -> Stream!AllItems]
    /\ WriteMayFail \in BOOLEAN /\ OtherTransport \in BOOLEAN
    /\ HasTarget \in BOOLEAN

VARIABLES pc,        \* the TCP thread
          p_conn,    \* g_network_gdb_session.p_conn
          err,       \* g_network_gdb_session.err, kept between connections
          data,      \* items of the current pbuf not handled yet
          pending,   \* what gdb_session_handle has still to flush
          unlocked,  \* g_gdb_session.lock is free
          session,   \* state, transport and properties of g_gdb_session
          output,    \* state of g_gdb_session.output_packet
          fault,     \* the assertion that stopped the system
          tx,        \* history: what was written to each connection
          taken,     \* history: the items handled on each connection
          verdicts,  \* history: the results of read_stream on each connection
          served     \* history: the connections that got the session

sessionVars == <<unlocked, session, output>>
threadVars  == <<pc, p_conn, err, data, pending, fault>>
history     == <<tx, taken, verdicts, served>>
vars        == <<netVars, sessionVars, threadVars, history>>

ACK  == "+"
NACK == "-"

NoFault  == "none"
Inactive == "Session inactive."
BadDigit == "Invalid hex nibble."
NotSent  == "Complete packet was not sent yet."
Start    == "GDB packet start delimiter is invalid in commands names."

IdleSession ==
    [state |-> "IDLE", transport |-> "NONE", extended |-> FALSE, no_ack |-> FALSE]

(* gdb_session_init releases the session before any thread runs.           *)
Init ==
    /\ NetInit
    /\ pc = "accept" /\ p_conn = NULL /\ err = "OK"
    /\ data = <<>> /\ pending = <<>> /\ fault = NoFault
    /\ unlocked = TRUE /\ session = IdleSession /\ output = "INIT"
    /\ tx       = [c \in Conn |-> <<>>]
    /\ taken    = [c \in Conn |-> <<>>]
    /\ verdicts = [c \in Conn |-> <<>>]
    /\ served   = {}

-----------------------------------------------------------------------------
(* The session's lock                                                      *)

(* Mutant: the semaphore is not asked.                                     *)
Lock_Unconditional(transport) ==
    /\ unlocked' = FALSE
    /\ session' = [session EXCEPT !.state = "ACTIVE", !.transport = transport]
    /\ output' = "INIT"

(* gdb_session_lock, when the semaphore is free.                           *)
Lock(transport) ==
    /\ unlocked
    /\ unlocked' = FALSE
    /\ session' = [session EXCEPT !.state = "ACTIVE", !.transport = transport]
    /\ output' = "INIT"

(* Mutant: the properties stay behind.                                     *)
Release_KeepsProperties ==
    /\ unlocked' = TRUE
    /\ session' = [session EXCEPT !.state = "IDLE", !.transport = "NONE"]
    /\ UNCHANGED output

(* gdb_session_release.                                                    *)
Release ==
    /\ unlocked' = TRUE
    /\ session' = IdleSession
    /\ UNCHANGED output

(* Another transport, as the session's interface allows for one.           *)
OtherLocks ==
    /\ OtherTransport /\ fault = NoFault
    /\ Lock("USB_CDC")
    /\ UNCHANGED <<netVars, threadVars, history>>

OtherReleases ==
    /\ fault = NoFault
    /\ session.transport = "USB_CDC"
    /\ Release
    /\ UNCHANGED <<netVars, threadVars, history>>

-----------------------------------------------------------------------------
(* The TCP thread                                                          *)

At(label) == pc = label /\ fault = NoFault

(* netconn_accept returns a connection, or the error left in its place.    *)
Accept ==
    /\ At("accept")
    /\ backlog # <<>>
    /\ backlog' = Tail(backlog)
    /\ p_conn' = Head(backlog)
    /\ pc' = IF Head(backlog) = NULL THEN "accept" ELSE "lock"
    /\ UNCHANGED <<peer, mbox, sent, deleted, err, data, pending, fault,
                   sessionVars, history>>

(* Mutant: the result of gdb_session_lock is ignored.                      *)
LockSession_IgnoresResult ==
    /\ At("lock")
    /\ Lock("TCP_IP") \/ (~unlocked /\ UNCHANGED sessionVars)
    /\ pc' = "recv"
    /\ served' = served \cup {p_conn}
    /\ UNCHANGED <<netVars, p_conn, err, data, pending, fault, tx, taken, verdicts>>

LockSession ==
    /\ At("lock")
    /\ Lock("TCP_IP")
    /\ pc' = "recv"
    /\ served' = served \cup {p_conn}
    /\ UNCHANGED <<netVars, p_conn, err, data, pending, fault, tx, taken, verdicts>>

(* Mutant: a refused connection is forgotten.                              *)
Refuse_Leaks ==
    /\ At("lock") /\ ~unlocked
    /\ pc' = "accept"
    /\ p_conn' = NULL
    /\ UNCHANGED <<netVars, err, data, pending, fault, sessionVars, history>>

(* The session is taken: the connection is closed at once.                 *)
Refuse ==
    /\ At("lock") /\ ~unlocked
    /\ DeleteConn(p_conn)
    /\ pc' = "accept"
    /\ p_conn' = NULL
    /\ UNCHANGED <<backlog, err, data, pending, fault, sessionVars, history>>

(* Mutant: the netbuf is taken for its data.                               *)
Recv_Netbuf ==
    /\ At("recv")
    /\ HasData(p_conn)
    /\ mbox' = [mbox EXCEPT ![p_conn] = Tail(@)]
    /\ data' = Head(mbox[p_conn])
    /\ pc' = "serve"
    /\ UNCHANGED <<peer, backlog, sent, deleted, p_conn, err, pending, fault,
                   sessionVars, history>>

(* What network_serve_gdb takes from a netbuf: its first pbuf.             *)
netbuf_data(netbuf) == Head(netbuf)

Recv ==
    /\ At("recv")
    /\ HasData(p_conn)
    /\ mbox' = [mbox EXCEPT ![p_conn] = Tail(@)]
    /\ data' = netbuf_data(Head(mbox[p_conn]))
    /\ pc' = "serve"
    /\ UNCHANGED <<peer, backlog, sent, deleted, p_conn, err, pending, fault,
                   sessionVars, history>>

RecvEnds ==
    /\ At("recv")
    /\ HasEnded(p_conn)
    /\ pc' = "close"
    /\ UNCHANGED <<netVars, p_conn, err, data, pending, fault, sessionVars, history>>

Items(names) == [i \in DOMAIN names |-> ItemOf[names[i]]]

(* What gdb_session_handle flushes for one result of read_stream: the      *)
(* acknowledgement, unless it is turned off, then each reply.              *)
Ack(character) == IF session.no_ack THEN <<>> ELSE <<character>>

Answers(verdict, outcome) ==
    CASE verdict = "OK"             -> Ack(ACK) \o outcome.replies
      [] verdict = "CHECKSUM_ERROR" -> Ack(NACK)
      [] OTHER                      -> <<>>

(* gdb_session_handle up to its first flush.  Assertions stop the system:  *)
(* the session is not active, or a checksum digit is rejected.  The        *)
(* properties a command sets are read by no one before the next call.      *)
Handle ==
    LET read    == Stream!gdb_packet_read_stream(Items(data))
        outcome == IF read.verdict = "OK" THEN gdb_execute(read.text) ELSE Outcome(<<>>)
        answers == Answers(read.verdict, outcome)
    IN  /\ At("serve")
        /\ session.state = "ACTIVE"
        /\ read.verdict # "HALT"
        /\ data'     = SubSeq(data, read.consumed + 1, Len(data))
        /\ taken'    = [taken EXCEPT ![p_conn] = @ \o SubSeq(data, 1, read.consumed)]
        /\ verdicts' = [verdicts EXCEPT ![p_conn] =
                            Append(@, [verdict |-> read.verdict, text |-> read.text])]
        /\ session'  = [session EXCEPT !.extended = @ \/ outcome.extended,
                                       !.no_ack   = @ \/ outcome.no_ack]
        /\ pending'  = IF outcome.halts THEN Append(answers, Start) ELSE answers
        /\ pc' = IF pending' = <<>> THEN "handled" ELSE "flush"
        /\ UNCHANGED <<netVars, p_conn, err, fault, unlocked, output, tx, served>>

HandleAsserts ==
    /\ At("serve")
    /\ \/ /\ session.state # "ACTIVE"
          /\ fault' = Inactive
       \/ /\ session.state = "ACTIVE"
          /\ Stream!gdb_packet_read_stream(Items(data)).verdict = "HALT"
          /\ fault' = BadDigit
    /\ UNCHANGED <<netVars, pc, p_conn, err, data, pending, sessionVars, history>>

(* Mutants: a failed write leaves the packet unsent; it leaves the session *)
(* active; a successful one leaves the old error.                          *)
Flushed_NotMarked(ok) ==
    /\ err' = IF ok THEN "OK" ELSE "ERR"
    /\ output' = IF ok THEN "SENT" ELSE "COMPLETE"
    /\ session' = IF ok \/ session.transport # "TCP_IP" THEN session
                  ELSE [session EXCEPT !.state = "ABORTED"]

Flushed_StaysActive(ok) ==
    /\ err' = IF ok THEN "OK" ELSE "ERR"
    /\ output' = "SENT"
    /\ UNCHANGED session

Flushed_StickyError(ok) ==
    /\ err' = IF ok THEN err ELSE "ERR"
    /\ output' = "SENT"
    /\ session' = IF ok \/ session.transport # "TCP_IP" THEN session
                  ELSE [session EXCEPT !.state = "ABORTED"]

(* gdb_session_flush after network_gdb_write_cb returned: the packet is    *)
(* marked as sent either way, and a failure aborts a TCP session.          *)
Flushed(ok) ==
    /\ err' = IF ok THEN "OK" ELSE "ERR"
    /\ output' = "SENT"
    /\ session' = IF ok \/ session.transport # "TCP_IP" THEN session
                  ELSE [session EXCEPT !.state = "ABORTED"]

(* gdb_packet_write_start asserts that the last packet was sent; an        *)
(* acknowledgement is written without asking.                              *)
MayWrite(answer) == answer \in {ACK, NACK} \/ output # "COMPLETE"

NextFlush ==
    /\ pending' = Tail(pending)
    /\ pc' = IF Tail(pending) = <<>> THEN "handled" ELSE "flush"
    /\ UNCHANGED <<netVars, p_conn, data, fault, unlocked, taken, verdicts, served>>

Flush ==
    /\ At("flush")
    /\ Head(pending) # Start /\ MayWrite(Head(pending))
    /\ peer[p_conn] # "rst"
    /\ Flushed(TRUE)
    /\ tx' = [tx EXCEPT ![p_conn] = Append(@, Head(pending))]
    /\ NextFlush

FlushFails ==
    /\ At("flush")
    /\ Head(pending) # Start /\ MayWrite(Head(pending))
    /\ WriteMayFail \/ peer[p_conn] = "rst"
    /\ Flushed(FALSE)
    /\ UNCHANGED tx
    /\ NextFlush

FlushAsserts ==
    /\ At("flush")
    /\ \/ Head(pending) = Start /\ fault' = Start
       \/ Head(pending) # Start /\ ~MayWrite(Head(pending)) /\ fault' = NotSent
    /\ UNCHANGED <<netVars, pc, p_conn, err, data, pending, sessionVars, history>>

(* Mutant: one packet per netbuf.                                          *)
Handled_OnePacket ==
    /\ At("handled")
    /\ data' = <<>>
    /\ pc' = IF err = "OK" /\ session.state = "ABORTED" THEN "close" ELSE "recv"
    /\ UNCHANGED <<netVars, p_conn, err, pending, fault, sessionVars, history>>

(* network_serve_gdb after gdb_session_handle: the RETURN_IF_NOT on the    *)
(* write error comes first and returns ERR_OK; then the aborted session    *)
(* ends the connection; then the loop test.                                *)
Handled ==
    /\ At("handled")
    /\ \/ err # "OK" /\ pc' = "recv" /\ data' = <<>>
       \/ err = "OK" /\ session.state = "ABORTED" /\ pc' = "close" /\ data' = <<>>
       \/ /\ err = "OK" /\ session.state # "ABORTED"
          /\ pc' = IF data = <<>> THEN "recv" ELSE "serve"
          /\ UNCHANGED data
    /\ UNCHANGED <<netVars, p_conn, err, pending, fault, sessionVars, history>>

Close ==
    /\ At("close")
    /\ DeleteConn(p_conn)
    /\ pc' = "release"
    /\ UNCHANGED <<backlog, p_conn, err, data, pending, fault, sessionVars, history>>

ReleaseSession ==
    /\ At("release")
    /\ Release
    /\ pc' = "accept"
    /\ p_conn' = NULL
    /\ UNCHANGED <<netVars, err, data, pending, fault, history>>

Server ==
    \/ Accept \/ LockSession \/ Refuse \/ Recv \/ RecvEnds
    \/ Handle \/ HandleAsserts \/ Flush \/ FlushFails \/ FlushAsserts
    \/ Handled \/ Close \/ ReleaseSession

Environment ==
    /\ Clients
    /\ UNCHANGED <<sessionVars, threadVars, history>>

Next == Server \/ Environment \/ OtherLocks \/ OtherReleases

Spec == Init /\ [][Next]_vars

(* The thread runs whenever it can (it is the only one of its priority and *)
(* every thread above it blocks), and a client does not stay for ever.     *)
FairSpec ==
    /\ Spec
    /\ WF_vars(Server)
    /\ \A c \in Conn : WF_vars(Fin(c) /\ UNCHANGED <<sessionVars, threadVars, history>>)
-----------------------------------------------------------------------------
(* Terms of the properties                                                 *)

Faults  == {NoFault, Inactive, BadDigit, NotSent, Start}
Outputs == {ACK, NACK} \cup Replies
InServe == {"recv", "serve", "flush", "handled", "close"}

(* The TCP thread holds the session for p_conn.                            *)
Serving(c) == pc \in InServe /\ p_conn = c

Without(s, x) ==
    FlattenSeq([i \in DOMAIN s |-> IF s[i] = x THEN <<>> ELSE <<s[i]>>])

SentItems(netbufs) ==
    FlattenSeq([i \in DOMAIN netbufs |-> FlattenSeq(netbufs[i])])

(* What a client is owed for a sequence of verdicts, by the protocol: each *)
(* accepted packet a '+' and then its replies, each damaged one a '-'.     *)
OwedFor(result) ==
    CASE result.verdict = "OK"             -> <<ACK>> \o gdb_execute(result.text).replies
      [] result.verdict = "CHECKSUM_ERROR" -> <<NACK>>
      [] OTHER                             -> <<>>

Owed(log) == FlattenSeq([i \in DOMAIN log |-> OwedFor(log[i])])

Verdicts == [verdict : {"OK", "CHECKSUM_ERROR", "COLLECTING"}, text : Seq(STRING)]

TypeOK ==
    /\ NetTypeOK
    /\ pc \in {"accept", "lock", "release"} \cup InServe
    /\ p_conn \in Conn \cup {NULL}
    /\ err \in {"OK", "ERR"}
    /\ data \in Seq(ItemNames)
    /\ pending \in Seq(Outputs \cup {Start})
    /\ fault \in Faults
    /\ unlocked \in BOOLEAN
    /\ session \in [state     : {"IDLE", "ACTIVE", "ABORTED"},
                    transport : {"NONE", "USB_CDC", "TCP_IP"},
                    extended  : BOOLEAN, no_ack : BOOLEAN]
    /\ output \in {"INIT", "COMPLETE", "SENT"}
    /\ tx \in [Conn -> Seq(Outputs)]
    /\ taken \in [Conn -> Seq(ItemNames)]
    /\ verdicts \in [Conn -> Seq(Verdicts)]
    /\ served \subseteq Conn
-----------------------------------------------------------------------------
(* Safety                                                                  *)

(* One session at a time (gdb_session.c, line 22): the thread works on a   *)
(* connection exactly while it holds the lock for TCP, it never touches a  *)
(* netconn it deleted, and a free lock means an idle session.              *)
SessionExclusive ==
    /\ pc \in InServe \cup {"release"} <=> session.transport = "TCP_IP"
    /\ unlocked <=> session.state = "IDLE"
    /\ unlocked <=> session.transport = "NONE"
    /\ pc \in InServe \cup {"lock"} => p_conn \in Conn \ deleted
    /\ session.state = "ABORTED" => session.transport = "TCP_IP"

(* A client is answered in full and in order: until a write fails, what    *)
(* was written and what is being written is what its packets are owed.     *)
AnsweredInOrder ==
    \A c \in Conn : Serving(c) /\ session.state = "ACTIVE" =>
        tx[c] \o Without(pending, Start) = Owed(verdicts[c])

(* A write error left over from an earlier write, or an earlier connection *)
(* (network.c never clears it), costs a live session no data: the received *)
(* items are handled one after the other without a gap.                    *)
NothingSkipped ==
    \A c \in Conn : Serving(c) /\ session.state = "ACTIVE" =>
        taken[c] \o data \o SentItems(mbox[c]) = SentItems(sent[c])

(* A client that was served, closed in good order and got every answer it  *)
(* was owed lost nothing: all it sent was handled before its connection    *)
(* was deleted.  Data is given up only after a write that failed.          *)
NothingLostAtClose ==
    \A c \in deleted :
        peer[c] = "fin" /\ c \in served /\ tx[c] = Owed(verdicts[c]) =>
            taken[c] = SentItems(sent[c])

(* The session a client gets is a new one: extended-remote mode is on only *)
(* if the client of this very connection sent an accepted '!'.             *)
FreshSession ==
    session.extended =>
        \E c \in Conn : /\ p_conn = c
                        /\ \E i \in DOMAIN verdicts[c] :
                              /\ verdicts[c][i].verdict = "OK"
                              /\ CommandOf(verdicts[c][i].text) = "!"

(* The command that was accepted last fails an assertion of its handler.   *)
HaltingLast ==
    /\ verdicts[p_conn] # <<>>
    /\ LET last == verdicts[p_conn][Len(verdicts[p_conn])]
       IN  last.verdict = "OK" /\ gdb_execute(last.text).halts

(* Whatever fails, an assertion stops the system for one of three reasons: *)
(* "Session inactive." takes a session that a failed write aborted and     *)
(* whose error is still the last, "Invalid hex nibble." a packet received  *)
(* with such a checksum, the one on command names such a command.  Failing *)
(* writes never leave a packet that the next reply would trip over         *)
(* ("Complete packet was not sent yet.").                                  *)
AssertionsExplained ==
    /\ fault # NotSent
    /\ fault = Inactive => session.state = "ABORTED" /\ err = "ERR"
    /\ fault = BadDigit => \E i \in DOMAIN data : ItemOf[data[i]].ref = Stream!BadDigits
    /\ fault = Start => HaltingLast

(* Only the connection that has the session is written to, and nothing is  *)
(* written to any connection once it is deleted.                           *)
OnlyOwnerWritten ==
    [][\A c \in Conn : tx'[c] # tx[c] =>
          /\ Serving(c) /\ c \notin deleted
          /\ session.transport = "TCP_IP" /\ c \in served]_vars

-----------------------------------------------------------------------------
(* Liveness                                                                *)

(* Every client that connects is served or refused, and its connection is  *)
(* deleted, unless an assertion stops the system first.                    *)
EveryConnectionEnds ==
    \A c \in Conn : peer[c] # "none" ~> (c \in deleted \/ fault # NoFault)

(***************************************************************************)
(* The server implements SingleSession: a connection waits until the       *)
(* thread has asked for the lock, and owns the session until it is deleted.*)
(***************************************************************************)
Abstract == INSTANCE SingleSession WITH
    waiting <- (IF pc = "lock" THEN <<p_conn>> ELSE <<>>)
               \o Without(backlog, NULL),
    owner   <- IF pc \in InServe THEN p_conn ELSE NULL,
    done    <- deleted,
    talk    <- tx,
    Output  <- Outputs

(* The clients see SingleSession whatever the interleaving, the failures   *)
(* and the competing transport.                                            *)
ImplementsSingleSession == Abstract!Spec
-----------------------------------------------------------------------------
(* Statements of the sources that the code does not keep.                  *)

(* gdb_session.c, line 63, asserts that data is handled only in an active  *)
(* session.                                                                *)
SessionActiveWhenHandling == fault # Inactive

(* gdb_session.c, lines 7-8: the session "implements a transparent channel *)
(* [...] This implementation uses either a TCP/IP connection [...]": what  *)
(* arrives on the connection reaches the protocol.                         *)
TransparentChannel ==
    \A c \in Conn : Serving(c) /\ pc = "recv" /\ session.state = "ACTIVE" =>
        taken[c] \o SentItems(mbox[c]) = SentItems(sent[c])
=============================================================================
