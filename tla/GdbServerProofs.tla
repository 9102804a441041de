-------------------------- MODULE GdbServerProofs --------------------------
(***************************************************************************)
(* The session discipline of GdbServer, for any number of clients, any     *)
(* traffic, and with every failure the environment may produce.            *)
(***************************************************************************)
EXTENDS GdbServer, GdbCommandsProofs

(* A connection that is queued, owned or deleted has been opened; no       *)
(* connection is queued twice, and none is queued once the thread has it.  *)
BacklogInv ==
    /\ peer \in [Conn -> {"none", "up", "fin", "rst"}]
    /\ backlog \in Seq(Conn \cup {NULL})
    /\ \A i \in 1..Len(backlog) : backlog[i] # NULL =>
          backlog[i] \notin deleted /\ peer[backlog[i]] # "none"
    /\ \A i, j \in 1..Len(backlog) :
          backlog[i] = backlog[j] /\ backlog[i] # NULL => i = j
    /\ \A c \in deleted : c \in Conn /\ peer[c] # "none"

OwnerInv ==
    /\ pc \in {"accept", "lock", "release"} \cup InServe
    /\ pc \in {"lock", "release"} \cup InServe =>
          /\ p_conn \in Conn /\ peer[p_conn] # "none"
          /\ \A i \in 1..Len(backlog) : backlog[i] # p_conn
    /\ pc \in InServe => p_conn \in served

SessionRecord ==
    /\ session = [state     |-> session.state,    transport |-> session.transport,
                  extended  |-> session.extended, no_ack    |-> session.no_ack]
    /\ session.state \in {"IDLE", "ACTIVE", "ABORTED"}
    /\ session.transport \in {"NONE", "USB_CDC", "TCP_IP"}
    /\ unlocked \in BOOLEAN

SessionInv == BacklogInv /\ OwnerInv /\ SessionRecord /\ SessionExclusive

(* gdb_session_init leaves an idle, free session.                          *)
LEMMA InitSession == Init => SessionInv
BY NetconnAssumption
   DEF Init, NetInit, SessionInv, BacklogInv, OwnerInv, SessionRecord, SessionExclusive,
       InServe, IdleSession

(* A client that connects is new to the server.                            *)
LEMMA ConnectStep ==
    ASSUME SessionInv, NEW c \in Conn, Connect(c),
           UNCHANGED <<sessionVars, threadVars, history>>
    PROVE  SessionInv'
<1> USE DEF SessionInv, BacklogInv, OwnerInv
<1>1. /\ backlog' \in Seq(Conn \cup {NULL})
      /\ Len(backlog') = Len(backlog) + 1 /\ Len(backlog) \in Nat
      /\ \A i \in 1..Len(backlog) : backlog'[i] = backlog[i]
      /\ backlog'[Len(backlog) + 1] = c
  BY AppendProperties, LenProperties DEF Connect
<1>2. /\ peer' \in [Conn -> {"none", "up", "fin", "rst"}]
      /\ \A d \in Conn : peer'[d] = IF d = c THEN "up" ELSE peer[d]
      /\ peer[c] = "none" /\ deleted' = deleted
  BY DEF Connect
<1>3. \A i \in 1..Len(backlog) : backlog[i] # c
  BY <1>2, NetconnAssumption
<1>4. BacklogInv'
  <2>1. \A i \in 1..Len(backlog)' : i \in 1..Len(backlog) \/ i = Len(backlog) + 1
    BY <1>1
  <2>2. \A i \in 1..Len(backlog) : backlog[i] # NULL => backlog[i] \in Conn
    BY ElementOfSeq
  <2> QED BY <1>1, <1>2, <1>3, <2>1, <2>2
<1>5. OwnerInv'
  BY <1>1, <1>2 DEF threadVars, history
<1>6. SessionRecord' /\ SessionExclusive'
  BY <1>2 DEF SessionRecord, SessionExclusive, sessionVars, threadVars
<1> QED BY <1>4, <1>5, <1>6

(* Data, a FIN and a reset change nothing the discipline depends on.       *)
LEMMA ClientStep ==
    ASSUME SessionInv, Environment
    PROVE  SessionInv'
<1> USE DEF SessionInv, BacklogInv, OwnerInv
<1>1. UNCHANGED <<sessionVars, threadVars, history>>
  BY DEF Environment
<1>2. ASSUME NEW c \in Conn, Connect(c) PROVE SessionInv'
  BY <1>1, <1>2, ConnectStep
<1>3. CASE ConnectFails
  <2>1. /\ backlog' \in Seq(Conn \cup {NULL})
        /\ Len(backlog') = Len(backlog) + 1 /\ Len(backlog) \in Nat
        /\ \A i \in 1..Len(backlog) : backlog'[i] = backlog[i]
        /\ backlog'[Len(backlog) + 1] = NULL
    BY <1>3, AppendProperties, LenProperties DEF ConnectFails
  <2>2. UNCHANGED <<peer, deleted>>
    BY <1>3 DEF ConnectFails
  <2>3. \A i \in 1..Len(backlog)' : i \in 1..Len(backlog) \/ i = Len(backlog) + 1
    BY <2>1
  <2>4. BacklogInv'
    BY <2>1, <2>2, <2>3
  <2>5. OwnerInv'
    BY <1>1, <2>1, <2>2, <2>3, NetconnAssumption DEF threadVars, history
  <2>6. SessionRecord' /\ SessionExclusive'
    BY <1>1, <2>2 DEF SessionRecord, SessionExclusive, sessionVars, threadVars
  <2> QED BY <2>4, <2>5, <2>6
<1>4. ASSUME NEW c \in Conn, Fin(c) \/ Rst(c) \/ \E netbuf \in Netbufs : Deliver(c, netbuf)
      PROVE  SessionInv'
  <2>1. /\ backlog' = backlog /\ deleted' = deleted
        /\ peer' \in [Conn -> {"none", "up", "fin", "rst"}]
        /\ \A d \in Conn : peer[d] # "none" => peer'[d] # "none"
    BY <1>4 DEF Fin, Rst, Deliver
  <2>2. \A i \in 1..Len(backlog) : backlog[i] # NULL => backlog[i] \in Conn
    BY ElementOfSeq
  <2>3. BacklogInv'
    BY <2>1, <2>2
  <2>4. OwnerInv'
    BY <1>1, <2>1 DEF threadVars, history
  <2>5. SessionRecord' /\ SessionExclusive'
    BY <1>1, <2>1 DEF SessionRecord, SessionExclusive, sessionVars, threadVars
  <2> QED BY <2>3, <2>4, <2>5
<1> QED BY <1>2, <1>3, <1>4 DEF Environment, Clients

(* The other transport takes and frees the session only through the lock.  *)
LEMMA OtherStep ==
    ASSUME SessionInv, OtherLocks \/ OtherReleases
    PROVE  SessionInv'
<1>1. UNCHANGED <<netVars, threadVars, history>>
  BY DEF OtherLocks, OtherReleases
<1>2. BacklogInv' /\ OwnerInv'
  BY <1>1 DEF SessionInv, BacklogInv, OwnerInv, netVars, threadVars, history
<1>3. CASE OtherLocks
  <2>1. /\ unlocked /\ ~unlocked' /\ unlocked' \in BOOLEAN
        /\ session' = [session EXCEPT !.state = "ACTIVE", !.transport = "USB_CDC"]
    BY <1>3 DEF OtherLocks, Lock
  <2>2. session.transport = "NONE"
    BY <2>1 DEF SessionInv, SessionExclusive
  <2>3. /\ SessionRecord'
        /\ session'.state = "ACTIVE" /\ session'.transport = "USB_CDC"
    BY <2>1 DEF SessionInv, SessionRecord
  <2>4. SessionExclusive'
    BY <1>1, <2>1, <2>2, <2>3 DEF SessionInv, SessionExclusive, netVars, threadVars
  <2> QED BY <1>2, <2>3, <2>4 DEF SessionInv
<1>4. CASE OtherReleases
  <2>1. /\ unlocked' /\ unlocked' \in BOOLEAN /\ session' = IdleSession
        /\ session.transport = "USB_CDC"
    BY <1>4 DEF OtherReleases, Release
  <2>2. /\ SessionRecord'
        /\ session'.state = "IDLE" /\ session'.transport = "NONE"
    BY <2>1 DEF SessionRecord, IdleSession
  <2>3. SessionExclusive'
    BY <1>1, <2>1, <2>2 DEF SessionInv, SessionExclusive, netVars, threadVars
  <2> QED BY <1>2, <2>2, <2>3 DEF SessionInv
<1> QED BY <1>2, <1>3, <1>4 DEF SessionInv

(* Steps of the thread that leave the netconns, the connection and the     *)
(* lock alone, and the session's state and transport unless a write fails. *)
LEMMA QuietStep ==
    ASSUME SessionInv,
           UNCHANGED <<peer, backlog, deleted, p_conn, unlocked, served>>,
           pc \in InServe, pc' \in InServe,
           SessionRecord',
           session'.transport = session.transport,
           session'.state \in {session.state, "ABORTED"}
    PROVE  SessionInv'
BY DEF SessionInv, BacklogInv, OwnerInv, SessionRecord, SessionExclusive, InServe

(* Each way the thread moves on while it serves a connection.              *)
LEMMA ServingStep ==
    ASSUME SessionInv,
           \/ Recv \/ RecvEnds \/ Handle \/ HandleAsserts \/ Flush \/ FlushFails
           \/ FlushAsserts \/ Handled
    PROVE  SessionInv'
<1>1. UNCHANGED <<peer, backlog, deleted, p_conn, unlocked, served>>
  BY DEF Recv, RecvEnds, Handle, HandleAsserts, Flush, FlushFails, FlushAsserts,
         Handled, NextFlush, netVars, sessionVars, history
<1>2. pc \in InServe
  BY DEF Recv, RecvEnds, Handle, HandleAsserts, Flush, FlushFails, FlushAsserts,
         Handled, At, InServe
<1>3. pc' \in InServe
  BY <1>2 DEF Recv, RecvEnds, Handle, HandleAsserts, Flush, FlushFails, FlushAsserts,
         Handled, NextFlush, At, InServe
<1>4. /\ SessionRecord'
      /\ session'.transport = session.transport
      /\ session'.state \in {session.state, "ABORTED"}
  <2> USE DEF SessionInv, SessionRecord
  <2>1. CASE Handle
    <3>1. PICK e, n : session' = [session EXCEPT !.extended = e, !.no_ack = n]
      BY <2>1 DEF Handle
    <3> QED BY <1>1, <3>1
  <2>2. CASE Flush \/ FlushFails
    <3>1. session' = session \/ session' = [session EXCEPT !.state = "ABORTED"]
      BY <2>2 DEF Flush, FlushFails, Flushed
    <3> QED BY <1>1, <3>1
  <2>3. CASE Recv \/ RecvEnds \/ HandleAsserts \/ FlushAsserts \/ Handled
    <3>1. UNCHANGED session
      BY <2>3 DEF Recv, RecvEnds, HandleAsserts, FlushAsserts, Handled, sessionVars
    <3> QED BY <1>1, <3>1
  <2> QED BY <2>1, <2>2, <2>3
<1> QED BY <1>1, <1>2, <1>3, <1>4, QuietStep

(* netconn_accept hands the thread the oldest connection of the queue, and *)
(* the others stay queued.                                                 *)
LEMMA AcceptStep ==
    ASSUME SessionInv, Accept
    PROVE  SessionInv'
<1> USE DEF SessionInv, BacklogInv, OwnerInv
<1>1. /\ backlog' = Tail(backlog) /\ p_conn' = Head(backlog) /\ backlog # <<>>
      /\ pc = "accept"
      /\ pc' = IF Head(backlog) = NULL THEN "accept" ELSE "lock"
      /\ UNCHANGED <<peer, deleted, served, unlocked, session>>
  BY DEF Accept, At, sessionVars, history
<1>2. /\ Head(backlog) = backlog[1] /\ backlog[1] \in Conn \cup {NULL}
      /\ backlog' \in Seq(Conn \cup {NULL})
      /\ Len(backlog') = Len(backlog) - 1
      /\ \A i \in 1..Len(backlog') : backlog'[i] = backlog[i + 1]
      /\ Len(backlog) \in Nat \ {0}
  <2>1. Len(backlog) \in Nat \ {0}
    BY <1>1, EmptySeq
  <2>2. backlog[1] \in Conn \cup {NULL}
    BY <2>1, ElementOfSeq
  <2> QED BY <1>1, <2>1, <2>2, HeadTailProperties
<1>3. \A i \in 1..Len(backlog') : i + 1 \in 1..Len(backlog) /\ i + 1 # 1
  BY <1>2
<1>4. BacklogInv'
  BY <1>1, <1>2, <1>3
<1>5. OwnerInv'
  <2>1. CASE Head(backlog) = NULL
    BY <1>1, <2>1 DEF InServe
  <2>2. CASE Head(backlog) # NULL
    <3>1. 1 \in 1..Len(backlog)
      BY <1>2
    <3>2. p_conn' \in Conn /\ peer'[p_conn'] # "none"
      BY <1>1, <1>2, <2>2, <3>1
    <3>3. \A i \in 1..Len(backlog') : backlog'[i] # p_conn'
      BY <1>1, <1>2, <1>3, <2>2, <3>1
    <3> QED BY <1>1, <2>2, <3>2, <3>3 DEF InServe
  <2> QED BY <2>1, <2>2
<1>6. SessionRecord' /\ SessionExclusive'
  <2>1. 1 \in 1..Len(backlog)
    BY <1>2
  <2> QED BY <1>1, <1>2, <2>1 DEF SessionRecord, SessionExclusive, InServe
<1> QED BY <1>4, <1>5, <1>6

(* gdb_session_lock succeeds on an idle session only.                      *)
LEMMA LockStep ==
    ASSUME SessionInv, LockSession
    PROVE  SessionInv'
<1>1. /\ pc = "lock" /\ pc' = "recv" /\ unlocked /\ ~unlocked' /\ unlocked' \in BOOLEAN
      /\ session' = [session EXCEPT !.state = "ACTIVE", !.transport = "TCP_IP"]
      /\ UNCHANGED <<peer, backlog, deleted, p_conn>>
      /\ served' = served \cup {p_conn}
  BY DEF LockSession, Lock, At, netVars
<1>2. BacklogInv' /\ OwnerInv'
  BY <1>1 DEF SessionInv, BacklogInv, OwnerInv, InServe
<1>3. /\ SessionRecord'
      /\ session'.state = "ACTIVE" /\ session'.transport = "TCP_IP"
  BY <1>1 DEF SessionInv, SessionRecord
<1>4. SessionExclusive'
  BY <1>1, <1>3 DEF SessionInv, SessionExclusive, InServe
<1> QED BY <1>2, <1>3, <1>4 DEF SessionInv

(* A connection is deleted once, when it is in no queue any more.          *)
LEMMA DeleteStep ==
    ASSUME SessionInv, Refuse \/ Close
    PROVE  SessionInv'
<1>1. /\ deleted' = deleted \cup {p_conn}
      /\ UNCHANGED <<peer, backlog, served, unlocked, session>>
      /\ \/ pc = "lock" /\ pc' = "accept"
         \/ pc = "close" /\ pc' = "release" /\ p_conn' = p_conn
  BY DEF Refuse, Close, DeleteConn, At, sessionVars, history
<1>2. BacklogInv' /\ OwnerInv'
  BY <1>1 DEF SessionInv, BacklogInv, OwnerInv, InServe
<1>3. SessionRecord' /\ SessionExclusive'
  BY <1>1 DEF SessionInv, SessionRecord, SessionExclusive, InServe
<1> QED BY <1>2, <1>3 DEF SessionInv

(* gdb_session_release returns the session to where gdb_session_init left  *)
(* it.                                                                     *)
LEMMA ReleaseStep ==
    ASSUME SessionInv, ReleaseSession
    PROVE  SessionInv'
<1>1. /\ pc' = "accept" /\ unlocked' /\ unlocked' \in BOOLEAN /\ session' = IdleSession
      /\ UNCHANGED <<peer, backlog, deleted, served>>
  BY DEF ReleaseSession, Release, netVars, history
<1>2. BacklogInv' /\ OwnerInv'
  BY <1>1 DEF SessionInv, BacklogInv, OwnerInv, InServe
<1>3. SessionRecord' /\ session'.state = "IDLE" /\ session'.transport = "NONE"
  BY <1>1 DEF SessionRecord, IdleSession
<1>4. SessionExclusive'
  BY <1>1, <1>3 DEF SessionExclusive, InServe
<1> QED BY <1>2, <1>3, <1>4 DEF SessionInv

LEMMA SessionStep == SessionInv /\ [Next]_vars => SessionInv'
<1> SUFFICES ASSUME SessionInv, [Next]_vars PROVE SessionInv'
  OBVIOUS
<1>1. CASE Environment
  BY <1>1, ClientStep
<1>2. CASE OtherLocks \/ OtherReleases
  BY <1>2, OtherStep
<1>3. CASE Server
  BY <1>3, AcceptStep, LockStep, DeleteStep, ReleaseStep, ServingStep DEF Server
<1>4. CASE UNCHANGED vars
  BY <1>4 DEF vars, netVars, sessionVars, threadVars, history, SessionInv, BacklogInv,
              OwnerInv, SessionRecord, SessionExclusive
<1> QED BY <1>1, <1>2, <1>3, <1>4 DEF Next

LEMMA SessionInvariant == Spec => []SessionInv
BY InitSession, SessionStep, PTL DEF Spec

(* SessionExclusive: one session at a time, the thread works on a          *)
(* connection exactly while it holds the lock, and on none that it deleted.*)
THEOREM OneSession == Spec => []SessionExclusive
<1>1. SessionInv => SessionExclusive
  BY DEF SessionInv
<1> QED BY <1>1, SessionInvariant, PTL

(* OnlyOwnerWritten: no step writes to a connection other than the one     *)
(* that has the session.                                                   *)
THEOREM OwnerWritten == Spec => OnlyOwnerWritten
<1> DEFINE Owned == \A c \in Conn : tx'[c] # tx[c] =>
                        /\ Serving(c) /\ c \notin deleted
                        /\ session.transport = "TCP_IP" /\ c \in served
<1>1. SessionInv /\ [Next]_vars => [Owned]_vars
  <2> SUFFICES ASSUME SessionInv, Next, NEW c \in Conn, tx'[c] # tx[c]
               PROVE  /\ Serving(c) /\ c \notin deleted
                      /\ session.transport = "TCP_IP" /\ c \in served
    OBVIOUS
  <2>1. Flush
    BY DEF Next, Server, Accept, LockSession, Refuse, Recv, RecvEnds, Handle,
           HandleAsserts, FlushFails, FlushAsserts, Handled, Close, ReleaseSession,
           Environment, OtherLocks, OtherReleases, history
  <2>2. p_conn = c /\ pc = "flush"
    BY <2>1 DEF Flush, At
  <2> QED BY <2>2 DEF SessionInv, OwnerInv, SessionExclusive, Serving, InServe
<1> QED BY <1>1, SessionInvariant, PTL DEF Spec, OnlyOwnerWritten

-----------------------------------------------------------------------------
(* What one call of gdb_packet_read_stream makes of the received items: it *)
(* always consumes at least one, all of them if no frame closes, and its   *)
(* text and its verdict on the digits come from an item it was given.      *)
LEMMA ReadFacts ==
    ASSUME NEW names \in Seq(ItemNames), names # <<>>,
           NEW read, read = Stream!gdb_packet_read_stream(Items(names))
    PROVE  /\ read.consumed \in 1..Len(names)
           /\ read.verdict \in {"COLLECTING", "HALT", "OK", "CHECKSUM_ERROR"}
           /\ read.verdict = "COLLECTING" => read.consumed = Len(names)
           /\ \E i \in DOMAIN names :
                 /\ names[i] \in ItemNames /\ read.text = ItemOf[names[i]].text
                 /\ read.verdict = "HALT" => ItemOf[names[i]].ref = Stream!BadDigits
           /\ read.text \in Seq(STRING)
<1> DEFINE items    == Items(names)
           closing  == {i \in DOMAIN items : items[i].ref # Stream!OpenEnd}
           consumed == IF closing = {} THEN Len(items) ELSE Stream!Min(closing)
           last     == items[consumed]
<1>1. /\ Len(names) \in Nat \ {0} /\ DOMAIN items = 1..Len(names)
      /\ \A i \in 1..Len(names) : names[i] \in ItemNames /\ items[i] = ItemOf[names[i]]
  BY EmptySeq, ElementOfSeq DEF Items
<1>2. Len(items) = Len(names)
  BY <1>1 DEF Items
<1>3. PICK checksum :
         /\ read.consumed = consumed
         /\ read.text = last.text
         /\ read.verdict = (CASE last.ref = Stream!OpenEnd   -> "COLLECTING"
                              [] last.ref = Stream!BadDigits -> "HALT"
                              [] last.ref = checksum         -> "OK"
                              [] OTHER                       -> "CHECKSUM_ERROR")
  BY DEF Stream!gdb_packet_read_stream
<1> HIDE DEF items
<1>4. closing # {} => Stream!Min(closing) \in closing
  <2>1. closing \in SUBSET Nat
    BY <1>1
  <2>2. Stream!Min(closing) = Min(closing)
    BY DEF Stream!Min, Min
  <2> HIDE DEF closing
  <2> QED BY <2>1, <2>2, MinIsLeast
<1>5. consumed \in 1..Len(names)
  BY <1>1, <1>2, <1>4
<1>6. last.ref = Stream!OpenEnd => consumed = Len(names)
  BY <1>2, <1>4
<1>7. names[consumed] \in ItemNames /\ last = ItemOf[names[consumed]]
  <2> HIDE DEF consumed
  <2> QED BY <1>1, <1>5
<1> HIDE DEF closing, consumed, last
<1>8. last.text \in Seq(STRING)
  BY <1>7, ServerAssumption DEF Stream!AllItems
<1>9. /\ read.verdict \in {"COLLECTING", "HALT", "OK", "CHECKSUM_ERROR"}
      /\ read.verdict = "COLLECTING" => last.ref = Stream!OpenEnd
      /\ read.verdict = "HALT" => last.ref = Stream!BadDigits
  <2>1. CASE last.ref = Stream!OpenEnd
    BY <1>3, <2>1
  <2>2. CASE last.ref # Stream!OpenEnd /\ last.ref = Stream!BadDigits
    BY <1>3, <2>2
  <2>3. CASE last.ref # Stream!OpenEnd /\ last.ref # Stream!BadDigits /\ last.ref = checksum
    BY <1>3, <2>3
  <2>4. CASE last.ref # Stream!OpenEnd /\ last.ref # Stream!BadDigits /\ last.ref # checksum
    BY <1>3, <2>4
  <2> QED BY <2>1, <2>2, <2>3, <2>4
<1>10. consumed \in DOMAIN names
  BY <1>5
<1> QED BY <1>3, <1>5, <1>6, <1>7, <1>8, <1>9, <1>10

-----------------------------------------------------------------------------
(* The thread's data by its place in its loop: received data while it is   *)
(* handled, answers while they are written, nothing otherwise; mailboxes   *)
(* hold netbufs as clients send them.  Acknowledgements stay on, and no    *)
(* packet stays unsent.                                                    *)
FlowInv ==
    /\ mbox \in [Conn -> Seq(Netbufs)] /\ sent \in [Conn -> Seq(Netbufs)]
    /\ pc = "flush" <=> pending # <<>>
    /\ pc = "serve" => data # <<>>
    /\ pc \notin {"serve", "flush", "handled"} => data = <<>>
    /\ session.no_ack = FALSE
    /\ output # "COMPLETE"

ServerInv == SessionInv /\ TypeOK /\ FlowInv

(* One call of gdb_session_handle: result is what read_stream returned, k  *)
(* the items it consumed, answers what the client is owed for it, and e    *)
(* whether the command switched to extended mode.                          *)
Handles(result, k, answers, e) ==
    /\ result \in Verdicts
    /\ \E n \in ItemNames : result.text = ItemOf[n].text
    /\ k \in 1..Len(data)
    /\ result.verdict = "COLLECTING" => k = Len(data)
    /\ answers = OwedFor(result) /\ answers \in Seq(Outputs)
    /\ answers = <<>> => result.verdict = "COLLECTING"
    /\ e \in BOOLEAN /\ e => result.verdict = "OK" /\ CommandOf(result.text) = "!"
    /\ data' = SubSeq(data, k + 1, Len(data))
    /\ taken' = [taken EXCEPT ![p_conn] = @ \o SubSeq(data, 1, k)]
    /\ verdicts' = [verdicts EXCEPT ![p_conn] = Append(@, result)]
    /\ session' = [session EXCEPT !.extended = @ \/ e, !.no_ack = FALSE]
    /\ \/ pending' = answers
       \/ /\ pending' = Append(answers, Start)
          /\ result.verdict = "OK" /\ gdb_execute(result.text).halts

LEMMA HandleFacts ==
    ASSUME ServerInv, Handle
    PROVE  \E result, k, answers, e : Handles(result, k, answers, e)
<1> DEFINE read    == Stream!gdb_packet_read_stream(Items(data))
           outcome == IF read.verdict = "OK" THEN gdb_execute(read.text) ELSE Outcome(<<>>)
           result  == [verdict |-> read.verdict, text |-> read.text]
           answers == Answers(read.verdict, outcome)
           k       == read.consumed
           e       == outcome.extended
<1>1. /\ data \in Seq(ItemNames) /\ data # <<>> /\ session.no_ack = FALSE
      /\ session.extended \in BOOLEAN
  BY DEF ServerInv, TypeOK, FlowInv, Handle, At
<1>2. /\ read.verdict # "HALT"
      /\ data' = SubSeq(data, k + 1, Len(data))
      /\ taken' = [taken EXCEPT ![p_conn] = @ \o SubSeq(data, 1, k)]
      /\ verdicts' = [verdicts EXCEPT ![p_conn] = Append(@, result)]
      /\ session' = [session EXCEPT !.extended = @ \/ outcome.extended,
                                    !.no_ack   = @ \/ outcome.no_ack]
      /\ pending' = IF outcome.halts THEN Append(answers, Start) ELSE answers
  BY DEF Handle
<1>3. /\ k \in 1..Len(data)
      /\ read.verdict \in {"OK", "CHECKSUM_ERROR", "COLLECTING"}
      /\ read.verdict = "COLLECTING" => k = Len(data)
      /\ \E n \in ItemNames : read.text = ItemOf[n].text
      /\ read.text \in Seq(STRING)
  <2> HIDE DEF read
  <2>1. read = Stream!gdb_packet_read_stream(Items(data))
    BY DEF read
  <2> QED BY <1>1, <1>2, <2>1, ReadFacts
<1> HIDE DEF read
<1>4. /\ outcome.no_ack = FALSE
      /\ outcome.extended \in BOOLEAN
      /\ outcome.extended => read.verdict = "OK" /\ CommandOf(read.text) = "!"
      /\ outcome.halts => read.verdict = "OK" /\ gdb_execute(read.text).halts
  <2>1. CASE read.verdict = "OK"
    BY <1>3, <2>1, ExecuteOutcome
  <2>2. CASE read.verdict # "OK"
    BY <2>2, OutcomeFields
  <2> QED BY <2>1, <2>2
<1>5. answers = OwedFor(result) /\ answers \in Seq(Outputs)
      /\ (answers = <<>> => result.verdict = "COLLECTING")
  <2>1. Ack(ACK) = <<ACK>> /\ Ack(NACK) = <<NACK>>
    BY <1>1 DEF Ack
  <2>2. <<ACK>> \in Seq(Outputs) /\ <<NACK>> \in Seq(Outputs) /\ <<>> \in Seq(Outputs)
        /\ <<ACK>> # <<>> /\ <<NACK>> # <<>>
    BY DEF Outputs
  <2>3. CASE read.verdict = "OK"
    <3>1. answers = <<ACK>> \o gdb_execute(read.text).replies
      BY <2>1, <2>3 DEF Answers
    <3>2. OwedFor(result) = <<ACK>> \o gdb_execute(read.text).replies
      BY <2>3 DEF OwedFor
    <3>3. gdb_execute(read.text).replies \in Seq(Outputs)
      <4>1. gdb_execute(read.text).replies \in Seq(Replies)
        BY ExecuteReplies
      <4> QED BY <4>1 DEF Outputs
    <3>4. <<ACK>> \o gdb_execute(read.text).replies \in Seq(Outputs)
      BY <2>2, <3>3, ConcatProperties
    <3>5. <<ACK>> \o gdb_execute(read.text).replies # <<>>
      BY <2>2, <3>3, ConcatEqualIffEmpty
    <3> QED BY <3>1, <3>2, <3>4, <3>5
  <2>4. CASE read.verdict = "CHECKSUM_ERROR"
    <3>1. answers = <<NACK>> /\ OwedFor(result) = <<NACK>>
      BY <2>1, <2>4 DEF Answers, OwedFor
    <3> QED BY <2>2, <3>1
  <2>5. CASE read.verdict = "COLLECTING"
    <3>1. answers = <<>> /\ OwedFor(result) = <<>>
      BY <2>5 DEF Answers, OwedFor
    <3> QED BY <2>2, <2>5, <3>1
  <2> QED BY <1>3, <2>3, <2>4, <2>5
<1> HIDE DEF answers
<1>6. result \in Verdicts /\ result.verdict = read.verdict /\ result.text = read.text
  BY <1>3 DEF Verdicts
<1>7. session' = [session EXCEPT !.extended = @ \/ e, !.no_ack = FALSE]
  BY <1>1, <1>2, <1>4
<1> HIDE DEF outcome
<1>8. Handles(result, k, answers, e)
  BY <1>2, <1>3, <1>4, <1>5, <1>6, <1>7 DEF Handles
<1> QED BY <1>8

LEMMA InitFlow == Init => TypeOK /\ FlowInv
<1> SUFFICES ASSUME Init PROVE TypeOK /\ FlowInv
  OBVIOUS
<1> USE NetconnAssumption DEF Init, NetInit
<1>1. NetTypeOK
  BY DEF NetTypeOK
<1>2. session \in [state     : {"IDLE", "ACTIVE", "ABORTED"},
                   transport : {"NONE", "USB_CDC", "TCP_IP"},
                   extended  : BOOLEAN, no_ack : BOOLEAN]
      /\ session.no_ack = FALSE
  BY DEF IdleSession
<1>3. TypeOK
  BY <1>1, <1>2 DEF TypeOK, Faults
<1>4. FlowInv
  BY <1>2 DEF FlowInv
<1> QED BY <1>3, <1>4

(* A netbuf is a sequence of pbufs, with data in each.                     *)
LEMMA NetbufType ==
    /\ Seq(Netbufs) \subseteq Seq(Seq(Seq(ItemNames)))
    /\ \A netbuf \in Netbufs : /\ netbuf # <<>> /\ netbuf \in Seq(Seq(ItemNames))
                               /\ Head(netbuf) \in Seq(ItemNames) /\ Head(netbuf) # <<>>
<1>1. Netbufs \subseteq Seq(Seq(ItemNames))
  <2>1. \A netbuf \in Netbufs : netbuf \in Seq(Seq(ItemNames) \ {<<>>})
    BY NetconnAssumption
  <2>2. Seq(Seq(ItemNames) \ {<<>>}) \subseteq Seq(Seq(ItemNames))
    BY SeqMonotonic
  <2> QED BY <2>1, <2>2
<1>2. Seq(Netbufs) \subseteq Seq(Seq(Seq(ItemNames)))
  BY <1>1, SeqMonotonic
<1>3. ASSUME NEW netbuf \in Netbufs
      PROVE  netbuf # <<>> /\ Head(netbuf) \in Seq(ItemNames) \ {<<>>}
  <2> DEFINE Pbufs == Seq(ItemNames) \ {<<>>}
  <2>1. netbuf \in Seq(Pbufs) /\ netbuf # <<>>
    BY NetconnAssumption
  <2> HIDE DEF Pbufs
  <2>2. Head(netbuf) \in Pbufs
    BY <2>1, HeadTailProperties
  <2> QED BY <2>1, <2>2 DEF Pbufs
<1> QED BY <1>1, <1>2, <1>3

LEMMA ClientFlow ==
    ASSUME ServerInv, Environment
    PROVE  TypeOK' /\ FlowInv'
<1>1. UNCHANGED <<sessionVars, threadVars, history>>
  BY DEF Environment
<1> USE DEF ServerInv
<1>2. /\ NetTypeOK' /\ mbox' \in [Conn -> Seq(Netbufs)] /\ sent' \in [Conn -> Seq(Netbufs)]
  <2> USE DEF TypeOK, NetTypeOK, FlowInv
  <2>1. ASSUME NEW c \in Conn \cup {NULL}, backlog' = Append(backlog, c),
               Len(backlog) < AcceptMboxSize
        PROVE  backlog' \in Seq(Conn \cup {NULL}) /\ Len(backlog') <= AcceptMboxSize
    <3>1. Len(backlog') = Len(backlog) + 1 /\ backlog' \in Seq(Conn \cup {NULL})
      BY <2>1, AppendProperties
    <3>2. Len(backlog) \in Nat
      BY LenProperties
    <3> QED BY <2>1, <3>1, <3>2, NetconnAssumption
  <2>2. ASSUME NEW c \in Conn, Connect(c) PROVE NetTypeOK' /\ UNCHANGED <<mbox, sent>>
    BY <2>1, <2>2 DEF Connect
  <2>3. CASE ConnectFails
    BY <2>1, <2>3 DEF ConnectFails
  <2>4. ASSUME NEW c \in Conn, Fin(c) \/ Rst(c) PROVE NetTypeOK' /\ UNCHANGED <<mbox, sent>>
    BY <2>4 DEF Fin, Rst
  <2>5. ASSUME NEW c \in Conn, NEW netbuf \in Netbufs, Deliver(c, netbuf)
        PROVE  NetTypeOK' /\ mbox' \in [Conn -> Seq(Netbufs)] /\ sent' \in [Conn -> Seq(Netbufs)]
    <3>1. /\ Append(mbox[c], netbuf) \in Seq(Netbufs)
          /\ Append(sent[c], netbuf) \in Seq(Netbufs)
      BY AppendProperties
    <3>2. mbox' \in [Conn -> Seq(Netbufs)] /\ sent' \in [Conn -> Seq(Netbufs)]
      BY <2>5, <3>1 DEF Deliver
    <3> QED BY <2>5, <3>2, NetbufType DEF Deliver
  <2> QED BY <2>2, <2>3, <2>4, <2>5 DEF Environment, Clients
<1>3. TypeOK'
  BY <1>1, <1>2 DEF TypeOK, sessionVars, threadVars, history
<1>4. FlowInv'
  BY <1>1, <1>2 DEF FlowInv, sessionVars, threadVars, history
<1> QED BY <1>3, <1>4

LEMMA OtherFlow ==
    ASSUME ServerInv, OtherLocks \/ OtherReleases
    PROVE  TypeOK' /\ FlowInv'
<1> USE DEF ServerInv
<1>1. UNCHANGED <<netVars, threadVars, history>>
  BY DEF OtherLocks, OtherReleases
<1>2. /\ unlocked' \in BOOLEAN /\ output' \in {"INIT", output}
      /\ session' \in [state     : {"IDLE", "ACTIVE", "ABORTED"},
                       transport : {"NONE", "USB_CDC", "TCP_IP"},
                       extended  : BOOLEAN, no_ack : BOOLEAN]
      /\ session'.no_ack = FALSE
  <2>1. CASE OtherLocks
    BY <2>1 DEF OtherLocks, Lock, TypeOK, FlowInv
  <2>2. CASE OtherReleases
    BY <2>2 DEF OtherReleases, Release, TypeOK, FlowInv, IdleSession
  <2> QED BY <2>1, <2>2
<1>3. TypeOK'
  BY <1>1, <1>2 DEF TypeOK, NetTypeOK, netVars, threadVars, history
<1>4. FlowInv'
  BY <1>1, <1>2 DEF FlowInv, netVars, threadVars, history
<1> QED BY <1>3, <1>4

(* Accept, LockSession, Refuse, Close and ReleaseSession.                  *)
LEMMA ConnectionFlow ==
    ASSUME ServerInv, Accept \/ LockSession \/ Refuse \/ Close \/ ReleaseSession
    PROVE  TypeOK' /\ FlowInv'
<1> USE DEF ServerInv
<1>1. CASE Accept
  <2>1. /\ backlog' \in Seq(Conn \cup {NULL}) /\ Len(backlog') <= AcceptMboxSize
        /\ p_conn' \in Conn \cup {NULL}
    <3>1. /\ backlog' \in Seq(Conn \cup {NULL}) /\ Len(backlog') = Len(backlog) - 1
          /\ p_conn' \in Conn \cup {NULL}
      BY <1>1, HeadTailProperties DEF Accept, TypeOK, NetTypeOK
    <3>2. Len(backlog) \in Nat /\ Len(backlog) <= AcceptMboxSize
      BY LenProperties DEF TypeOK, NetTypeOK
    <3> QED BY <3>1, <3>2, NetconnAssumption
  <2>2. NetTypeOK'
    BY <1>1, <2>1 DEF Accept, TypeOK, NetTypeOK
  <2>3. TypeOK'
    BY <1>1, <2>1, <2>2 DEF Accept, TypeOK, sessionVars, history
  <2>4. FlowInv'
    BY <1>1 DEF Accept, At, FlowInv, sessionVars, history
  <2> QED BY <2>3, <2>4
<1>2. CASE LockSession
  <2>1. /\ session' \in [state     : {"IDLE", "ACTIVE", "ABORTED"},
                         transport : {"NONE", "USB_CDC", "TCP_IP"},
                         extended  : BOOLEAN, no_ack : BOOLEAN]
        /\ session'.no_ack = FALSE
    BY <1>2 DEF LockSession, Lock, TypeOK, FlowInv
  <2>2. p_conn \in Conn /\ pc = "lock"
    BY <1>2 DEF LockSession, At, SessionInv, OwnerInv
  <2>3. TypeOK'
    BY <1>2, <2>1, <2>2 DEF LockSession, Lock, TypeOK, NetTypeOK, InServe, netVars
  <2>4. FlowInv'
    BY <1>2, <2>1, <2>2 DEF LockSession, Lock, FlowInv, netVars
  <2> QED BY <2>3, <2>4
<1>3. CASE Refuse \/ Close
  <2>1. p_conn \in Conn /\ pc \in {"lock", "close"}
    BY <1>3 DEF Refuse, Close, At, SessionInv, OwnerInv, InServe
  <2>2. /\ deleted' \subseteq Conn /\ mbox' = [mbox EXCEPT ![p_conn] = <<>>]
        /\ UNCHANGED <<peer, sent, backlog>>
    BY <1>3, <2>1 DEF Refuse, Close, DeleteConn, TypeOK, NetTypeOK
  <2>3. mbox' \in [Conn -> Seq(Netbufs)] /\ sent' \in [Conn -> Seq(Netbufs)]
    BY <2>2, EmptySeq DEF FlowInv
  <2>4. NetTypeOK'
    BY <2>2, <2>3, NetbufType DEF TypeOK, NetTypeOK
  <2>5. TypeOK'
    BY <1>3, <2>4 DEF Refuse, Close, TypeOK, sessionVars, history
  <2>6. FlowInv'
    BY <1>3, <2>1, <2>3 DEF Refuse, Close, FlowInv, sessionVars, history
  <2> QED BY <2>5, <2>6
<1>4. CASE ReleaseSession
  <2>1. /\ session' = IdleSession /\ unlocked' = TRUE /\ output' = output
        /\ pc = "release" /\ pc' = "accept" /\ p_conn' = NULL
        /\ UNCHANGED <<netVars, err, data, pending, fault, history>>
    BY <1>4 DEF ReleaseSession, Release, At
  <2>2. /\ session' \in [state     : {"IDLE", "ACTIVE", "ABORTED"},
                         transport : {"NONE", "USB_CDC", "TCP_IP"},
                         extended  : BOOLEAN, no_ack : BOOLEAN]
        /\ session'.no_ack = FALSE
    BY <2>1 DEF IdleSession
  <2>3. TypeOK'
    BY <2>1, <2>2 DEF TypeOK, NetTypeOK, netVars, history
  <2>4. FlowInv'
    BY <2>1, <2>2 DEF FlowInv, netVars, history
  <2> QED BY <2>3, <2>4
<1> QED BY <1>1, <1>2, <1>3, <1>4

LEMMA RecvFlow ==
    ASSUME ServerInv, Recv \/ RecvEnds
    PROVE  TypeOK' /\ FlowInv'
<1> USE DEF ServerInv
<1>1. CASE Recv
  <2>1. /\ pc = "recv" /\ p_conn \in Conn /\ mbox[p_conn] # <<>>
        /\ mbox[p_conn] \in Seq(Netbufs)
        /\ mbox' = [mbox EXCEPT ![p_conn] = Tail(@)]
        /\ data' = Head(Head(mbox[p_conn])) /\ pc' = "serve"
        /\ UNCHANGED <<peer, backlog, sent, deleted, p_conn, err, pending, fault,
                       sessionVars, history>>
    BY <1>1 DEF Recv, netbuf_data, At, HasData, SessionInv, OwnerInv, InServe, FlowInv
  <2>2. Head(mbox[p_conn]) \in Netbufs /\ Tail(mbox[p_conn]) \in Seq(Netbufs)
    BY <2>1, HeadTailProperties
  <2>3. data' \in Seq(ItemNames) /\ data' # <<>>
    BY <2>1, <2>2, NetbufType
  <2>4. mbox' \in [Conn -> Seq(Netbufs)]
    BY <2>1, <2>2 DEF FlowInv
  <2>5. NetTypeOK'
    BY <2>1, <2>4, NetbufType DEF TypeOK, NetTypeOK
  <2>6. TypeOK'
    BY <2>1, <2>3, <2>5 DEF TypeOK, sessionVars, history, InServe
  <2>7. FlowInv'
    BY <2>1, <2>3, <2>4 DEF FlowInv, sessionVars, history
  <2> QED BY <2>6, <2>7
<1>2. CASE RecvEnds
  <2>1. TypeOK'
    BY <1>2 DEF RecvEnds, TypeOK, NetTypeOK, InServe, netVars, sessionVars, history
  <2>2. FlowInv'
    BY <1>2 DEF RecvEnds, At, FlowInv, netVars, sessionVars, history
  <2> QED BY <2>1, <2>2
<1> QED BY <1>1, <1>2

LEMMA HandleFlow ==
    ASSUME ServerInv, Handle
    PROVE  TypeOK' /\ FlowInv'
<1> USE DEF ServerInv
<1>1. PICK result, k, answers, e : Handles(result, k, answers, e)
  BY HandleFacts
<1>2. /\ pc = "serve" /\ p_conn \in Conn
      /\ pc' = IF pending' = <<>> THEN "handled" ELSE "flush"
      /\ UNCHANGED <<netVars, p_conn, err, fault, unlocked, output, tx, served>>
  BY DEF Handle, At, SessionInv, OwnerInv, InServe
<1>3. /\ data' \in Seq(ItemNames) /\ SubSeq(data, 1, k) \in Seq(ItemNames)
  BY <1>1, CutInTwo DEF Handles, TypeOK
<1>4. taken' \in [Conn -> Seq(ItemNames)]
  <2>1. taken[p_conn] \o SubSeq(data, 1, k) \in Seq(ItemNames)
    BY <1>2, <1>3, ConcatProperties DEF TypeOK
  <2> QED BY <1>1, <1>2, <2>1 DEF Handles, TypeOK
<1>5. verdicts' \in [Conn -> Seq(Verdicts)]
  <2>1. Append(verdicts[p_conn], result) \in Seq(Verdicts)
    BY <1>1, <1>2, AppendProperties DEF Handles, TypeOK
  <2> QED BY <1>1, <1>2, <2>1 DEF Handles, TypeOK
<1>6. pending' \in Seq(Outputs \cup {Start})
  <2>1. answers \in Seq(Outputs \cup {Start})
    BY <1>1, SeqMonotonic DEF Handles
  <2>2. Append(answers, Start) \in Seq(Outputs \cup {Start})
    BY <2>1, AppendProperties
  <2> QED BY <1>1, <2>1, <2>2 DEF Handles
<1>7. /\ session' \in [state     : {"IDLE", "ACTIVE", "ABORTED"},
                       transport : {"NONE", "USB_CDC", "TCP_IP"},
                       extended  : BOOLEAN, no_ack : BOOLEAN]
      /\ session'.no_ack = FALSE
  BY <1>1 DEF Handles, TypeOK
<1>8. TypeOK'
  BY <1>2, <1>3, <1>4, <1>5, <1>6, <1>7 DEF TypeOK, NetTypeOK, InServe, netVars
<1>9. FlowInv'
  BY <1>2, <1>7 DEF FlowInv, netVars
<1> QED BY <1>8, <1>9

LEMMA FlushFlow ==
    ASSUME ServerInv, Flush \/ FlushFails
    PROVE  TypeOK' /\ FlowInv'
<1> USE DEF ServerInv
<1>1. /\ pc = "flush" /\ p_conn \in Conn /\ pending # <<>> /\ Head(pending) # Start
      /\ pending' = Tail(pending)
      /\ pc' = IF Tail(pending) = <<>> THEN "handled" ELSE "flush"
      /\ UNCHANGED <<netVars, p_conn, data, fault, unlocked, taken, verdicts, served>>
  BY DEF Flush, FlushFails, NextFlush, At, SessionInv, OwnerInv, InServe, FlowInv
<1>2. /\ Tail(pending) \in Seq(Outputs \cup {Start}) /\ Head(pending) \in Outputs
  BY <1>1, HeadTailProperties DEF TypeOK
<1>3. tx' \in [Conn -> Seq(Outputs)]
  <2>1. Append(tx[p_conn], Head(pending)) \in Seq(Outputs)
    BY <1>1, <1>2, AppendProperties DEF TypeOK
  <2> QED BY <1>1, <2>1 DEF Flush, FlushFails, TypeOK
<1>4. /\ session' \in [state     : {"IDLE", "ACTIVE", "ABORTED"},
                       transport : {"NONE", "USB_CDC", "TCP_IP"},
                       extended  : BOOLEAN, no_ack : BOOLEAN]
      /\ session'.no_ack = FALSE
      /\ output' = "SENT" /\ err' \in {"OK", "ERR"}
  BY DEF Flush, FlushFails, Flushed, TypeOK, FlowInv
<1>5. TypeOK'
  BY <1>1, <1>2, <1>3, <1>4 DEF TypeOK, NetTypeOK, InServe, netVars
<1>6. FlowInv'
  BY <1>1, <1>4 DEF FlowInv, netVars
<1> QED BY <1>5, <1>6

LEMMA StillFlow ==
    ASSUME ServerInv, HandleAsserts \/ FlushAsserts \/ Handled \/ UNCHANGED vars
    PROVE  TypeOK' /\ FlowInv'
<1> USE DEF ServerInv
<1>1. CASE HandleAsserts \/ FlushAsserts
  <2>1. /\ UNCHANGED <<netVars, pc, p_conn, err, data, pending, sessionVars, history>>
        /\ fault' \in Faults
    BY <1>1 DEF HandleAsserts, FlushAsserts, Faults
  <2>2. TypeOK'
    BY <2>1 DEF TypeOK, NetTypeOK, netVars, sessionVars, history
  <2>3. FlowInv'
    BY <2>1 DEF FlowInv, netVars, sessionVars, history
  <2> QED BY <2>2, <2>3
<1>2. CASE Handled
  <2>1. /\ UNCHANGED <<netVars, p_conn, err, pending, fault, sessionVars, history>>
        /\ pc = "handled" /\ pc' \in {"recv", "serve", "close"}
        /\ data' \in {<<>>, data}
        /\ pc' = "serve" => data' # <<>>
        /\ pc' # "serve" => data' = <<>>
    BY <1>2 DEF Handled, At
  <2>2. TypeOK'
    <3>1. data \in Seq(ItemNames) /\ <<>> \in Seq(ItemNames)
      BY DEF TypeOK
    <3>2. data' \in Seq(ItemNames)
      BY <2>1, <3>1
    <3> QED BY <2>1, <3>2 DEF TypeOK, NetTypeOK, InServe, netVars, sessionVars, history
  <2>3. FlowInv'
    BY <2>1 DEF FlowInv, netVars, sessionVars, history
  <2> QED BY <2>2, <2>3
<1>3. CASE UNCHANGED vars
  <2>1. TypeOK'
    BY <1>3 DEF TypeOK, NetTypeOK, vars, netVars, sessionVars, threadVars, history
  <2>2. FlowInv'
    BY <1>3 DEF FlowInv, vars, netVars, sessionVars, threadVars, history
  <2> QED BY <2>1, <2>2
<1> QED BY <1>1, <1>2, <1>3

LEMMA ServerStep == ServerInv /\ [Next]_vars => ServerInv'
<1> SUFFICES ASSUME ServerInv, [Next]_vars PROVE ServerInv'
  OBVIOUS
<1>1. SessionInv'
  BY SessionStep DEF ServerInv
<1>2. TypeOK' /\ FlowInv'
  BY ClientFlow, OtherFlow, ConnectionFlow, RecvFlow, HandleFlow, FlushFlow, StillFlow
     DEF Next, Server
<1> QED BY <1>1, <1>2 DEF ServerInv

LEMMA ServerInvariant == Spec => []ServerInv
<1>1. Init => ServerInv
  BY InitSession, InitFlow DEF ServerInv
<1> QED BY <1>1, ServerStep, PTL DEF Spec

(* TypeOK.                                                                 *)
THEOREM TypeOKAlways == Spec => []TypeOK
<1>1. ServerInv => TypeOK
  BY DEF ServerInv
<1> QED BY <1>1, ServerInvariant, PTL

-----------------------------------------------------------------------------
(* A session that a failed write aborted is handled again only while that  *)
(* write's error is still there, and where an assertion stopped the thread *)
(* it stays.                                                               *)
AbortInv ==
    /\ session.state = "ABORTED" /\ pc \in {"recv", "serve"} => err = "ERR"
    /\ fault = Inactive => pc = "serve" /\ session.state = "ABORTED"
    /\ fault # NotSent

LEMMA FaultNames ==
    /\ Inactive # NotSent /\ BadDigit # NotSent /\ Start # NotSent /\ NoFault # NotSent
    /\ BadDigit # Inactive /\ Start # Inactive /\ NoFault # Inactive
    /\ NoFault # BadDigit /\ NoFault # Start /\ BadDigit # Start
BY DEF Inactive, NotSent, BadDigit, Start, NoFault

LEMMA AbortStep ==
    ASSUME ServerInv, AbortInv, [Next]_vars
    PROVE  AbortInv'
<1> USE FaultNames DEF AbortInv
<1>1. CASE Environment \/ UNCHANGED vars
  BY <1>1 DEF Environment, vars, sessionVars, threadVars, history
<1>2. CASE OtherLocks
  <2>1. fault = NoFault /\ fault' = NoFault /\ session'.state = "ACTIVE"
    BY <1>2 DEF OtherLocks, Lock, threadVars, ServerInv, TypeOK
  <2> QED BY <2>1
<1>3. CASE OtherReleases
  <2>1. fault = NoFault /\ fault' = NoFault /\ session'.state = "IDLE"
    BY <1>3 DEF OtherReleases, Release, IdleSession, threadVars, ServerInv, TypeOK
  <2> QED BY <2>1
<1>4. CASE Accept \/ Refuse \/ Close
  BY <1>4 DEF Accept, Refuse, Close, At, sessionVars, history
<1>5. CASE LockSession
  <2>1. fault = NoFault /\ fault' = NoFault /\ session'.state = "ACTIVE"
    BY <1>5 DEF LockSession, Lock, At, ServerInv, TypeOK
  <2> QED BY <2>1
<1>6. CASE ReleaseSession
  BY <1>6 DEF ReleaseSession, Release, At, IdleSession
<1>7. CASE Recv \/ RecvEnds
  BY <1>7 DEF Recv, RecvEnds, At, sessionVars, history
<1>8. CASE Handle
  <2>1. fault = NoFault /\ fault' = NoFault /\ pc' \in {"handled", "flush"}
    BY <1>8 DEF Handle, At
  <2> QED BY <2>1
<1>9. CASE HandleAsserts
  <2>1. /\ pc = "serve" /\ UNCHANGED <<pc, err, session>>
        /\ \/ session.state # "ACTIVE" /\ fault' = Inactive
           \/ fault' = BadDigit
    BY <1>9 DEF HandleAsserts, At, sessionVars
  <2>2. session.state # "IDLE"
    BY <2>1 DEF ServerInv, SessionInv, SessionExclusive, InServe
  <2>3. session.state \in {"IDLE", "ACTIVE", "ABORTED"}
    BY DEF ServerInv, TypeOK
  <2> QED BY <2>1, <2>2, <2>3
<1>10. CASE Flush \/ FlushFails
  <2>1. fault = NoFault /\ fault' = NoFault /\ pc' \in {"handled", "flush"}
    BY <1>10 DEF Flush, FlushFails, NextFlush, At
  <2> QED BY <2>1
<1>11. CASE FlushAsserts
  <2>1. fault' = Start /\ UNCHANGED <<pc, err, session>>
    BY <1>11 DEF FlushAsserts, MayWrite, sessionVars, ServerInv, FlowInv
  <2> QED BY <2>1
<1>12. CASE Handled
  <2>1. /\ UNCHANGED <<fault, session, err>> /\ fault = NoFault
        /\ pc' \in {"recv", "serve"} => err # "OK" \/ session.state # "ABORTED"
    BY <1>12 DEF Handled, At, sessionVars
  <2>2. err \in {"OK", "ERR"}
    BY DEF ServerInv, TypeOK
  <2> QED BY <2>1, <2>2
<1> QED BY <1>1, <1>2, <1>3, <1>4, <1>5, <1>6, <1>7, <1>8, <1>9, <1>10, <1>11, <1>12
        DEF Next, Server

(* The sentinel of a failing assertion waits behind the answers only while *)
(* the command it is of is the last one; what stopped the thread is there. *)
CauseInv ==
    /\ pending \in Seq(Outputs) \/ HaltingLast
    /\ fault = BadDigit => \E i \in DOMAIN data : ItemOf[data[i]].ref = Stream!BadDigits
    /\ fault = Start => HaltingLast

LEMMA StartIsNoOutput == Start \notin Outputs
BY DEF Start, Outputs, Replies, ACK, NACK

LEMMA CauseStep ==
    ASSUME ServerInv, CauseInv, [Next]_vars
    PROVE  CauseInv'
<1> USE FaultNames DEF CauseInv
<1>1. CASE Environment \/ OtherLocks \/ OtherReleases \/ UNCHANGED vars
  <2>1. UNCHANGED <<pending, fault, data, p_conn, verdicts>>
    BY <1>1 DEF Environment, OtherLocks, OtherReleases, vars, threadVars, history
  <2> QED BY <2>1 DEF HaltingLast
<1>2. CASE Accept \/ LockSession \/ Refuse \/ Recv \/ RecvEnds \/ Handled \/ Close \/ ReleaseSession
  <2>1. pending = <<>> /\ pending' = pending /\ fault = NoFault /\ fault' = fault
    BY <1>2 DEF Accept, LockSession, Refuse, Recv, RecvEnds, Handled, Close, ReleaseSession, At,
                ServerInv, FlowInv
  <2>2. pending' \in Seq(Outputs)
    BY <2>1, EmptySeq
  <2> QED BY <2>1, <2>2
<1>3. CASE Handle
  <2>1. PICK result, k, answers, e : Handles(result, k, answers, e)
    BY <1>3, HandleFacts
  <2>2. fault' = NoFault /\ p_conn' = p_conn /\ p_conn \in Conn
    BY <1>3 DEF Handle, At, ServerInv, SessionInv, OwnerInv, InServe
  <2>3. CASE pending' = answers
    BY <2>1, <2>2, <2>3 DEF Handles
  <2>4. CASE result.verdict = "OK" /\ gdb_execute(result.text).halts
    <3> DEFINE log == verdicts[p_conn]
    <3>1. log \in Seq(Verdicts) /\ result \in Verdicts
          /\ verdicts'[p_conn'] = Append(log, result)
      BY <2>1, <2>2 DEF Handles, ServerInv, TypeOK
    <3> HIDE DEF log
    <3>2. /\ Append(log, result) # <<>>
          /\ Append(log, result)[Len(Append(log, result))] = result
      BY <3>1, AppendProperties
    <3>3. HaltingLast'
      BY <2>4, <3>1, <3>2 DEF HaltingLast
    <3> QED BY <2>2, <3>3
  <2> QED BY <2>1, <2>3, <2>4 DEF Handles
<1>4. CASE HandleAsserts
  <2>1. /\ pc = "serve" /\ data \in Seq(ItemNames) /\ data # <<>>
        /\ UNCHANGED <<pending, data, p_conn, verdicts>>
    BY <1>4 DEF HandleAsserts, At, ServerInv, TypeOK, FlowInv, history
  <2> DEFINE read == Stream!gdb_packet_read_stream(Items(data))
  <2>2. fault' = Inactive \/ (fault' = BadDigit /\ read.verdict = "HALT")
    BY <1>4 DEF HandleAsserts
  <2>3. read = Stream!gdb_packet_read_stream(Items(data))
    OBVIOUS
  <2> HIDE DEF read
  <2>4. read.verdict = "HALT" => \E i \in DOMAIN data : ItemOf[data[i]].ref = Stream!BadDigits
    BY <2>1, <2>3, ReadFacts
  <2>5. fault' = BadDigit => \E i \in DOMAIN data' : ItemOf[data'[i]].ref = Stream!BadDigits
    BY <2>1, <2>2, <2>4
  <2>6. pending' = pending /\ fault' # Start /\ fault' # NoFault
    BY <2>1, <2>2
  <2>7. HaltingLast' = HaltingLast
    BY <2>1 DEF HaltingLast
  <2> QED BY <2>5, <2>6, <2>7
<1>5. CASE Flush \/ FlushFails
  <2>1. /\ pc = "flush" /\ pending # <<>> /\ fault' = NoFault
        /\ pending' = Tail(pending) /\ UNCHANGED <<p_conn, verdicts>>
    BY <1>5 DEF Flush, FlushFails, NextFlush, At, ServerInv, FlowInv
  <2>2. pending \in Seq(Outputs) => Tail(pending) \in Seq(Outputs)
    BY <2>1, HeadTailProperties
  <2> QED BY <2>1, <2>2 DEF HaltingLast
<1>6. CASE FlushAsserts
  <2>1. /\ pending # <<>> /\ Head(pending) = Start /\ fault' = Start
        /\ UNCHANGED <<pending, data, p_conn, verdicts>>
    BY <1>6 DEF FlushAsserts, MayWrite, At, ServerInv, FlowInv, history
  <2>2. pending \notin Seq(Outputs)
    BY <2>1, StartIsNoOutput, HeadTailProperties
  <2>3. HaltingLast
    BY <2>1, <2>2
  <2>4. HaltingLast'
    BY <2>1, <2>3 DEF HaltingLast
  <2>5. fault' # BadDigit
    BY <2>1
  <2> QED BY <2>4, <2>5
<1> QED BY <1>1, <1>2, <1>3, <1>4, <1>5, <1>6 DEF Next, Server

(* AssertionsExplained: no interleaving of clients, failing writes and a   *)
(* second transport leaves a packet that the next reply would trip over;   *)
(* "Session inactive." takes an aborted session whose error is the last    *)
(* one, and the other two assertions what the client itself sent.          *)
THEOREM AssertionsExplainedAlways == Spec => []AssertionsExplained
<1>1. Init => AbortInv /\ CauseInv
  <2>1. <<>> \in Seq(Outputs)
    BY EmptySeq
  <2> QED BY <2>1, FaultNames DEF Init, AbortInv, CauseInv, IdleSession
<1>2. AbortInv /\ CauseInv => AssertionsExplained
  BY DEF AbortInv, CauseInv, AssertionsExplained
<1> QED BY <1>1, <1>2, AbortStep, CauseStep, ServerInvariant, PTL DEF Spec

-----------------------------------------------------------------------------
(* Extended mode is a mode of the TCP session, and its client asked for it.*)
PropertiesInv ==
    session.extended =>
        /\ session.transport = "TCP_IP"
        /\ \E i \in DOMAIN verdicts[p_conn] :
              /\ verdicts[p_conn][i].verdict = "OK"
              /\ CommandOf(verdicts[p_conn][i].text) = "!"

LEMMA PropertiesStep ==
    ASSUME ServerInv, PropertiesInv, [Next]_vars
    PROVE  PropertiesInv'
<1> USE DEF PropertiesInv
<1>1. UNCHANGED <<session, p_conn, verdicts>> => PropertiesInv'
  OBVIOUS
<1>2. CASE Environment \/ UNCHANGED vars
  BY <1>1, <1>2 DEF Environment, vars, sessionVars, threadVars, history
<1>3. CASE OtherLocks \/ LockSession
  <2>1. unlocked /\ session'.extended = session.extended
    BY <1>3 DEF OtherLocks, LockSession, Lock, ServerInv, TypeOK
  <2>2. session.transport # "TCP_IP"
    BY <2>1 DEF ServerInv, SessionInv, SessionExclusive
  <2> QED BY <2>1, <2>2
<1>4. CASE OtherReleases \/ ReleaseSession
  <2>1. session'.extended = FALSE
    BY <1>4 DEF OtherReleases, ReleaseSession, Release, IdleSession
  <2> QED BY <2>1
<1>5. CASE Accept \/ Refuse
  <2>1. session' = session /\ pc \in {"accept", "lock"}
    BY <1>5 DEF Accept, Refuse, At, sessionVars
  <2>2. session.transport # "TCP_IP"
    BY <2>1 DEF ServerInv, SessionInv, SessionExclusive, InServe
  <2> QED BY <2>1, <2>2
<1>6. CASE Close \/ Recv \/ RecvEnds \/ HandleAsserts \/ FlushAsserts \/ Handled
  BY <1>1, <1>6 DEF Close, Recv, RecvEnds, HandleAsserts, FlushAsserts, Handled,
                    sessionVars, history
<1>7. CASE Handle
  <2>1. PICK result, k, answers, e : Handles(result, k, answers, e)
    BY <1>7, HandleFacts
  <2>2. /\ p_conn' = p_conn /\ p_conn \in Conn /\ pc \in InServe
        /\ session'.extended = (session.extended \/ e)
        /\ session'.transport = session.transport
        /\ verdicts'[p_conn] = Append(verdicts[p_conn], result)
    BY <1>7, <2>1 DEF Handle, Handles, At, ServerInv, SessionInv, OwnerInv, InServe, TypeOK
  <2>3. session.transport = "TCP_IP"
    BY <2>2 DEF ServerInv, SessionInv, SessionExclusive
  <2> DEFINE log == verdicts[p_conn]
  <2>4. log \in Seq(Verdicts) /\ result \in Verdicts
    BY <2>1, <2>2 DEF Handles, ServerInv, TypeOK
  <2> HIDE DEF log
  <2>5. /\ DOMAIN log \subseteq DOMAIN Append(log, result)
        /\ \A i \in DOMAIN log : Append(log, result)[i] = log[i]
        /\ Len(log) + 1 \in DOMAIN Append(log, result)
        /\ Append(log, result)[Len(log) + 1] = result
    <3>1. /\ Append(log, result) \in Seq(Verdicts)
          /\ Len(Append(log, result)) = Len(log) + 1 /\ Len(log) \in Nat
          /\ \A i \in 1..Len(log) : Append(log, result)[i] = log[i]
          /\ Append(log, result)[Len(log) + 1] = result
      BY <2>4, AppendProperties, LenProperties
    <3>2. DOMAIN log = 1..Len(log) /\ DOMAIN Append(log, result) = 1..(Len(log) + 1)
      BY <2>4, <3>1, LenProperties
    <3> QED BY <3>1, <3>2
  <2>6. CASE e
    <3>1. result.verdict = "OK" /\ CommandOf(result.text) = "!"
      BY <2>1, <2>6 DEF Handles
    <3>2. \E i \in DOMAIN Append(log, result) :
              /\ Append(log, result)[i].verdict = "OK"
              /\ CommandOf(Append(log, result)[i].text) = "!"
      <4> WITNESS Len(log) + 1 \in DOMAIN Append(log, result)
      <4> QED BY <2>5, <3>1, Zenon
    <3> QED BY <2>2, <2>3, <3>2 DEF log
  <2>7. CASE ~e /\ session.extended
    <3>1. PICK i \in DOMAIN log : log[i].verdict = "OK" /\ CommandOf(log[i].text) = "!"
      BY <2>7 DEF log
    <3>2. i \in DOMAIN Append(log, result) /\ Append(log, result)[i] = log[i]
      BY <2>5, Zenon
    <3> QED BY <2>2, <2>3, <3>1, <3>2, Zenon DEF log
  <2>8. CASE ~e /\ ~session.extended
    BY <2>2, <2>8
  <2> QED BY <2>6, <2>7, <2>8
<1>8. CASE Flush \/ FlushFails
  <2>1. /\ session'.extended = session.extended /\ session'.transport = session.transport
        /\ UNCHANGED <<p_conn, verdicts>>
    BY <1>8 DEF Flush, FlushFails, Flushed, NextFlush, ServerInv, TypeOK
  <2> QED BY <2>1
<1> QED BY <1>2, <1>3, <1>4, <1>5, <1>6, <1>7, <1>8 DEF Next, Server

(* FreshSession: however many sessions came before, on whatever transport, *)
(* a session is in extended-remote mode only if its own client asked.      *)
THEOREM FreshSessionAlways == Spec => []FreshSession
<1>1. Init => PropertiesInv
  BY DEF Init, PropertiesInv, IdleSession
<1>2. ServerInv /\ PropertiesInv => FreshSession
  <2> SUFFICES ASSUME ServerInv, PropertiesInv, session.extended PROVE FreshSession
    BY DEF FreshSession
  <2>1. pc \in InServe \cup {"release"} /\ p_conn \in Conn
    BY DEF ServerInv, SessionInv, SessionExclusive, OwnerInv, PropertiesInv
  <2> QED BY <2>1 DEF PropertiesInv, FreshSession
<1> QED BY <1>1, <1>2, PropertiesStep, ServerInvariant, PTL DEF Spec

-----------------------------------------------------------------------------
(* Legal traffic over a transport that works: no checksum digit that the   *)
(* reader rejects, no command that stops the system, no failing write and  *)
(* no reset.                                                               *)
LegalTraffic ==
    /\ ~WriteMayFail /\ ~PeerMayReset
    /\ \A n \in ItemNames : /\ ItemOf[n].ref # Stream!BadDigits
                            /\ ~gdb_execute(ItemOf[n].text).halts

CalmInv ==
    /\ fault = NoFault
    /\ session.state # "ABORTED"
    /\ \A c \in Conn : peer[c] # "rst"
    /\ pending \in Seq(Outputs)

LEMMA CalmStep ==
    ASSUME LegalTraffic, ServerInv, CalmInv, [Next]_vars
    PROVE  CalmInv'
<1> USE DEF CalmInv
<1>1. CASE Environment \/ UNCHANGED vars
  <2>1. UNCHANGED <<fault, session, pending>>
    BY <1>1 DEF Environment, vars, sessionVars, threadVars
  <2>2. peer' = peer \/ \E c \in Conn : peer' = [peer EXCEPT ![c] = "up"]
                                     \/ peer' = [peer EXCEPT ![c] = "fin"]
    BY <1>1 DEF Environment, Clients, ConnectFails, Connect, Fin, Rst, Deliver,
                LegalTraffic, vars, netVars
  <2>3. \A c \in Conn : peer'[c] # "rst"
    BY <2>2 DEF ServerInv, SessionInv, BacklogInv
  <2> QED BY <2>1, <2>3
<1>2. CASE OtherLocks \/ LockSession
  BY <1>2 DEF OtherLocks, LockSession, Lock, netVars, threadVars, ServerInv, TypeOK
<1>3. CASE OtherReleases \/ ReleaseSession
  BY <1>3 DEF OtherReleases, ReleaseSession, Release, IdleSession, netVars, threadVars
<1>4. CASE Accept \/ Refuse \/ Close \/ Recv \/ RecvEnds \/ Handled
  BY <1>4 DEF Accept, Refuse, Close, DeleteConn, Recv, RecvEnds, Handled, netVars, sessionVars
<1>5. CASE Handle
  <2>1. PICK result, k, answers, e : Handles(result, k, answers, e)
    BY <1>5, HandleFacts
  <2>2. pending' = answers
    BY <2>1 DEF Handles, LegalTraffic
  <2>3. pending' \in Seq(Outputs) /\ session'.state = session.state
    BY <2>1, <2>2 DEF Handles, ServerInv, TypeOK
  <2>4. UNCHANGED <<fault, peer>>
    BY <1>5 DEF Handle, netVars
  <2> QED BY <2>3, <2>4
<1>6. CASE HandleAsserts
  <2>1. pc = "serve" /\ data \in Seq(ItemNames) /\ data # <<>>
    BY <1>6 DEF HandleAsserts, At, ServerInv, TypeOK, FlowInv
  <2>2. session.state = "ACTIVE"
    BY <2>1 DEF ServerInv, SessionInv, SessionExclusive, TypeOK, InServe
  <2>3. Stream!gdb_packet_read_stream(Items(data)).verdict # "HALT"
    <3> DEFINE read == Stream!gdb_packet_read_stream(Items(data))
    <3>1. read = Stream!gdb_packet_read_stream(Items(data))
      OBVIOUS
    <3> HIDE DEF read
    <3>2. read.verdict # "HALT"
      BY <2>1, <3>1, ReadFacts DEF LegalTraffic
    <3> QED BY <3>2 DEF read
  <2> QED BY <1>6, <2>2, <2>3 DEF HandleAsserts
<1>7. CASE Flush \/ FlushFails
  <2>1. /\ pc = "flush" /\ p_conn \in Conn /\ pending # <<>>
        /\ pending' = Tail(pending) /\ UNCHANGED <<peer, fault>>
    BY <1>7 DEF Flush, FlushFails, NextFlush, At, ServerInv, SessionInv, OwnerInv,
                InServe, FlowInv, netVars
  <2>2. Flush
    BY <1>7, <2>1 DEF FlushFails, LegalTraffic
  <2>3. session' = session
    BY <2>2 DEF Flush, Flushed
  <2>4. Tail(pending) \in Seq(Outputs)
    BY <2>1, HeadTailProperties
  <2> QED BY <2>1, <2>3, <2>4
<1>8. CASE FlushAsserts
  <2>1. pending # <<>>
    BY <1>8 DEF FlushAsserts, At, ServerInv, FlowInv
  <2>2. Head(pending) \in Outputs
    BY <2>1, HeadTailProperties
  <2>3. Head(pending) # Start /\ MayWrite(Head(pending))
    BY <2>2, StartIsNoOutput DEF MayWrite, ServerInv, FlowInv
  <2> QED BY <1>8, <2>3 DEF FlushAsserts
<1> QED BY <1>1, <1>2, <1>3, <1>4, <1>5, <1>6, <1>7, <1>8 DEF Next, Server

(* With legal traffic and a working transport no assertion of the session, *)
(* the reader or the writer fails, whoever else competes for the session.  *)
THEOREM NoAssertionFailsWhenLegal == LegalTraffic => (Spec => [](fault = NoFault))
<1> SUFFICES ASSUME LegalTraffic PROVE Spec => [](fault = NoFault)
  OBVIOUS
<1>1. Init => CalmInv
  BY DEF Init, NetInit, CalmInv, IdleSession
<1>2. CalmInv => fault = NoFault
  BY DEF CalmInv
<1>3. ServerInv /\ CalmInv /\ [Next]_vars => CalmInv'
  BY CalmStep
<1> QED BY <1>1, <1>2, <1>3, ServerInvariant, PTL DEF Spec

-----------------------------------------------------------------------------
(* A connection has no history before it gets the session, and gets it at  *)
(* most once.                                                              *)
HistoryInv ==
    /\ \A c \in served : peer[c] # "none" /\ \A i \in 1..Len(backlog) : backlog[i] # c
    /\ pc = "lock" => p_conn \notin served
    /\ \A c \in Conn \ served :
          /\ tx[c] = <<>> /\ taken[c] = <<>> /\ verdicts[c] = <<>>
          /\ c \notin deleted => mbox[c] = sent[c]

LEMMA HistoryClients ==
    ASSUME ServerInv, HistoryInv, Environment
    PROVE  HistoryInv'
<1> USE DEF HistoryInv
<1>1. UNCHANGED <<pc, p_conn, served, tx, taken, verdicts>>
  BY DEF Environment, threadVars, history
<1>2. ASSUME NEW c \in Conn, Connect(c) PROVE HistoryInv'
  <2>1. /\ peer[c] = "none" /\ peer' = [peer EXCEPT ![c] = "up"]
        /\ backlog' = Append(backlog, c) /\ backlog \in Seq(Conn \cup {NULL})
        /\ UNCHANGED <<mbox, sent, deleted>>
    BY <1>2 DEF Connect, ServerInv, TypeOK, NetTypeOK
  <2>2. /\ Len(backlog') = Len(backlog) + 1 /\ Len(backlog) \in Nat
        /\ \A i \in 1..Len(backlog) : backlog'[i] = backlog[i]
        /\ backlog'[Len(backlog) + 1] = c
    BY <2>1, AppendProperties, LenProperties
  <2>3. c \notin served
    BY <2>1
  <2>4. \A d \in served : peer'[d] # "none" /\ \A i \in 1..Len(backlog') : backlog'[i] # d
    <3> TAKE d \in served
    <3>1. d \in Conn /\ d # c
      BY <2>3 DEF ServerInv, TypeOK
    <3>2. peer'[d] # "none"
      BY <2>1, <3>1 DEF ServerInv, TypeOK, NetTypeOK
    <3>3. \A i \in 1..Len(backlog') : backlog'[i] # d
      <4> TAKE i \in 1..Len(backlog')
      <4>1. i \in 1..Len(backlog) \/ i = Len(backlog) + 1
        BY <2>2
      <4> QED BY <2>2, <3>1, <4>1
    <3> QED BY <3>2, <3>3
  <2> QED BY <1>1, <2>1, <2>4
<1>3. CASE ConnectFails
  <2>1. /\ backlog' = Append(backlog, NULL) /\ backlog \in Seq(Conn \cup {NULL})
        /\ UNCHANGED <<peer, mbox, sent, deleted>>
    BY <1>3 DEF ConnectFails, ServerInv, TypeOK, NetTypeOK
  <2>2. /\ Len(backlog') = Len(backlog) + 1 /\ Len(backlog) \in Nat
        /\ \A i \in 1..Len(backlog) : backlog'[i] = backlog[i]
        /\ backlog'[Len(backlog) + 1] = NULL
    BY <2>1, AppendProperties, LenProperties
  <2>3. \A d \in served : \A i \in 1..Len(backlog') : backlog'[i] # d
    <3> TAKE d \in served
    <3> TAKE i \in 1..Len(backlog')
    <3>1. i \in 1..Len(backlog) \/ i = Len(backlog) + 1
      BY <2>2
    <3>2. d \in Conn
      BY DEF ServerInv, TypeOK
    <3> QED BY <2>2, <3>1, <3>2, NetconnAssumption
  <2> QED BY <1>1, <2>1, <2>3
<1>4. ASSUME NEW c \in Conn, Fin(c) \/ Rst(c) PROVE HistoryInv'
  <2>1. UNCHANGED <<backlog, mbox, sent, deleted>>
    BY <1>4 DEF Fin, Rst
  <2>2. \A d \in Conn : peer[d] # "none" => peer'[d] # "none"
    BY <1>4 DEF Fin, Rst, ServerInv, TypeOK, NetTypeOK
  <2>3. served \subseteq Conn
    BY DEF ServerInv, TypeOK
  <2> QED BY <1>1, <2>1, <2>2, <2>3
<1>5. ASSUME NEW c \in Conn, NEW netbuf \in Netbufs, Deliver(c, netbuf) PROVE HistoryInv'
  <2>1. /\ mbox' = [mbox EXCEPT ![c] = Append(@, netbuf)]
        /\ sent' = [sent EXCEPT ![c] = Append(@, netbuf)]
        /\ UNCHANGED <<peer, backlog, deleted>>
    BY <1>5 DEF Deliver
  <2>2. \A d \in Conn : mbox[d] = sent[d] => mbox'[d] = sent'[d]
    BY <2>1 DEF ServerInv, FlowInv
  <2> QED BY <1>1, <2>1, <2>2
<1> QED BY <1>2, <1>3, <1>4, <1>5 DEF Environment, Clients

LEMMA HistoryStep ==
    ASSUME ServerInv, HistoryInv, [Next]_vars
    PROVE  HistoryInv'
<1> USE DEF HistoryInv
<1>1. CASE Environment
  BY <1>1, HistoryClients
<1>2. CASE OtherLocks \/ OtherReleases \/ UNCHANGED vars
  BY <1>2 DEF OtherLocks, OtherReleases, vars, netVars, threadVars, history
<1>3. CASE Accept
  <2>1. /\ backlog # <<>> /\ backlog \in Seq(Conn \cup {NULL})
        /\ backlog' = Tail(backlog) /\ p_conn' = Head(backlog)
        /\ UNCHANGED <<peer, mbox, sent, deleted, tx, taken, verdicts, served>>
    BY <1>3 DEF Accept, history, ServerInv, TypeOK, NetTypeOK
  <2>2. /\ Head(backlog) = backlog[1] /\ 1 \in 1..Len(backlog)
        /\ \A i \in 1..Len(backlog') : i + 1 \in 1..Len(backlog) /\ backlog'[i] = backlog[i + 1]
    <3>1. Len(backlog) \in Nat \ {0} /\ Head(backlog) = backlog[1]
      BY <2>1, EmptySeq
    <3>2. /\ Len(backlog') = Len(backlog) - 1
          /\ \A i \in 1..Len(backlog') : backlog'[i] = backlog[i + 1]
      BY <2>1, HeadTailProperties
    <3> QED BY <3>1, <3>2
  <2>3. p_conn' \notin served
    BY <2>1, <2>2
  <2> QED BY <2>1, <2>2, <2>3
<1>4. CASE LockSession
  <2>1. /\ pc = "lock" /\ pc' = "recv" /\ p_conn \in Conn /\ served' = served \cup {p_conn}
        /\ peer[p_conn] # "none" /\ \A i \in 1..Len(backlog) : backlog[i] # p_conn
        /\ UNCHANGED <<netVars, tx, taken, verdicts>>
    BY <1>4 DEF LockSession, At, ServerInv, SessionInv, OwnerInv
  <2> QED BY <2>1 DEF netVars
<1>5. CASE Refuse \/ Close
  <2>1. /\ deleted' = deleted \cup {p_conn} /\ mbox' = [mbox EXCEPT ![p_conn] = <<>>]
        /\ pc' # "lock"
        /\ UNCHANGED <<peer, sent, backlog, served, tx, taken, verdicts>>
    BY <1>5 DEF Refuse, Close, DeleteConn, history
  <2>2. \A c \in Conn : c \notin deleted' => mbox'[c] = mbox[c]
    BY <2>1 DEF ServerInv, FlowInv
  <2> QED BY <2>1, <2>2
<1>6. CASE ReleaseSession
  BY <1>6 DEF ReleaseSession, netVars, history
<1>7. CASE RecvEnds \/ HandleAsserts \/ FlushAsserts \/ Handled
  BY <1>7 DEF RecvEnds, HandleAsserts, FlushAsserts, Handled, At, netVars, history
<1>8. CASE Recv \/ Handle \/ Flush \/ FlushFails
  <2>1. /\ pc \in InServe /\ pc' # "lock" /\ p_conn \in served
        /\ UNCHANGED <<peer, backlog, sent, deleted, served>>
    BY <1>8 DEF Recv, netbuf_data, Handle, Flush, FlushFails, NextFlush, At, InServe, netVars, history,
                ServerInv, SessionInv, OwnerInv
  <2>2. \A c \in Conn \ served : UNCHANGED <<mbox[c], tx[c], taken[c], verdicts[c]>>
    <3> TAKE c \in Conn \ served
    <3>1. c # p_conn /\ c \in Conn
      BY <2>1
    <3>2. CASE Recv
      BY <3>1, <3>2 DEF Recv, netbuf_data, history, ServerInv, FlowInv
    <3>3. CASE Handle
      BY <3>1, <3>3 DEF Handle, netVars, ServerInv, TypeOK
    <3>4. CASE Flush \/ FlushFails
      BY <3>1, <3>4 DEF Flush, FlushFails, NextFlush, netVars, ServerInv, TypeOK
    <3> QED BY <1>8, <3>2, <3>3, <3>4
  <2> QED BY <2>1, <2>2
<1> QED BY <1>1, <1>2, <1>3, <1>4, <1>5, <1>6, <1>7, <1>8 DEF Next, Server

LEMMA HistoryInvariant == Spec => [](ServerInv /\ HistoryInv)
<1>1. Init => HistoryInv
  BY DEF Init, NetInit, HistoryInv
<1>2. ServerInv /\ HistoryInv /\ [Next]_vars => HistoryInv'
  BY HistoryStep
<1> QED BY <1>1, <1>2, ServerInvariant, PTL DEF Spec

-----------------------------------------------------------------------------
(* The items of a sequence of netbufs.                                     *)
ItemsOfNetbuf == [netbuf \in Netbufs |-> FlattenSeq(netbuf)]

LEMMA SentItemsIsFlattenMap ==
    /\ MapsInto(ItemsOfNetbuf, Netbufs, ItemNames)
    /\ \A s \in Seq(Netbufs) : SentItems(s) = FlattenMap(ItemsOfNetbuf, s)
<1>1. \A netbuf \in Netbufs : FlattenSeq(netbuf) \in Seq(ItemNames)
  BY NetbufType, FlattenType
<1>2. MapsInto(ItemsOfNetbuf, Netbufs, ItemNames)
  BY <1>1 DEF MapsInto, ItemsOfNetbuf
<1>3. ASSUME NEW s \in Seq(Netbufs)
      PROVE  SentItems(s) = FlattenMap(ItemsOfNetbuf, s)
  <2>1. \A i \in DOMAIN s : s[i] \in Netbufs
    BY ElementOfSeq, LenProperties
  <2>2. \A i \in DOMAIN s : ItemsOfNetbuf[s[i]] = FlattenSeq(s[i])
    BY <2>1 DEF ItemsOfNetbuf
  <2>3. [i \in DOMAIN s |-> FlattenSeq(s[i])] = [i \in DOMAIN s |-> ItemsOfNetbuf[s[i]]]
    BY <2>2
  <2> QED BY <2>3 DEF SentItems, FlattenMap, Mapped
<1> QED BY <1>2, <1>3

LEMMA SentItemsFacts ==
    /\ SentItems(<<>>) = <<>>
    /\ \A s \in Seq(Netbufs) : SentItems(s) \in Seq(ItemNames)
    /\ \A s \in Seq(Netbufs), netbuf \in Netbufs :
          SentItems(Append(s, netbuf)) = SentItems(s) \o FlattenSeq(netbuf)
    /\ \A s \in Seq(Netbufs) : s # <<>> =>
          SentItems(s) = FlattenSeq(Head(s)) \o SentItems(Tail(s))
<1>1. SentItems(<<>>) = <<>>
  <2>1. <<>> \in Seq(Netbufs)
    BY EmptySeq
  <2> QED BY <2>1, SentItemsIsFlattenMap, FlattenMapEmpty, Zenon
<1>2. ASSUME NEW s \in Seq(Netbufs) PROVE SentItems(s) \in Seq(ItemNames)
  BY SentItemsIsFlattenMap, FlattenMapType
<1>3. ASSUME NEW s \in Seq(Netbufs), NEW netbuf \in Netbufs
      PROVE  SentItems(Append(s, netbuf)) = SentItems(s) \o FlattenSeq(netbuf)
  <2>1. Append(s, netbuf) \in Seq(Netbufs)
    BY AppendProperties
  <2>2. FlattenMap(ItemsOfNetbuf, Append(s, netbuf))
          = FlattenMap(ItemsOfNetbuf, s) \o ItemsOfNetbuf[netbuf]
    BY SentItemsIsFlattenMap, FlattenMapAppend
  <2> QED BY <2>1, <2>2, SentItemsIsFlattenMap DEF ItemsOfNetbuf
<1>4. ASSUME NEW s \in Seq(Netbufs), s # <<>>
      PROVE  SentItems(s) = FlattenSeq(Head(s)) \o SentItems(Tail(s))
  <2>1. Head(s) \in Netbufs /\ Tail(s) \in Seq(Netbufs)
    BY <1>4, HeadTailProperties
  <2>2. FlattenMap(ItemsOfNetbuf, s)
          = ItemsOfNetbuf[Head(s)] \o FlattenMap(ItemsOfNetbuf, Tail(s))
    BY <1>4, SentItemsIsFlattenMap, FlattenMapTail
  <2> QED BY <2>1, <2>2, SentItemsIsFlattenMap DEF ItemsOfNetbuf
<1> QED BY <1>1, <1>2, <1>3, <1>4

(* No received segment is chained: each netbuf is one pbuf.                *)
OnePbuf == \A netbuf \in Netbufs : Len(netbuf) = 1

LEMMA OnePbufItems ==
    ASSUME OnePbuf, NEW netbuf \in Netbufs
    PROVE  FlattenSeq(netbuf) = Head(netbuf)
<1>1. netbuf \in Seq(Seq(ItemNames)) /\ netbuf # <<>> /\ Head(netbuf) \in Seq(ItemNames)
  BY NetbufType
<1>2. Tail(netbuf) = <<>>
  <2>1. Tail(netbuf) \in Seq(Seq(ItemNames)) /\ Len(Tail(netbuf)) = 0
    <3> DEFINE U == Seq(ItemNames)
    <3>1. netbuf \in Seq(U) /\ netbuf # <<>>
      BY <1>1
    <3> HIDE DEF U
    <3>2. Tail(netbuf) \in Seq(U) /\ Len(Tail(netbuf)) = Len(netbuf) - 1
      BY <3>1, HeadTailProperties
    <3>3. Len(netbuf) = 1
      BY DEF OnePbuf
    <3>4. Len(Tail(netbuf)) = 0
      BY <3>2, <3>3
    <3> QED BY <3>2, <3>4 DEF U
  <2> QED BY <2>1, EmptySeq
<1>3. FlattenSeq(netbuf) = Head(netbuf) \o FlattenSeq(Tail(netbuf))
  BY <1>1, FlattenTail
<1> QED BY <1>1, <1>2, <1>3, FlattenEmpty, ConcatEmptySeq

-----------------------------------------------------------------------------
(* When the thread returns from gdb_session_handle with a session that is  *)
(* still alive, either a write just succeeded or nothing is left: an old   *)
(* error has nothing to drop.                                              *)
HandledInv == pc = "handled" /\ session.state = "ACTIVE" => err = "OK" \/ data = <<>>

LEMMA HandledStep ==
    ASSUME ServerInv, HandledInv, [Next]_vars
    PROVE  HandledInv'
<1> USE DEF HandledInv
<1>1. CASE Environment \/ UNCHANGED vars
  BY <1>1 DEF Environment, vars, sessionVars, threadVars
<1>2. CASE OtherLocks \/ OtherReleases
  <2>1. pc' = pc /\ pc \notin InServe
    BY <1>2 DEF OtherLocks, OtherReleases, Lock, threadVars, ServerInv, SessionInv,
                SessionExclusive
  <2> QED BY <2>1 DEF InServe
<1>3. CASE Accept \/ LockSession \/ Refuse \/ Recv \/ RecvEnds \/ Handled \/ Close
           \/ ReleaseSession
  BY <1>3 DEF Accept, LockSession, Refuse, Recv, RecvEnds, Handled, Close, ReleaseSession
<1>4. CASE HandleAsserts \/ FlushAsserts
  BY <1>4 DEF HandleAsserts, FlushAsserts, sessionVars
<1>5. CASE Handle
  <2>1. PICK result, k, answers, e : Handles(result, k, answers, e)
    BY <1>5, HandleFacts
  <2>2. pc' = "handled" => pending' = <<>>
    BY <1>5 DEF Handle
  <2>3. answers \in Seq(Outputs \cup {Start})
    BY <2>1, SeqMonotonic DEF Handles
  <2>4. Append(answers, Start) # <<>>
    BY <2>3, AppendProperties
  <2>5. pc' = "handled" => k = Len(data)
    BY <2>1, <2>2, <2>4 DEF Handles
  <2>6. k = Len(data) => data' = <<>>
    BY <2>1, CutInTwo DEF Handles, ServerInv, TypeOK
  <2> QED BY <2>5, <2>6
<1>6. CASE Flush
  BY <1>6 DEF Flush, Flushed
<1>7. CASE FlushFails
  <2>1. session.transport = "TCP_IP"
    BY <1>7 DEF FlushFails, At, InServe, ServerInv, SessionInv, SessionExclusive
  <2>2. session'.state = "ABORTED"
    BY <1>7, <2>1 DEF FlushFails, Flushed, ServerInv, TypeOK
  <2> QED BY <2>2
<1> QED BY <1>1, <1>2, <1>3, <1>4, <1>5, <1>6, <1>7 DEF Next, Server

LEMMA SkippedClients ==
    ASSUME ServerInv, NothingSkipped, Environment
    PROVE  NothingSkipped'
<1>1. UNCHANGED <<pc, p_conn, session, taken, data>>
  BY DEF Environment, threadVars, sessionVars, history
<1>2. CASE UNCHANGED <<mbox, sent>>
  BY <1>1, <1>2 DEF NothingSkipped, Serving
<1>3. ASSUME NEW d \in Conn, NEW netbuf \in Netbufs, Deliver(d, netbuf) PROVE NothingSkipped'
  <2> SUFFICES ASSUME NEW c \in Conn, Serving(c), session.state = "ACTIVE"
               PROVE  taken[c] \o data \o SentItems(mbox'[c]) = SentItems(sent'[c])
    BY <1>1 DEF NothingSkipped, Serving
  <2>1. taken[c] \o data \o SentItems(mbox[c]) = SentItems(sent[c])
    BY DEF NothingSkipped
  <2>2. CASE c # d
    <3>1. mbox'[c] = mbox[c] /\ sent'[c] = sent[c]
      BY <1>3, <2>2 DEF Deliver, ServerInv, FlowInv
    <3> QED BY <2>1, <3>1
  <2>3. CASE c = d
    <3>1. mbox'[c] = Append(mbox[c], netbuf) /\ sent'[c] = Append(sent[c], netbuf)
      BY <1>3, <2>3 DEF Deliver, ServerInv, FlowInv
    <3>2. mbox[c] \in Seq(Netbufs) /\ sent[c] \in Seq(Netbufs)
      BY DEF ServerInv, FlowInv
    <3> DEFINE a == taken[c]  b == data  m == SentItems(mbox[c])  f == FlattenSeq(netbuf)
               s == SentItems(sent[c])
    <3>3. /\ a \in Seq(ItemNames) /\ b \in Seq(ItemNames) /\ m \in Seq(ItemNames)
          /\ f \in Seq(ItemNames)
      <4>1. m \in Seq(ItemNames)
        BY <3>2, SentItemsFacts
      <4>2. f \in Seq(ItemNames)
        BY NetbufType, FlattenType
      <4> QED BY <4>1, <4>2 DEF ServerInv, TypeOK
    <3>4. SentItems(mbox'[c]) = m \o f /\ SentItems(sent'[c]) = s \o f
      BY <3>1, <3>2, SentItemsFacts
    <3>5. (a \o b) \o m = s
      BY <2>1
    <3> HIDE DEF a, b, m, f, s
    <3>6. (a \o b) \o (m \o f) = ((a \o b) \o m) \o f
      <4> DEFINE e == a \o b
      <4>1. e \in Seq(ItemNames)
        BY <3>3, ConcatProperties
      <4> HIDE DEF e
      <4>2. \A x, y, z \in Seq(ItemNames) : (x \o y) \o z = x \o (y \o z)
        BY Associative
      <4>3. e \o (m \o f) = (e \o m) \o f
        BY <3>3, <4>1, <4>2, Zenon
      <4> QED BY <4>3 DEF e
    <3>7. (a \o b) \o (m \o f) = s \o f
      BY <3>5, <3>6
    <3> QED BY <3>4, <3>7 DEF a, b
  <2> QED BY <2>2, <2>3
<1> QED BY <1>2, <1>3 DEF Environment, Clients, ConnectFails, Connect, Fin, Rst

(* The connection that gets the session has all it sent in its mailbox.    *)
LEMMA SkippedLock ==
    ASSUME ServerInv, HistoryInv, LockSession
    PROVE  NothingSkipped'
<1>1. /\ pc = "lock" /\ p_conn \in Conn /\ p_conn \notin served /\ p_conn \notin deleted
      /\ UNCHANGED <<p_conn, data, taken, mbox, sent>> /\ data = <<>>
  BY DEF LockSession, At, HistoryInv, ServerInv, SessionInv, OwnerInv, SessionExclusive,
         FlowInv, netVars
<1>2. taken[p_conn] = <<>> /\ mbox[p_conn] = sent[p_conn]
  BY <1>1 DEF HistoryInv
<1>3. SentItems(mbox[p_conn]) \in Seq(ItemNames)
  BY <1>1, SentItemsFacts DEF ServerInv, FlowInv
<1>4. <<>> \in Seq(ItemNames)
  BY EmptySeq
<1>5. (<<>> \o <<>>) \o SentItems(mbox[p_conn]) = SentItems(mbox[p_conn])
  BY <1>3, <1>4, ConcatEmptySeq
<1>6. taken[p_conn] \o data \o SentItems(mbox[p_conn]) = SentItems(sent[p_conn])
  BY <1>1, <1>2, <1>5
<1> QED BY <1>1, <1>6 DEF NothingSkipped, Serving

(* network_serve_gdb takes the one pbuf of the oldest netbuf.              *)
LEMMA SkippedRecv ==
    ASSUME OnePbuf, ServerInv, NothingSkipped, Recv
    PROVE  NothingSkipped'
<1>1. /\ pc = "recv" /\ p_conn \in Conn /\ data = <<>> /\ mbox[p_conn] # <<>>
      /\ data' = Head(Head(mbox[p_conn])) /\ mbox'[p_conn] = Tail(mbox[p_conn])
      /\ UNCHANGED <<p_conn, sent, taken, session>>
  BY DEF Recv, netbuf_data, At, HasData, ServerInv, SessionInv, OwnerInv, FlowInv, InServe,
         sessionVars, history
<1> SUFFICES ASSUME session.state = "ACTIVE"
             PROVE  taken[p_conn] \o data' \o SentItems(mbox'[p_conn]) = SentItems(sent[p_conn])
  BY <1>1 DEF NothingSkipped, Serving
<1>2. taken[p_conn] \o data \o SentItems(mbox[p_conn]) = SentItems(sent[p_conn])
  BY <1>1 DEF NothingSkipped, Serving, InServe
<1> DEFINE q == mbox[p_conn]
<1>3. q \in Seq(Netbufs) /\ Head(q) \in Netbufs /\ Tail(q) \in Seq(Netbufs)
  BY <1>1, HeadTailProperties DEF ServerInv, FlowInv
<1> DEFINE a == taken[p_conn]  b == Head(Head(q))  m == SentItems(Tail(q))
<1>4. SentItems(q) = b \o m
  BY <1>1, <1>3, SentItemsFacts, OnePbufItems
<1>5. a \in Seq(ItemNames) /\ b \in Seq(ItemNames) /\ m \in Seq(ItemNames)
  <2>1. m \in Seq(ItemNames)
    BY <1>3, SentItemsFacts
  <2>2. b \in Seq(ItemNames)
    BY <1>3, NetbufType
  <2> QED BY <1>1, <2>1, <2>2 DEF ServerInv, TypeOK
<1>6. (a \o <<>>) \o (b \o m) = SentItems(sent[p_conn])
  BY <1>1, <1>2, <1>4
<1>7. data' = b /\ SentItems(mbox'[p_conn]) = m
  BY <1>1
<1> HIDE DEF a, b, m
<1>8. (a \o <<>>) \o (b \o m) = (a \o b) \o m
  <2>0. \A x, y, z \in Seq(ItemNames) : (x \o <<>>) \o (y \o z) = (x \o y) \o z
    BY ConcatGap
  <2> QED BY <1>5, <2>0, Zenon
<1> QED BY <1>6, <1>7, <1>8 DEF a

(* gdb_session_handle consumes the front of what is at hand.               *)
LEMMA SkippedHandle ==
    ASSUME ServerInv, NothingSkipped, Handle
    PROVE  NothingSkipped'
<1>1. PICK result, k, answers, e : Handles(result, k, answers, e)
  BY HandleFacts
<1>2. /\ pc = "serve" /\ p_conn \in Conn
      /\ session'.state = session.state /\ UNCHANGED <<p_conn, mbox, sent>>
      /\ data \in Seq(ItemNames) /\ taken[p_conn] \in Seq(ItemNames)
      /\ taken'[p_conn] = taken[p_conn] \o SubSeq(data, 1, k)
      /\ data' = SubSeq(data, k + 1, Len(data)) /\ k \in 1..Len(data)
  BY <1>1 DEF Handle, Handles, At, ServerInv, SessionInv, OwnerInv, InServe, TypeOK, netVars
<1> SUFFICES ASSUME session.state = "ACTIVE"
             PROVE  taken'[p_conn] \o data' \o SentItems(mbox[p_conn]) = SentItems(sent[p_conn])
  BY <1>2 DEF NothingSkipped, Serving
<1>3. taken[p_conn] \o data \o SentItems(mbox[p_conn]) = SentItems(sent[p_conn])
  BY <1>2 DEF NothingSkipped, Serving, InServe
<1> DEFINE a == taken[p_conn]  b == SubSeq(data, 1, k)  d == SubSeq(data, k + 1, Len(data))
<1>4. b \in Seq(ItemNames) /\ d \in Seq(ItemNames) /\ b \o d = data
  BY <1>2, CutInTwo
<1>5. (a \o b) \o d = a \o (b \o d)
  <2>1. a \in Seq(ItemNames)
    BY <1>2
  <2> HIDE DEF a, b, d
  <2>2. \A x, y, z \in Seq(ItemNames) : (x \o y) \o z = x \o (y \o z)
    BY Associative
  <2> QED BY <1>4, <2>1, <2>2, Zenon
<1> QED BY <1>2, <1>3, <1>4, <1>5

LEMMA SkippedStep ==
    ASSUME OnePbuf, ServerInv, HistoryInv, HandledInv, NothingSkipped, [Next]_vars
    PROVE  NothingSkipped'
<1>1. CASE Environment
  BY <1>1, SkippedClients
<1>2. CASE LockSession
  BY <1>2, SkippedLock
<1>3. CASE Recv
  BY <1>3, SkippedRecv
<1>4. CASE Handle
  BY <1>4, SkippedHandle
<1>5. CASE OtherLocks \/ OtherReleases
  <2>1. pc' = pc /\ pc \notin InServe
    BY <1>5 DEF OtherLocks, OtherReleases, Lock, threadVars, ServerInv, SessionInv,
                SessionExclusive
  <2> QED BY <2>1 DEF NothingSkipped, Serving
<1>6. CASE Accept \/ Refuse \/ Close \/ ReleaseSession
  <2>1. pc' \notin InServe
    BY <1>6 DEF Accept, Refuse, Close, ReleaseSession, InServe
  <2> QED BY <2>1 DEF NothingSkipped, Serving
<1>7. CASE RecvEnds \/ HandleAsserts \/ FlushAsserts \/ Flush \/ FlushFails \/ UNCHANGED vars
  <2>1. /\ UNCHANGED <<p_conn, data, taken, mbox, sent>>
        /\ pc \in InServe \/ pc' = pc
        /\ session'.state = "ACTIVE" => session.state = "ACTIVE"
    BY <1>7 DEF RecvEnds, HandleAsserts, FlushAsserts, Flush, FlushFails, NextFlush, Flushed,
                At, InServe, vars, netVars, sessionVars, threadVars, history, ServerInv, TypeOK
  <2> QED BY <2>1 DEF NothingSkipped, Serving
<1>8. CASE Handled
  <2>1. /\ UNCHANGED <<p_conn, session, err, taken, mbox, sent>>
        /\ pc = "handled" /\ err \in {"OK", "ERR"}
        /\ session.state = "ACTIVE" /\ data' # data => err # "OK" /\ data' = <<>>
    BY <1>8 DEF Handled, At, netVars, sessionVars, history, ServerInv, TypeOK
  <2>2. session.state = "ACTIVE" => data' = data
    BY <2>1 DEF HandledInv
  <2> QED BY <2>1, <2>2 DEF NothingSkipped, Serving, InServe
<1> QED BY <1>1, <1>2, <1>3, <1>4, <1>5, <1>6, <1>7, <1>8 DEF Next, Server

LEMMA SkippedInvariant ==
    OnePbuf => (Spec => [](ServerInv /\ HistoryInv /\ HandledInv /\ NothingSkipped))
<1> SUFFICES ASSUME OnePbuf
             PROVE  Spec => [](ServerInv /\ HistoryInv /\ HandledInv /\ NothingSkipped)
  OBVIOUS
<1>1. Init => HandledInv /\ NothingSkipped
  BY DEF Init, HandledInv, NothingSkipped, Serving, InServe
<1>2. ServerInv /\ HandledInv /\ [Next]_vars => HandledInv'
  BY HandledStep
<1>3. ServerInv /\ HistoryInv /\ HandledInv /\ NothingSkipped /\ [Next]_vars => NothingSkipped'
  BY SkippedStep
<1> QED BY <1>1, <1>2, <1>3, HistoryInvariant, PTL DEF Spec

(* NothingSkipped: whatever error an earlier write left behind, a session  *)
(* that is alive handles the items of its connection one after the other   *)
(* without a gap, as long as lwIP delivers every segment in one pbuf.      *)
THEOREM NothingSkippedAlways == OnePbuf => (Spec => []NothingSkipped)
<1> SUFFICES ASSUME OnePbuf PROVE Spec => []NothingSkipped
  OBVIOUS
<1> QED BY SkippedInvariant, PTL

-----------------------------------------------------------------------------
(* What a client is owed, verdict by verdict.                              *)
OwedFunction == [v \in Verdicts |-> OwedFor(v)]

LEMMA OwedType == MapsInto(OwedFunction, Verdicts, Outputs)
<1>1. ASSUME NEW v \in Verdicts PROVE OwedFor(v) \in Seq(Outputs)
  <2>1. /\ v.text \in Seq(STRING)
        /\ v.verdict \in {"OK", "CHECKSUM_ERROR", "COLLECTING"}
    BY DEF Verdicts
  <2>2. ACK \in Outputs /\ NACK \in Outputs /\ Replies \subseteq Outputs
    BY DEF Outputs
  <2>3. CASE v.verdict = "OK"
    <3>1. gdb_execute(v.text).replies \in Seq(Outputs)
      <4>1. gdb_execute(v.text).replies \in Seq(Replies)
        BY <2>1, ExecuteReplies
      <4> QED BY <2>2, <4>1, SeqMonotonic
    <3>2. <<ACK>> \in Seq(Outputs)
      BY <2>2
    <3>3. <<ACK>> \o gdb_execute(v.text).replies \in Seq(Outputs)
      BY <3>1, <3>2, ConcatProperties
    <3> QED BY <2>3, <3>3 DEF OwedFor
  <2>4. CASE v.verdict = "CHECKSUM_ERROR"
    <3>1. <<NACK>> \in Seq(Outputs)
      BY <2>2
    <3> QED BY <2>4, <3>1 DEF OwedFor
  <2>5. CASE v.verdict = "COLLECTING"
    <3>1. <<>> \in Seq(Outputs)
      BY EmptySeq
    <3> QED BY <2>5, <3>1 DEF OwedFor
  <2> QED BY <2>1, <2>3, <2>4, <2>5
<1> QED BY <1>1 DEF MapsInto, OwedFunction

LEMMA OwedFacts ==
    /\ Owed(<<>>) = <<>>
    /\ \A log \in Seq(Verdicts) : Owed(log) \in Seq(Outputs)
    /\ \A log \in Seq(Verdicts), v \in Verdicts :
          Owed(Append(log, v)) = Owed(log) \o OwedFor(v)
<1>1. ASSUME NEW log \in Seq(Verdicts) PROVE Owed(log) = FlattenMap(OwedFunction, log)
  <2>1. \A i \in DOMAIN log : log[i] \in Verdicts
    BY ElementOfSeq, LenProperties
  <2>2. \A i \in DOMAIN log : OwedFunction[log[i]] = OwedFor(log[i])
    BY <2>1 DEF OwedFunction
  <2>3. [i \in DOMAIN log |-> OwedFor(log[i])] = [i \in DOMAIN log |-> OwedFunction[log[i]]]
    BY <2>2
  <2> QED BY <2>3 DEF Owed, FlattenMap, Mapped
<1>2. Owed(<<>>) = <<>>
  <2>1. <<>> \in Seq(Verdicts)
    BY EmptySeq
  <2> QED BY <1>1, <2>1, FlattenMapEmpty, Zenon
<1>3. ASSUME NEW log \in Seq(Verdicts) PROVE Owed(log) \in Seq(Outputs)
  BY <1>1, OwedType, FlattenMapType
<1>4. ASSUME NEW log \in Seq(Verdicts), NEW v \in Verdicts
      PROVE  Owed(Append(log, v)) = Owed(log) \o OwedFor(v)
  <2>1. Append(log, v) \in Seq(Verdicts)
    BY AppendProperties
  <2>2. FlattenMap(OwedFunction, Append(log, v)) = FlattenMap(OwedFunction, log) \o OwedFunction[v]
    BY OwedType, FlattenMapAppend
  <2> QED BY <1>1, <2>1, <2>2 DEF OwedFunction
<1> QED BY <1>2, <1>3, <1>4

(* What is left of a sequence without one of its elements.                 *)
Dropping(x, S) == [y \in S |-> IF y = x THEN <<>> ELSE <<y>>]

LEMMA DroppingType ==
    ASSUME NEW x, NEW S, NEW T, S \ {x} \subseteq T
    PROVE  MapsInto(Dropping(x, S), S, T)
<1>1. ASSUME NEW y \in S PROVE (IF y = x THEN <<>> ELSE <<y>>) \in Seq(T)
  <2>1. CASE y = x
    BY <2>1, EmptySeq
  <2>2. CASE y # x
    <3>1. y \in T
      BY <2>2
    <3>2. <<y>> \in Seq(T)
      BY <3>1
    <3> QED BY <2>2, <3>2
  <2> QED BY <2>1, <2>2
<1> QED BY <1>1 DEF MapsInto, Dropping

LEMMA WithoutIsFlattenMap ==
    ASSUME NEW x, NEW S, NEW s \in Seq(S)
    PROVE  Without(s, x) = FlattenMap(Dropping(x, S), s)
<1>1. \A i \in DOMAIN s : s[i] \in S
  BY ElementOfSeq, LenProperties
<1>2. \A i \in DOMAIN s : Dropping(x, S)[s[i]] = IF s[i] = x THEN <<>> ELSE <<s[i]>>
  BY <1>1 DEF Dropping
<1>3. [i \in DOMAIN s |-> IF s[i] = x THEN <<>> ELSE <<s[i]>>]
        = [i \in DOMAIN s |-> Dropping(x, S)[s[i]]]
  BY <1>2
<1> QED BY <1>3 DEF Without, FlattenMap, Mapped

LEMMA WithoutEmpty == \A x : Without(<<>>, x) = <<>>
<1> SUFFICES ASSUME NEW x PROVE Without(<<>>, x) = <<>>
  OBVIOUS
<1>1. [i \in DOMAIN <<>> |-> IF <<>>[i] = x THEN <<>> ELSE <<(<<>>[i])>>] = <<>>
  OBVIOUS
<1> QED BY <1>1, FlattenEmpty DEF Without

LEMMA WithoutType ==
    ASSUME NEW x, NEW S, NEW T, S \ {x} \subseteq T, NEW s \in Seq(S)
    PROVE  Without(s, x) \in Seq(T)
<1> DEFINE F == Dropping(x, S)
<1>1. MapsInto(F, S, T)
  BY DroppingType
<1>2. Without(s, x) = FlattenMap(F, s)
  BY WithoutIsFlattenMap
<1> HIDE DEF F
<1> QED BY <1>1, <1>2, FlattenMapType

LEMMA WithoutNone ==
    ASSUME NEW x, NEW S, x \notin S, NEW s \in Seq(S)
    PROVE  Without(s, x) = s
<1>1. MapsInto(Dropping(x, S), S, S)
  BY DroppingType
<1>2. Singles(Dropping(x, S), S)
  BY DEF Singles, Dropping
<1> QED BY <1>1, <1>2, WithoutIsFlattenMap, FlattenMapSingles

LEMMA WithoutAppend ==
    ASSUME NEW x, NEW S, NEW s \in Seq(S), NEW e \in S
    PROVE  Without(Append(s, e), x) = IF e = x THEN Without(s, x) ELSE Append(Without(s, x), e)
<1>1. MapsInto(Dropping(x, S), S, S)
  BY DroppingType
<1>2. Append(s, e) \in Seq(S)
  BY AppendProperties
<1>3. Without(Append(s, e), x) = Without(s, x) \o Dropping(x, S)[e]
  <2> DEFINE F == Dropping(x, S)
  <2>1. Without(s, x) = FlattenMap(F, s) /\ Without(Append(s, e), x) = FlattenMap(F, Append(s, e))
    BY <1>2, WithoutIsFlattenMap
  <2>2. MapsInto(F, S, S)
    BY <1>1
  <2> HIDE DEF F
  <2>3. FlattenMap(F, Append(s, e)) = FlattenMap(F, s) \o F[e]
    BY <2>2, FlattenMapAppend
  <2> QED BY <2>1, <2>3 DEF F
<1>4. Without(s, x) \in Seq(S)
  BY WithoutType
<1>5. CASE e = x
  <2>1. Dropping(x, S)[e] = <<>>
    BY <1>5 DEF Dropping
  <2> QED BY <1>3, <1>4, <1>5, <2>1, ConcatEmptySeq
<1>6. CASE e # x
  <2>1. Dropping(x, S)[e] = <<e>>
    BY <1>6 DEF Dropping
  <2> QED BY <1>3, <1>4, <1>6, <2>1, AppendIsConcat
<1> QED BY <1>5, <1>6

LEMMA WithoutTail ==
    ASSUME NEW x, NEW S, NEW s \in Seq(S), s # <<>>
    PROVE  /\ Head(s) = x => Without(s, x) = Without(Tail(s), x)
           /\ Head(s) # x => Without(s, x) = <<Head(s)>> \o Without(Tail(s), x)
<1>1. MapsInto(Dropping(x, S), S, S)
  BY DroppingType
<1>2. Tail(s) \in Seq(S) /\ Head(s) \in S
  BY HeadTailProperties
<1>3. Without(s, x) = Dropping(x, S)[Head(s)] \o Without(Tail(s), x)
  <2> DEFINE F == Dropping(x, S)
  <2>1. Without(s, x) = FlattenMap(F, s) /\ Without(Tail(s), x) = FlattenMap(F, Tail(s))
    BY <1>2, WithoutIsFlattenMap
  <2>2. MapsInto(F, S, S)
    BY <1>1
  <2> HIDE DEF F
  <2>3. FlattenMap(F, s) = F[Head(s)] \o FlattenMap(F, Tail(s))
    BY <2>2, FlattenMapTail
  <2> QED BY <2>1, <2>3 DEF F
<1>4. Without(Tail(s), x) \in Seq(S)
  BY <1>2, WithoutType
<1>5. CASE Head(s) = x
  <2>1. Dropping(x, S)[Head(s)] = <<>>
    BY <1>2, <1>5 DEF Dropping
  <2> QED BY <1>3, <1>4, <1>5, <2>1, ConcatEmptySeq
<1>6. CASE Head(s) # x
  BY <1>2, <1>3, <1>6 DEF Dropping
<1> QED BY <1>5, <1>6

-----------------------------------------------------------------------------
(* gdb_session_handle leaves exactly what is owed to be flushed.           *)
LEMMA AnsweredHandle ==
    ASSUME ServerInv, AnsweredInOrder, Handle
    PROVE  AnsweredInOrder'
<1>1. PICK result, k, answers, e : Handles(result, k, answers, e)
  BY HandleFacts
<1>2. /\ pc = "serve" /\ p_conn \in Conn /\ pending = <<>>
      /\ session'.state = session.state /\ UNCHANGED <<p_conn, tx>>
      /\ verdicts[p_conn] \in Seq(Verdicts) /\ result \in Verdicts
      /\ verdicts'[p_conn] = Append(verdicts[p_conn], result)
      /\ answers = OwedFor(result) /\ answers \in Seq(Outputs)
      /\ pending' = answers \/ pending' = Append(answers, Start)
      /\ tx[p_conn] \in Seq(Outputs)
  BY <1>1 DEF Handle, Handles, At, ServerInv, SessionInv, OwnerInv, InServe, TypeOK, FlowInv
<1> SUFFICES ASSUME session.state = "ACTIVE"
             PROVE  tx[p_conn] \o Without(pending', Start) = Owed(verdicts'[p_conn])
  BY <1>2 DEF AnsweredInOrder, Serving
<1>3. tx[p_conn] = Owed(verdicts[p_conn])
  <2>1. tx[p_conn] \o Without(pending, Start) = Owed(verdicts[p_conn])
    BY <1>2 DEF AnsweredInOrder, Serving, InServe
  <2>2. Without(pending, Start) = <<>>
    BY <1>2, WithoutEmpty
  <2>3. tx[p_conn] \o <<>> = tx[p_conn]
    BY <1>2, ConcatEmptySeq
  <2> QED BY <2>1, <2>2, <2>3
<1>4. Without(pending', Start) = answers
  <2>1. Without(answers, Start) = answers
    BY <1>2, StartIsNoOutput, WithoutNone
  <2>2. Without(Append(answers, Start), Start) = Without(answers, Start)
    <3>1. answers \in Seq(Outputs \cup {Start})
      BY <1>2, SeqMonotonic
    <3> QED BY <3>1, WithoutAppend
  <2> QED BY <1>2, <2>1, <2>2
<1>5. Owed(verdicts'[p_conn]) = Owed(verdicts[p_conn]) \o OwedFor(result)
  BY <1>2, OwedFacts
<1> QED BY <1>2, <1>3, <1>4, <1>5

(* gdb_session_flush moves the first answer to the client.                 *)
LEMMA AnsweredFlush ==
    ASSUME ServerInv, AnsweredInOrder, Flush
    PROVE  AnsweredInOrder'
<1>1. /\ pc = "flush" /\ p_conn \in Conn /\ pending # <<>> /\ Head(pending) # Start
      /\ pending \in Seq(Outputs \cup {Start}) /\ pending' = Tail(pending)
      /\ tx[p_conn] \in Seq(Outputs) /\ tx'[p_conn] = Append(tx[p_conn], Head(pending))
      /\ UNCHANGED <<p_conn, session, verdicts>>
  BY DEF Flush, Flushed, NextFlush, At, ServerInv, SessionInv, OwnerInv, InServe, TypeOK, FlowInv
<1> SUFFICES ASSUME session.state = "ACTIVE"
             PROVE  tx'[p_conn] \o Without(Tail(pending), Start) = Owed(verdicts[p_conn])
  BY <1>1 DEF AnsweredInOrder, Serving
<1>2. tx[p_conn] \o Without(pending, Start) = Owed(verdicts[p_conn])
  BY <1>1 DEF AnsweredInOrder, Serving, InServe
<1> DEFINE h == Head(pending)  w == Without(Tail(pending), Start)
<1>3. h \in Outputs /\ Tail(pending) \in Seq(Outputs \cup {Start})
  BY <1>1, HeadTailProperties
<1>4. Without(pending, Start) = <<h>> \o w
  BY <1>1, WithoutTail
<1>5. w \in Seq(Outputs) /\ <<h>> \in Seq(Outputs)
  <2>1. w \in Seq(Outputs)
    BY <1>3, WithoutType
  <2>2. <<h>> \in Seq(Outputs)
    BY <1>3
  <2> QED BY <2>1, <2>2
<1>6. tx'[p_conn] = tx[p_conn] \o <<h>>
  BY <1>1, <1>3, AppendIsConcat
<1> HIDE DEF h, w
<1>7. (tx[p_conn] \o <<h>>) \o w = tx[p_conn] \o (<<h>> \o w)
  <2>1. \A x, y, z \in Seq(Outputs) : (x \o y) \o z = x \o (y \o z)
    BY Associative
  <2> QED BY <1>1, <1>5, <2>1, Zenon
<1>8. tx'[p_conn] \o w = Owed(verdicts[p_conn])
  BY <1>2, <1>4, <1>6, <1>7
<1> QED BY <1>8 DEF w

LEMMA AnsweredStep ==
    ASSUME ServerInv, HistoryInv, AnsweredInOrder, [Next]_vars
    PROVE  AnsweredInOrder'
<1>1. CASE Handle
  BY <1>1, AnsweredHandle
<1>2. CASE Flush
  BY <1>2, AnsweredFlush
<1>3. CASE LockSession
  <2>1. /\ pc = "lock" /\ p_conn \in Conn \ served /\ pending = <<>>
        /\ UNCHANGED <<p_conn, pending, tx, verdicts>>
    BY <1>3 DEF LockSession, At, HistoryInv, ServerInv, SessionInv, OwnerInv, FlowInv
  <2>2. tx[p_conn] = <<>> /\ verdicts[p_conn] = <<>>
    BY <2>1 DEF HistoryInv
  <2>3. tx[p_conn] \o Without(pending, Start) = <<>>
    <3>1. <<>> \o <<>> = <<>>
      BY EmptySeq, ConcatEmptySeq
    <3> QED BY <2>1, <2>2, <3>1, WithoutEmpty
  <2>4. Owed(verdicts[p_conn]) = <<>>
    BY <2>2, OwedFacts
  <2> QED BY <2>1, <2>3, <2>4 DEF AnsweredInOrder, Serving
<1>4. CASE OtherLocks \/ OtherReleases
  <2>1. pc' = pc /\ pc \notin InServe
    BY <1>4 DEF OtherLocks, OtherReleases, Lock, threadVars, ServerInv, SessionInv,
                SessionExclusive
  <2> QED BY <2>1 DEF AnsweredInOrder, Serving
<1>5. CASE Accept \/ Refuse \/ Close \/ ReleaseSession
  <2>1. pc' \notin InServe
    BY <1>5 DEF Accept, Refuse, Close, ReleaseSession, InServe
  <2> QED BY <2>1 DEF AnsweredInOrder, Serving
<1>6. CASE FlushFails
  <2>1. session.transport = "TCP_IP"
    BY <1>6 DEF FlushFails, At, InServe, ServerInv, SessionInv, SessionExclusive
  <2>2. session'.state = "ABORTED"
    BY <1>6, <2>1 DEF FlushFails, Flushed, ServerInv, TypeOK
  <2> QED BY <2>2 DEF AnsweredInOrder
<1>7. CASE Environment \/ Recv \/ RecvEnds \/ HandleAsserts \/ FlushAsserts \/ Handled
           \/ UNCHANGED vars
  <2>1. /\ UNCHANGED <<p_conn, pending, tx, verdicts, session>>
        /\ pc \in InServe \/ pc' = pc
    BY <1>7 DEF Environment, Recv, RecvEnds, HandleAsserts, FlushAsserts, Handled, At, InServe,
                vars, sessionVars, threadVars, history
  <2> QED BY <2>1 DEF AnsweredInOrder, Serving
<1> QED BY <1>1, <1>2, <1>3, <1>4, <1>5, <1>6, <1>7 DEF Next, Server

(* AnsweredInOrder: over any number of connections, packets and segment    *)
(* boundaries, what a client got and what is being written to it is the    *)
(* acknowledgement and the replies of each packet of its own, in order.    *)
THEOREM AnsweredInOrderAlways == Spec => []AnsweredInOrder
<1>1. Init => AnsweredInOrder
  BY DEF Init, AnsweredInOrder, Serving, InServe
<1>2. ServerInv /\ HistoryInv /\ AnsweredInOrder /\ [Next]_vars => AnsweredInOrder'
  BY AnsweredStep
<1> QED BY <1>1, <1>2, HistoryInvariant, PTL DEF Spec

-----------------------------------------------------------------------------
(* An aborted session is one answer behind for good, and the thread gives  *)
(* a connection up only when it is, or once its client ended it.           *)
AnswerLost ==
    Len(tx[p_conn]) + Len(Without(pending, Start)) < Len(Owed(verdicts[p_conn]))

CloseInv ==
    /\ session.state = "ABORTED" => AnswerLost
    /\ pc = "close" => session.state = "ABORTED" \/ peer[p_conn] \in {"fin", "rst"}
    /\ pc = "close" /\ peer[p_conn] = "fin" =>
          session.state = "ABORTED" \/ taken[p_conn] = SentItems(sent[p_conn])
    /\ NothingLostAtClose

(* The lengths that AnswerLost compares.                                   *)
LEMMA LostLengths ==
    ASSUME ServerInv, p_conn \in Conn
    PROVE  /\ Len(tx[p_conn]) \in Nat /\ Len(Owed(verdicts[p_conn])) \in Nat
           /\ Without(pending, Start) \in Seq(Outputs) /\ Len(Without(pending, Start)) \in Nat
           /\ tx[p_conn] \in Seq(Outputs)
<1>1. /\ tx[p_conn] \in Seq(Outputs) /\ verdicts[p_conn] \in Seq(Verdicts)
      /\ pending \in Seq(Outputs \cup {Start})
  BY DEF ServerInv, TypeOK
<1>2. Owed(verdicts[p_conn]) \in Seq(Outputs)
  BY <1>1, OwedFacts
<1>3. Without(pending, Start) \in Seq(Outputs)
  BY <1>1, WithoutType
<1> QED BY <1>1, <1>2, <1>3, LenProperties

(* A failed write drops an answer of a session that owed what it had, or   *)
(* one more of a session that is behind.                                   *)
LEMMA LostByFailure ==
    ASSUME ServerInv, AnsweredInOrder, CloseInv, FlushFails
    PROVE  AnswerLost'
<1>1. /\ pc = "flush" /\ p_conn \in Conn /\ pending # <<>> /\ Head(pending) # Start
      /\ pending \in Seq(Outputs \cup {Start}) /\ pending' = Tail(pending)
      /\ UNCHANGED <<p_conn, tx, verdicts>>
      /\ session.state \in {"ACTIVE", "ABORTED"}
  BY DEF FlushFails, NextFlush, At, ServerInv, SessionInv, SessionExclusive, SessionRecord,
         OwnerInv, InServe, TypeOK, FlowInv
<1> DEFINE h == Head(pending)  w == Without(Tail(pending), Start)
<1>2. Without(pending, Start) = <<h>> \o w
  BY <1>1, WithoutTail
<1>3. w \in Seq(Outputs) /\ h \in Outputs
  <2>1. Tail(pending) \in Seq(Outputs \cup {Start}) /\ h \in Outputs
    BY <1>1, HeadTailProperties
  <2>2. w \in Seq(Outputs)
    BY <2>1, WithoutType
  <2> QED BY <2>1, <2>2
<1> HIDE DEF h, w
<1>4. Len(Without(pending, Start)) = 1 + Len(w) /\ Len(w) \in Nat
  BY <1>2, <1>3
<1>5. Len(tx[p_conn]) + Len(Without(pending, Start)) <= Len(Owed(verdicts[p_conn]))
  <2>1. CASE session.state = "ACTIVE"
    <3>1. tx[p_conn] \o Without(pending, Start) = Owed(verdicts[p_conn])
      BY <1>1, <2>1 DEF AnsweredInOrder, Serving, InServe
    <3>2. Len(tx[p_conn] \o Without(pending, Start))
            = Len(tx[p_conn]) + Len(Without(pending, Start))
      BY <1>1, LostLengths, ConcatProperties
    <3> QED BY <1>1, <3>1, <3>2, LostLengths
  <2>2. CASE session.state = "ABORTED"
    BY <1>1, <2>2, LostLengths DEF CloseInv, AnswerLost
  <2> QED BY <1>1, <2>1, <2>2
<1> DEFINE m == Len(tx[p_conn])  k == Len(Owed(verdicts[p_conn]))
<1>6. Len(tx[p_conn]) + Len(w) < Len(Owed(verdicts[p_conn]))
  <2>1. m \in Nat /\ k \in Nat
    BY <1>1, LostLengths
  <2>2. m + (1 + Len(w)) <= k
    BY <1>4, <1>5
  <2> HIDE DEF m, k
  <2>3. m + Len(w) < k
    BY <1>4, <2>1, <2>2
  <2> QED BY <2>3 DEF m, k
<1> QED BY <1>1, <1>6 DEF AnswerLost, w

(* A write that succeeds moves an answer and makes up for nothing.         *)
LEMMA LostOverFlush ==
    ASSUME ServerInv, AnswerLost, Flush
    PROVE  AnswerLost'
<1>1. /\ pc = "flush" /\ p_conn \in Conn /\ pending # <<>> /\ Head(pending) # Start
      /\ pending \in Seq(Outputs \cup {Start}) /\ pending' = Tail(pending)
      /\ tx[p_conn] \in Seq(Outputs) /\ tx'[p_conn] = Append(tx[p_conn], Head(pending))
      /\ UNCHANGED <<p_conn, verdicts>>
  BY DEF Flush, NextFlush, At, ServerInv, SessionInv, OwnerInv, InServe, TypeOK, FlowInv
<1> DEFINE h == Head(pending)  w == Without(Tail(pending), Start)
<1>2. Without(pending, Start) = <<h>> \o w
  BY <1>1, WithoutTail
<1>3. w \in Seq(Outputs) /\ h \in Outputs
  <2>1. Tail(pending) \in Seq(Outputs \cup {Start}) /\ h \in Outputs
    BY <1>1, HeadTailProperties
  <2>2. w \in Seq(Outputs)
    BY <2>1, WithoutType
  <2> QED BY <2>1, <2>2
<1>4. Len(tx'[p_conn]) = Len(tx[p_conn]) + 1
  BY <1>1, <1>3, AppendProperties
<1> HIDE DEF h, w
<1>5. Len(Without(pending, Start)) = 1 + Len(w) /\ Len(w) \in Nat
  BY <1>2, <1>3
<1> DEFINE m == Len(tx[p_conn])  k == Len(Owed(verdicts[p_conn]))
<1>6. Len(tx'[p_conn]) + Len(w) < Len(Owed(verdicts[p_conn]))
  <2>1. m \in Nat /\ k \in Nat
    BY <1>1, LostLengths
  <2>2. m + (1 + Len(w)) < k
    BY <1>5 DEF AnswerLost
  <2> HIDE DEF m, k
  <2>3. (m + 1) + Len(w) < k
    BY <1>5, <2>1, <2>2
  <2> QED BY <1>4, <2>3 DEF m, k
<1> QED BY <1>1, <1>6 DEF AnswerLost, w

LEMMA CloseClients ==
    ASSUME ServerInv, CloseInv, Environment
    PROVE  CloseInv'
<1>1. UNCHANGED <<pc, p_conn, session, pending, tx, verdicts, taken, served, deleted>>
  BY DEF Environment, Clients, ConnectFails, Connect, Fin, Rst, Deliver, threadVars,
         sessionVars, history
<1>2. \A c \in Conn : peer[c] = "fin" => sent'[c] = sent[c]
  BY DEF Environment, Clients, ConnectFails, Connect, Fin, Rst, Deliver, ServerInv, TypeOK,
         NetTypeOK
<1>3. \A c \in Conn : /\ peer[c] = "rst" => peer'[c] = "rst"
                      /\ peer[c] = "fin" => peer'[c] \in {"fin", "rst"}
                      /\ c \in deleted => peer'[c] = peer[c]
  <2>1. UNCHANGED peer \/ \E d \in Conn : \E x \in {"up", "fin", "rst"} :
            /\ peer' = [peer EXCEPT ![d] = x]
            /\ \/ x = "up" /\ peer[d] = "none"
               \/ x = "fin" /\ peer[d] = "up" /\ d \notin deleted
               \/ x = "rst" /\ d \notin deleted
    BY DEF Environment, Clients, ConnectFails, Connect, Fin, Rst, Deliver
  <2>2. peer \in [Conn -> {"none", "up", "fin", "rst"}]
        /\ \A c \in deleted : peer[c] # "none"
    BY DEF ServerInv, SessionInv, BacklogInv
  <2> QED BY <2>1, <2>2
<1>4. session.state = "ABORTED" \/ pc = "close" => p_conn \in Conn
  BY DEF ServerInv, SessionInv, SessionExclusive, OwnerInv, InServe
<1>5. deleted \subseteq Conn
  BY DEF ServerInv, TypeOK, NetTypeOK
<1>6. NothingLostAtClose'
  BY <1>1, <1>2, <1>3, <1>5 DEF NothingLostAtClose, CloseInv
<1> QED BY <1>1, <1>2, <1>3, <1>4, <1>6 DEF CloseInv, AnswerLost

LEMMA CloseStep ==
    ASSUME ServerInv, HistoryInv, NothingSkipped, AnsweredInOrder, CloseInv, [Next]_vars
    PROVE  CloseInv'
<1>0. deleted \subseteq Conn
  BY DEF ServerInv, TypeOK, NetTypeOK
<1>1. CASE Environment
  BY <1>1, CloseClients
<1>2. CASE UNCHANGED vars
  BY <1>2 DEF CloseInv, AnswerLost, NothingLostAtClose, vars, netVars, sessionVars, threadVars,
              history
<1>3. CASE OtherLocks \/ OtherReleases
  <2>1. UNCHANGED <<pc, p_conn, pending, netVars, history>>
    BY <1>3 DEF OtherLocks, OtherReleases, threadVars
  <2>2. session'.state # "ABORTED"
    <3>1. CASE OtherLocks
      <4>1. session' = [session EXCEPT !.state = "ACTIVE", !.transport = "USB_CDC"]
        BY <3>1 DEF OtherLocks, Lock
      <4>2. session \in [state     : {"IDLE", "ACTIVE", "ABORTED"},
                         transport : {"NONE", "USB_CDC", "TCP_IP"},
                         extended  : BOOLEAN, no_ack : BOOLEAN]
        BY DEF ServerInv, TypeOK
      <4> QED BY <4>1, <4>2
    <3>2. CASE OtherReleases
      BY <3>2 DEF OtherReleases, Release, IdleSession
    <3> QED BY <1>3, <3>1, <3>2
  <2>3. session.transport # "TCP_IP"
    <3>1. OtherLocks => unlocked
      BY DEF OtherLocks, Lock
    <3>2. OtherReleases => session.transport = "USB_CDC"
      BY DEF OtherReleases
    <3>3. unlocked => session.transport = "NONE"
      BY DEF ServerInv, SessionInv, SessionExclusive
    <3> QED BY <1>3, <3>1, <3>2, <3>3
  <2>4. pc # "close" /\ session.state # "ABORTED"
    BY <2>3 DEF ServerInv, SessionInv, SessionExclusive, InServe
  <2> QED BY <1>3, <2>1, <2>2, <2>4 DEF CloseInv, NothingLostAtClose, netVars, history
<1>4. CASE Accept
  <2>1. /\ UNCHANGED <<peer, sent, deleted, session, history>>
        /\ pc = "accept" /\ pc' \in {"accept", "lock"}
    BY <1>4 DEF Accept, At, sessionVars
  <2>2. session.state # "ABORTED"
    BY <2>1 DEF ServerInv, SessionInv, SessionExclusive, InServe
  <2> QED BY <2>1, <2>2 DEF CloseInv, NothingLostAtClose, history
<1>5. CASE LockSession
  <2>1. /\ UNCHANGED <<netVars, tx, taken, verdicts>> /\ served' = served \cup {p_conn}
        /\ pc' = "recv" /\ p_conn \notin deleted /\ session'.state = "ACTIVE"
    BY <1>5 DEF LockSession, Lock, At, ServerInv, SessionInv, SessionExclusive, TypeOK
  <2> QED BY <2>1 DEF CloseInv, NothingLostAtClose, netVars
<1>6. CASE Refuse
  <2>1. /\ UNCHANGED <<peer, sent, session, history>> /\ pc' = "accept" /\ pc = "lock"
        /\ deleted' = deleted \cup {p_conn} /\ p_conn \notin served
    BY <1>6 DEF Refuse, DeleteConn, At, sessionVars, HistoryInv
  <2>2. session.state # "ABORTED"
    BY <2>1 DEF ServerInv, SessionInv, SessionExclusive, InServe
  <2> QED BY <2>1, <2>2 DEF CloseInv, NothingLostAtClose, history
<1>7. CASE Close
  <2>1. /\ UNCHANGED <<peer, sent, session, p_conn, pending, history>> /\ pc' = "release"
        /\ pc = "close" /\ deleted' = deleted \cup {p_conn} /\ pending = <<>> /\ p_conn \in Conn
    BY <1>7 DEF Close, DeleteConn, At, sessionVars, ServerInv, FlowInv, SessionInv, OwnerInv,
                InServe
  <2>2. session.state = "ABORTED" => tx[p_conn] # Owed(verdicts[p_conn])
    BY <2>1, LostLengths DEF CloseInv, AnswerLost
  <2> QED BY <2>1, <2>2 DEF CloseInv, AnswerLost, NothingLostAtClose, history
<1>8. CASE ReleaseSession
  <2>1. UNCHANGED <<netVars, history>> /\ session'.state = "IDLE" /\ pc' = "accept"
    BY <1>8 DEF ReleaseSession, Release, IdleSession
  <2> QED BY <2>1 DEF CloseInv, NothingLostAtClose, netVars, history
<1>9. CASE RecvEnds
  <2>1. /\ UNCHANGED <<p_conn, session, pending, history, netVars>> /\ pc = "recv" /\ pc' = "close"
        /\ peer[p_conn] = "rst" \/ (peer[p_conn] = "fin" /\ mbox[p_conn] = <<>>)
        /\ p_conn \in Conn /\ data = <<>>
    BY <1>9 DEF RecvEnds, At, HasEnded, HasData, sessionVars, ServerInv, SessionInv, OwnerInv,
                InServe, FlowInv
  <2>2. peer[p_conn] = "fin" => session.state = "ABORTED" \/ taken[p_conn] = SentItems(sent[p_conn])
    <3> SUFFICES ASSUME peer[p_conn] = "fin", session.state # "ABORTED"
                 PROVE  taken[p_conn] = SentItems(sent[p_conn])
      OBVIOUS
    <3>1. mbox[p_conn] = <<>>
      BY <2>1
    <3>2. session.state = "ACTIVE"
      BY <2>1 DEF ServerInv, SessionInv, SessionExclusive, SessionRecord, InServe
    <3>3. taken[p_conn] \o data \o SentItems(mbox[p_conn]) = SentItems(sent[p_conn])
      BY <2>1, <3>2 DEF NothingSkipped, Serving, InServe
    <3>4. SentItems(mbox[p_conn]) = <<>>
      BY <3>1, SentItemsFacts
    <3>5. (taken[p_conn] \o <<>>) \o <<>> = taken[p_conn]
      <4>1. taken[p_conn] \in Seq(ItemNames)
        BY <2>1 DEF ServerInv, TypeOK
      <4> QED BY <4>1, ConcatEmptySeq
    <3> QED BY <2>1, <3>3, <3>4, <3>5
  <2> QED BY <2>1, <2>2 DEF CloseInv, AnswerLost, NothingLostAtClose, netVars, history
<1>10. CASE Recv
  <2>1. UNCHANGED <<peer, sent, deleted, p_conn, pending, session, history>> /\ pc' = "serve"
    BY <1>10 DEF Recv, netbuf_data, sessionVars
  <2> QED BY <2>1 DEF CloseInv, AnswerLost, NothingLostAtClose, history
<1>11. CASE HandleAsserts \/ FlushAsserts
  BY <1>11 DEF HandleAsserts, FlushAsserts, CloseInv, AnswerLost, NothingLostAtClose, netVars,
               sessionVars, history
<1>12. CASE Handle
  <2>1. PICK result, k, answers, e : Handles(result, k, answers, e)
    BY <1>12, HandleFacts
  <2>2. /\ UNCHANGED <<netVars, p_conn, served, tx>> /\ pc' \in {"handled", "flush"}
        /\ session'.state = "ACTIVE"
        /\ p_conn \notin deleted
    BY <1>12, <2>1 DEF Handle, Handles, At, ServerInv, TypeOK, SessionInv, SessionExclusive,
                       InServe
  <2>3. \A c \in Conn : c # p_conn => taken'[c] = taken[c] /\ verdicts'[c] = verdicts[c]
    BY <2>1 DEF Handles, ServerInv, TypeOK
  <2> QED BY <1>0, <2>2, <2>3 DEF CloseInv, NothingLostAtClose, netVars
<1>13. CASE Flush
  <2>1. /\ UNCHANGED <<netVars, p_conn, served, taken, verdicts, session>>
        /\ pc' \in {"handled", "flush"} /\ p_conn \notin deleted
        /\ tx' = [tx EXCEPT ![p_conn] = Append(@, Head(pending))]
    BY <1>13 DEF Flush, Flushed, NextFlush, At, ServerInv, SessionInv, SessionExclusive, InServe
  <2>2. \A c \in Conn : c # p_conn => tx'[c] = tx[c]
    BY <2>1 DEF ServerInv, TypeOK
  <2>3. session'.state = "ABORTED" => AnswerLost'
    BY <1>13, <2>1, LostOverFlush DEF CloseInv
  <2> QED BY <1>0, <2>1, <2>2, <2>3 DEF CloseInv, NothingLostAtClose, netVars
<1>14. CASE FlushFails
  <2>1. /\ UNCHANGED <<netVars, p_conn, served, taken, tx, verdicts>>
        /\ pc' \in {"handled", "flush"}
    BY <1>14 DEF FlushFails, NextFlush
  <2>2. AnswerLost'
    BY <1>14, LostByFailure
  <2> QED BY <2>1, <2>2 DEF CloseInv, NothingLostAtClose, netVars
<1>15. CASE Handled
  <2>1. /\ UNCHANGED <<netVars, p_conn, pending, session, history>>
        /\ pc' = "close" => session.state = "ABORTED"
    BY <1>15 DEF Handled, sessionVars
  <2> QED BY <2>1 DEF CloseInv, AnswerLost, NothingLostAtClose, netVars, history
<1> QED BY <1>1, <1>2, <1>3, <1>4, <1>5, <1>6, <1>7, <1>8, <1>9, <1>10, <1>11, <1>12, <1>13,
           <1>14, <1>15 DEF Next, Server

(* NothingLostAtClose: when every segment comes in one pbuf, a client that *)
(* got all its answers and closed lost nothing of what it sent, whatever   *)
(* failed for others; one whose data was given up misses an answer.        *)
THEOREM NothingLostAtCloseAlways == OnePbuf => (Spec => []NothingLostAtClose)
<1> SUFFICES ASSUME OnePbuf PROVE Spec => []NothingLostAtClose
  OBVIOUS
<1>1. Init => CloseInv
  BY DEF Init, NetInit, IdleSession, CloseInv, NothingLostAtClose
<1>2. CloseInv => NothingLostAtClose
  BY DEF CloseInv
<1>3. ServerInv /\ HistoryInv /\ NothingSkipped /\ AnsweredInOrder /\ CloseInv /\ [Next]_vars
        => CloseInv'
  BY CloseStep
<1> QED BY <1>1, <1>2, <1>3, SkippedInvariant, AnsweredInOrderAlways, PTL DEF Spec

-----------------------------------------------------------------------------
(* The server as SingleSession sees it: who waits, and who is served.      *)
Queue == (IF pc = "lock" THEN <<p_conn>> ELSE <<>>) \o Without(backlog, NULL)
Owner == IF pc \in InServe THEN p_conn ELSE NULL

LEMMA AbstractStutter ==
    ASSUME UNCHANGED <<Queue, Owner, deleted, tx>>
    PROVE  UNCHANGED Abstract!vars
BY DEF Abstract!vars, Queue, Owner

LEMMA QueueType ==
    ASSUME ServerInv
    PROVE  Without(backlog, NULL) \in Seq(Conn) /\ Queue \in Seq(Conn)
<1>1. backlog \in Seq(Conn \cup {NULL})
  BY DEF ServerInv, TypeOK, NetTypeOK
<1>2. Without(backlog, NULL) \in Seq(Conn)
  BY <1>1, WithoutType
<1>3. (IF pc = "lock" THEN <<p_conn>> ELSE <<>>) \in Seq(Conn)
  <2>1. CASE pc = "lock"
    <3>1. p_conn \in Conn
      BY <2>1 DEF ServerInv, SessionInv, OwnerInv
    <3> QED BY <2>1, <3>1
  <2>2. CASE pc # "lock"
    BY <2>2, EmptySeq
  <2> QED BY <2>1, <2>2
<1> QED BY <1>2, <1>3, ConcatProperties DEF Queue

(* A client that connects has never been here.                             *)
LEMMA AbstractConnect ==
    ASSUME ServerInv, Environment, NEW c \in Conn, Connect(c)
    PROVE  Abstract!Arrive(c)
<1>1. /\ peer[c] = "none" /\ backlog' = Append(backlog, c)
      /\ UNCHANGED <<pc, p_conn, deleted, tx>>
      /\ backlog \in Seq(Conn \cup {NULL}) /\ c # NULL
  BY NetconnAssumption DEF Connect, Environment, threadVars, history, ServerInv, TypeOK, NetTypeOK
<1>2. c # Owner /\ c \notin deleted
  BY <1>1 DEF Owner, ServerInv, SessionInv, BacklogInv, OwnerInv
<1>3. \A i \in DOMAIN Queue : Queue[i] # c
  <2> DEFINE T == Conn \ {c}
  <2>1. backlog \in Seq(T \cup {NULL})
    <3>1. /\ Len(backlog) \in Nat /\ DOMAIN backlog = 1..Len(backlog)
          /\ \A i \in 1..Len(backlog) : backlog[i] \in Conn \cup {NULL}
      BY <1>1, ElementOfSeq, LenProperties
    <3>2. \A i \in 1..Len(backlog) : backlog[i] \in T \cup {NULL}
      BY <1>1, <3>1 DEF ServerInv, SessionInv, BacklogInv
    <3> QED BY <1>1, <3>1, <3>2
  <2>2. Without(backlog, NULL) \in Seq(T)
    BY <2>1, WithoutType
  <2>3. (IF pc = "lock" THEN <<p_conn>> ELSE <<>>) \in Seq(T)
    <3>1. CASE pc = "lock"
      <4>1. p_conn \in T
        BY <1>1, <3>1 DEF ServerInv, SessionInv, OwnerInv
      <4> QED BY <3>1, <4>1
    <3>2. CASE pc # "lock"
      BY <3>2, EmptySeq
    <3> QED BY <3>1, <3>2
  <2>4. Queue \in Seq(T)
    BY <2>2, <2>3, ConcatProperties DEF Queue
  <2>5. \A i \in DOMAIN Queue : Queue[i] \in T
    BY <2>4, ElementOfSeq, LenProperties
  <2> QED BY <2>5
<1>4. Queue' = Append(Queue, c)
  <2> DEFINE a == IF pc = "lock" THEN <<p_conn>> ELSE <<>>
             w == Without(backlog, NULL)
  <2>1. Without(backlog', NULL) = Append(w, c)
    BY <1>1, WithoutAppend
  <2>2. a \in Seq(Conn) /\ w \in Seq(Conn)
    <3>1. pc = "lock" => p_conn \in Conn
      BY DEF ServerInv, SessionInv, OwnerInv
    <3>2. CASE pc = "lock"
      BY <3>1, <3>2, QueueType
    <3>3. CASE pc # "lock"
      BY <3>3, QueueType, EmptySeq
    <3> QED BY <3>2, <3>3
  <2>3. Queue' = a \o Append(w, c) /\ Queue = a \o w
    BY <1>1, <2>1 DEF Queue
  <2> HIDE DEF a, w
  <2>4. Append(w, c) = w \o <<c>> /\ Append(a \o w, c) = (a \o w) \o <<c>>
    <3>1. a \o w \in Seq(Conn)
      BY <2>2, ConcatProperties
    <3> QED BY <2>2, <3>1, AppendIsConcat
  <2>5. (a \o w) \o <<c>> = a \o (w \o <<c>>)
    <3>1. \A x, y, z \in Seq(Conn) : (x \o y) \o z = x \o (y \o z)
      BY Associative
    <3>2. <<c>> \in Seq(Conn)
      OBVIOUS
    <3> QED BY <2>2, <3>1, <3>2, Zenon
  <2> QED BY <2>3, <2>4, <2>5
<1>5. Owner' = Owner
  BY <1>1 DEF Owner
<1> QED BY <1>1, <1>2, <1>3, <1>4, <1>5 DEF Abstract!Arrive, Abstract!Known, Queue, Owner

LEMMA AbstractClients ==
    ASSUME ServerInv, Environment
    PROVE  [Abstract!Next]_(Abstract!vars)
<1>1. ASSUME NEW c \in Conn, Connect(c) PROVE Abstract!Next
  BY <1>1, AbstractConnect DEF Abstract!Next
<1>2. UNCHANGED <<pc, p_conn, tx>>
  BY DEF Environment, threadVars, history
<1>3. CASE ConnectFails
  <2>1. backlog' = Append(backlog, NULL) /\ backlog \in Seq(Conn \cup {NULL})
        /\ UNCHANGED deleted
    BY <1>3 DEF ConnectFails, ServerInv, TypeOK, NetTypeOK
  <2>2. Without(backlog', NULL) = Without(backlog, NULL)
    BY <2>1, WithoutAppend
  <2>3. UNCHANGED <<Queue, Owner>>
    BY <1>2, <2>2 DEF Queue, Owner
  <2> QED BY <1>2, <2>1, <2>3, AbstractStutter
<1>4. CASE UNCHANGED <<backlog, deleted>>
  <2>1. UNCHANGED <<Queue, Owner>>
    BY <1>2, <1>4 DEF Queue, Owner
  <2> QED BY <1>2, <1>4, <2>1, AbstractStutter
<1> QED BY <1>1, <1>3, <1>4 DEF Environment, Clients, Fin, Rst, Deliver

(* netconn_accept moves no one: the thread holds what the mailbox held.    *)
LEMMA AbstractAccept ==
    ASSUME ServerInv, Accept
    PROVE  UNCHANGED Abstract!vars
<1>1. /\ pc = "accept" /\ backlog # <<>> /\ backlog \in Seq(Conn \cup {NULL})
      /\ backlog' = Tail(backlog) /\ p_conn' = Head(backlog)
      /\ pc' = IF Head(backlog) = NULL THEN "accept" ELSE "lock"
      /\ UNCHANGED <<deleted, tx>>
  BY DEF Accept, At, history, ServerInv, TypeOK, NetTypeOK
<1>2. Without(backlog, NULL) \in Seq(Conn) /\ Without(backlog', NULL) \in Seq(Conn)
  <2>1. backlog' \in Seq(Conn \cup {NULL})
    BY <1>1, HeadTailProperties
  <2> QED BY <1>1, <2>1, WithoutType
<1>3. Queue = Without(backlog, NULL)
  BY <1>1, <1>2, ConcatEmptySeq DEF Queue
<1>4. Queue' = Queue
  <2>1. CASE Head(backlog) = NULL
    <3>1. Without(backlog, NULL) = Without(backlog', NULL)
      BY <1>1, <2>1, WithoutTail
    <3>2. Queue' = Without(backlog', NULL)
      BY <1>1, <1>2, <2>1, ConcatEmptySeq DEF Queue
    <3> QED BY <1>3, <3>1, <3>2
  <2>2. CASE Head(backlog) # NULL
    <3>1. Without(backlog, NULL) = <<Head(backlog)>> \o Without(backlog', NULL)
      BY <1>1, <2>2, WithoutTail
    <3>2. Queue' = <<Head(backlog)>> \o Without(backlog', NULL)
      BY <1>1, <2>2 DEF Queue
    <3> QED BY <1>3, <3>1, <3>2
  <2> QED BY <2>1, <2>2
<1>5. Owner' = Owner
  BY <1>1 DEF Owner, InServe
<1> QED BY <1>1, <1>4, <1>5, AbstractStutter

(* gdb_session_lock decides about the first one.                           *)
LEMMA AbstractLock ==
    ASSUME ServerInv, LockSession \/ Refuse
    PROVE  Abstract!Begin \/ Abstract!Refuse
<1>1. /\ pc = "lock" /\ p_conn \in Conn /\ pc' \in {"recv", "accept"}
      /\ UNCHANGED <<backlog, tx>>
  BY DEF LockSession, Refuse, At, netVars, history, ServerInv, SessionInv, OwnerInv
<1> DEFINE w == Without(backlog, NULL)
<1>2. w \in Seq(Conn)
  BY QueueType
<1>3. Queue = <<p_conn>> \o w /\ Owner = NULL
  BY <1>1 DEF Queue, Owner, InServe
<1>4. Queue' = w
  <2>1. Queue' = <<>> \o w
    BY <1>1 DEF Queue
  <2> QED BY <1>2, <2>1, ConcatEmptySeq
<1>5. Queue # <<>> /\ Head(Queue) = p_conn /\ Tail(Queue) = w
  <2> HIDE DEF w
  <2>1. /\ <<p_conn>> \o w # <<>> /\ Head(<<p_conn>> \o w) = p_conn
        /\ Tail(<<p_conn>> \o w) = w
    BY <1>1, <1>2, FirstAndRest
  <2> QED BY <1>3, <2>1
<1> HIDE DEF w
<1>6. CASE LockSession
  <2>1. Owner' = p_conn /\ deleted' = deleted
    BY <1>6 DEF LockSession, Owner, InServe, netVars
  <2> QED BY <1>1, <1>3, <1>4, <1>5, <2>1 DEF Abstract!Begin, Queue, Owner
<1>7. CASE Refuse
  <2>1. Owner' = NULL /\ deleted' = deleted \cup {p_conn}
    BY <1>7 DEF Refuse, DeleteConn, Owner, InServe
  <2> QED BY <1>1, <1>3, <1>4, <1>5, <2>1 DEF Abstract!Refuse, Queue, Owner
<1> QED BY <1>6, <1>7

LEMMA AbstractStep ==
    ASSUME ServerInv, [Next]_vars
    PROVE  [Abstract!Next]_(Abstract!vars)
<1>1. CASE Environment
  BY <1>1, AbstractClients
<1>2. CASE Accept
  BY <1>2, AbstractAccept
<1>3. CASE LockSession \/ Refuse
  BY <1>3, AbstractLock DEF Abstract!Next
<1>4. CASE Flush
  <2>1. /\ pc = "flush" /\ p_conn \in Conn /\ pending # <<>> /\ Head(pending) # Start
        /\ pending \in Seq(Outputs \cup {Start}) /\ p_conn # NULL
        /\ tx' = [tx EXCEPT ![p_conn] = Append(@, Head(pending))]
        /\ pc' \in {"handled", "flush"} /\ UNCHANGED <<netVars, p_conn>>
    BY <1>4, NetconnAssumption DEF Flush, NextFlush, At, ServerInv, TypeOK, SessionInv, OwnerInv,
                                   InServe, FlowInv
  <2>2. Head(pending) \in Outputs
    BY <2>1, HeadTailProperties
  <2>3. Owner = p_conn /\ Owner' = p_conn /\ Queue' = Queue /\ deleted' = deleted
    BY <2>1 DEF Owner, Queue, InServe, netVars
  <2>4. Abstract!Speak(Head(pending))
    BY <2>1, <2>3 DEF Abstract!Speak, Queue, Owner
  <2> QED BY <2>2, <2>4 DEF Abstract!Next
<1>5. CASE Close
  <2>1. /\ pc = "close" /\ p_conn \in Conn /\ p_conn # NULL /\ pc' = "release"
        /\ deleted' = deleted \cup {p_conn} /\ UNCHANGED <<backlog, tx, p_conn>>
    BY <1>5, NetconnAssumption DEF Close, DeleteConn, At, history, ServerInv, SessionInv, OwnerInv,
                                   InServe
  <2>2. Owner = p_conn /\ Owner' = NULL /\ Queue' = Queue
    BY <2>1 DEF Owner, Queue, InServe
  <2>3. Abstract!End
    BY <2>1, <2>2 DEF Abstract!End, Queue, Owner
  <2> QED BY <2>3 DEF Abstract!Next
<1>6. CASE Recv \/ RecvEnds \/ Handle \/ HandleAsserts \/ FlushFails \/ FlushAsserts \/ Handled
           \/ ReleaseSession \/ OtherLocks \/ OtherReleases \/ UNCHANGED vars
  <2>1. /\ UNCHANGED <<backlog, deleted, tx>>
        /\ \/ UNCHANGED <<pc, p_conn>>
           \/ pc \in InServe /\ pc' \in InServe /\ p_conn' = p_conn
           \/ pc = "release" /\ pc' = "accept"
    BY <1>6 DEF Recv, RecvEnds, Handle, HandleAsserts, FlushFails, NextFlush, FlushAsserts,
                Handled, ReleaseSession, OtherLocks, OtherReleases, vars, netVars, threadVars,
                history, At, InServe
  <2>2. Queue' = Queue /\ Owner' = Owner
    BY <2>1 DEF Queue, Owner, InServe
  <2> QED BY <2>1, <2>2, AbstractStutter
<1> QED BY <1>1, <1>2, <1>3, <1>4, <1>5, <1>6 DEF Next, Server

(* ImplementsSingleSession: with all its interleavings, failures and the   *)
(* competing transport, the server does for its clients what SingleSession *)
(* does, step by step.                                                     *)
THEOREM ImplementsSingleSessionAlways == Spec => ImplementsSingleSession
<1>1. Init => Abstract!Init
  <2> SUFFICES ASSUME Init PROVE Abstract!Init
    OBVIOUS
  <2>1. pc = "accept" /\ backlog = <<>> /\ deleted = {} /\ tx = [c \in Conn |-> <<>>]
    BY DEF Init, NetInit
  <2>2. Queue = <<>>
    <3>1. <<>> \o <<>> = <<>>
      BY EmptySeq, ConcatEmptySeq
    <3> QED BY <2>1, <3>1, WithoutEmpty DEF Queue
  <2>3. Owner = NULL
    BY <2>1 DEF Owner, InServe
  <2> QED BY <2>1, <2>2, <2>3 DEF Abstract!Init, Queue, Owner
<1>2. ServerInv /\ [Next]_vars => [Abstract!Next]_(Abstract!vars)
  BY AbstractStep
<1> QED BY <1>1, <1>2, ServerInvariant, PTL DEF Spec, ImplementsSingleSession, Abstract!Spec
=============================================================================
