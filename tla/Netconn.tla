------------------------------ MODULE Netconn ------------------------------
(***************************************************************************)
(* The lwIP netconn layer and the GDB clients behind it, as network.c uses *)
(* them.  lwIP is not part of the repository's own sources: these actions  *)
(* say what its calls may find, not how it finds it.                       *)
(*                                                                         *)
(* A netbuf is a sequence of pbufs, a pbuf a non-empty sequence of item    *)
(* names.  lwIP chains pbufs when segments arrive out of order or faster   *)
(* than the thread reads.                                                  *)
(***************************************************************************)
EXTENDS Integers, Sequences, SequencesExt

CONSTANTS Conn,            \* the connections clients open, each once
          NULL,            \* no netconn
          ItemNames,       \* the items clients send
          Netbufs,         \* the netbufs they may arrive in
          MaxNetbufs,      \* netbufs received on one connection
          AcceptMboxSize,  \* DEFAULT_ACCEPTMBOX_SIZE
          PeerMayReset,    \* a client may reset its connection
          PcbMayRunOut     \* a client may come when no PCB is left

ASSUME NetconnAssumption ==
    /\ NULL \notin Conn
    /\ Netbufs \subseteq Seq(Seq(ItemNames) \ {<<>>}) \ {<<>>}
    /\ MaxNetbufs \in Nat
    /\ AcceptMboxSize \in Nat \ {0}
    /\ PeerMayReset \in BOOLEAN /\ PcbMayRunOut \in BOOLEAN

VARIABLES peer,      \* what each client has done
          backlog,   \* the listening netconn's accept mailbox
          mbox,      \* each netconn's receive mailbox
          sent,      \* history: the netbufs received on each connection
          deleted    \* netconns the server has closed and deleted

netVars == <<peer, backlog, mbox, sent, deleted>>

NetInit ==
    /\ peer    = [c \in Conn |-> "none"]
    /\ backlog = <<>>
    /\ mbox    = [c \in Conn |-> <<>>]
    /\ sent    = [c \in Conn |-> <<>>]
    /\ deleted = {}

(* The handshake completes in the lwIP thread, whatever the server does.   *)
Connect(c) ==
    /\ peer[c] = "none"
    /\ Len(backlog) < AcceptMboxSize
    /\ peer' = [peer EXCEPT ![c] = "up"]
    /\ backlog' = Append(backlog, c)
    /\ UNCHANGED <<mbox, sent, deleted>>

(* Out of PCBs, lwIP leaves an error in the accept mailbox (one at a time  *)
(* here).                                                                  *)
ConnectFails ==
    /\ PcbMayRunOut
    /\ Len(backlog) < AcceptMboxSize
    /\ ~Contains(backlog, NULL)
    /\ backlog' = Append(backlog, NULL)
    /\ UNCHANGED <<peer, mbox, sent, deleted>>

Deliver(c, netbuf) ==
    /\ peer[c] = "up" /\ c \notin deleted
    /\ Len(sent[c]) < MaxNetbufs
    /\ mbox' = [mbox EXCEPT ![c] = Append(@, netbuf)]
    /\ sent' = [sent EXCEPT ![c] = Append(@, netbuf)]
    /\ UNCHANGED <<peer, backlog, deleted>>

Fin(c) ==
    /\ peer[c] = "up" /\ c \notin deleted
    /\ peer' = [peer EXCEPT ![c] = "fin"]
    /\ UNCHANGED <<backlog, mbox, sent, deleted>>

(* A reset may overtake what is still in the mailbox.                      *)
Rst(c) ==
    /\ PeerMayReset
    /\ peer[c] \in {"up", "fin"} /\ c \notin deleted
    /\ peer' = [peer EXCEPT ![c] = "rst"]
    /\ UNCHANGED <<backlog, mbox, sent, deleted>>

(* netconn_close and netconn_delete.                                       *)
DeleteConn(c) ==
    /\ deleted' = deleted \cup {c}
    /\ mbox' = [mbox EXCEPT ![c] = <<>>]
    /\ UNCHANGED <<peer, sent>>

(* netconn_recv finds data, or the end of the connection.                  *)
HasData(c) == mbox[c] # <<>>
HasEnded(c) == peer[c] = "rst" \/ (peer[c] = "fin" /\ ~HasData(c))

Clients ==
    \/ ConnectFails
    \/ \E c \in Conn : \/ Connect(c) \/ Fin(c) \/ Rst(c)
                       \/ \E netbuf \in Netbufs : Deliver(c, netbuf)

NetTypeOK ==
    /\ peer \in [Conn -> {"none", "up", "fin", "rst"}]
    /\ backlog \in Seq(Conn \cup {NULL}) /\ Len(backlog) <= AcceptMboxSize
    /\ mbox \in [Conn -> Seq(Seq(Seq(ItemNames)))]
    /\ sent \in [Conn -> Seq(Seq(Seq(ItemNames)))]
    /\ deleted \subseteq Conn
=============================================================================
