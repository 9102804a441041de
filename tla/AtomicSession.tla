--------------------------- MODULE AtomicSession ---------------------------
(***************************************************************************)
(* What gdb_session_lock and gdb_session_release promise a transport, with *)
(* no semaphore and no statement in sight: nobody or one transport has the *)
(* session; it gets a new one in a single step, is the only one to change  *)
(* it, and leaves nothing of it behind.                                    *)
(***************************************************************************)
CONSTANTS Transports,
          TCP_IP,        \* the one whose session a failed write aborts
          Properties,    \* the modes a command may switch on
          NoOne

VARIABLES owner,         \* the transport that has the session, or NoOne
          record         \* what the session knows

vars == <<owner, record>>

Idle  == [state |-> "IDLE", properties |-> {}]
Fresh == [state |-> "ACTIVE", properties |-> {}]

Init == owner = NoOne /\ record = Idle

Acquire(t) ==
    /\ owner = NoOne
    /\ owner' = t
    /\ record' = Fresh

SwitchOn(t, property) ==
    /\ owner = t
    /\ record' = [record EXCEPT !.properties = @ \cup {property}]
    /\ UNCHANGED owner

Abort(t) ==
    /\ owner = t /\ t = TCP_IP
    /\ record' = [record EXCEPT !.state = "ABORTED"]
    /\ UNCHANGED owner

Release(t) ==
    /\ owner = t
    /\ owner' = NoOne
    /\ record' = Idle

Next ==
    \E t \in Transports :
        \/ Acquire(t) \/ Abort(t) \/ Release(t)
        \/ \E property \in Properties : SwitchOn(t, property)

Spec == Init /\ [][Next]_vars
=============================================================================
