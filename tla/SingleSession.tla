--------------------------- MODULE SingleSession ---------------------------
(***************************************************************************)
(* What the GDB server promises its clients, with no thread, lock, packet  *)
(* or mailbox in sight: clients wait in the order they came; the one at    *)
(* the front gets the session if nobody has it, or is turned away; only    *)
(* the owner is spoken to; a connection that is done stays done.           *)
(***************************************************************************)
EXTENDS Integers, Sequences, FiniteSets

CONSTANTS Conn, NULL,
          Output       \* what a client may be told

VARIABLES waiting,     \* connections nobody has looked at yet
          owner,       \* the connection that has the session, or NULL
          done,        \* connections that are closed
          talk         \* what each client was told

vars == <<waiting, owner, done, talk>>

Init ==
    /\ waiting = <<>> /\ owner = NULL /\ done = {}
    /\ talk = [c \in Conn |-> <<>>]

Known(c) == c = owner \/ c \in done \/ \E i \in DOMAIN waiting : waiting[i] = c

Arrive(c) ==
    /\ ~Known(c)
    /\ waiting' = Append(waiting, c)
    /\ UNCHANGED <<owner, done, talk>>

Begin ==
    /\ owner = NULL /\ waiting # <<>>
    /\ owner' = Head(waiting)
    /\ waiting' = Tail(waiting)
    /\ UNCHANGED <<done, talk>>

Refuse ==
    /\ waiting # <<>>
    /\ done' = done \cup {Head(waiting)}
    /\ waiting' = Tail(waiting)
    /\ UNCHANGED <<owner, talk>>

Speak(x) ==
    /\ owner # NULL
    /\ talk' = [talk EXCEPT ![owner] = Append(@, x)]
    /\ UNCHANGED <<waiting, owner, done>>

End ==
    /\ owner # NULL
    /\ done' = done \cup {owner}
    /\ owner' = NULL
    /\ UNCHANGED <<waiting, talk>>

Next ==
    \/ \E c \in Conn : Arrive(c)
    \/ Begin \/ Refuse \/ End
    \/ \E x \in Output : Speak(x)

Spec == Init /\ [][Next]_vars
=============================================================================
