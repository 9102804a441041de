---------------------------- MODULE SessionLock ----------------------------
(***************************************************************************)
(* gdb_session_init, gdb_session_lock, gdb_session_handle and              *)
(* gdb_session_release (firmware/source/gdb/gdb_session.c), statement by   *)
(* statement, called by one thread per transport after main has started    *)
(* the system.  GdbServer takes the lock and gives it back in one step     *)
(* each; here any thread may run between two statements.                   *)
(*                                                                         *)
(* pc[t] names the statement thread t executes next:                       *)
(*   main     "gpio", "leds", "object_init", then a release, "started";    *)
(*   lock     "idle", "init_packets", "set_state", "set_transport",        *)
(*            "set_write_cb", "amber_on", then "owned";                    *)
(*   handle   "handling", then "owned" again;                              *)
(*   release  "clear_properties", "clear_transport", "clear_state",        *)
(*            "signal", "amber_off".                                       *)
(***************************************************************************)
EXTENDS FiniteSets

CONSTANTS Transports,   \* transports with a thread of their own
          TCP_IP,       \* GDB_SESSION_TRANSPORT_TCP_IP
          Main,         \* the main thread
          NoOne,        \* GDB_SESSION_TRANSPORT_NONE, and no callback
          Properties    \* b_is_extended_remote, b_non_stop, b_no_ack_mode

ASSUME LockAssumption ==
    /\ TCP_IP \in Transports
    /\ Main \notin Transports /\ NoOne \notin Transports /\ Main # NoOne

VARIABLES pc,
          lock,         \* g_gdb_session.lock: "raw" memory, "taken", "free"
          session,      \* the other members of g_gdb_session
          amber, green, \* the LED lines
          writer        \* history: who wrote the amber line last

sessionVars == <<pc, lock, session, amber, green, writer>>

Threads == Transports \cup {Main}

Goto(t, label) == pc' = [pc EXCEPT ![t] = label]

(* g_gdb_session lies in zeroed memory; the LED lines are low after reset. *)
SessionInit ==
    /\ pc = [t \in Threads |-> IF t = Main THEN "gpio" ELSE "absent"]
    /\ lock = "raw"
    /\ session = [packets |-> "none", state |-> "IDLE", transport |-> NoOne,
                  write_cb |-> NoOne, properties |-> {}]
    /\ amber = FALSE /\ green = FALSE
    /\ writer = NoOne
-----------------------------------------------------------------------------
(* main                                                                    *)

(* The pin setup drives the LED lines high until main clears them.         *)
LightLeds ==
    /\ pc[Main] = "gpio"
    /\ amber' = TRUE /\ green' = TRUE
    /\ Goto(Main, "leds")
    /\ UNCHANGED <<lock, session, writer>>

ClearLeds ==
    /\ pc[Main] = "leds"
    /\ amber' = FALSE /\ green' = FALSE
    /\ Goto(Main, "object_init")
    /\ UNCHANGED <<lock, session, writer>>

(* gdb_session_init: the semaphore is created taken, and then released.    *)
ObjectInit ==
    /\ pc[Main] = "object_init"
    /\ lock' = "taken"
    /\ Goto(Main, "clear_properties")
    /\ UNCHANGED <<session, amber, green, writer>>

(* The thread of a transport comes into being ...                          *)
Begin(t) ==
    /\ pc[t] = "absent"
    /\ Goto(t, "idle")
    /\ UNCHANGED <<lock, session, amber, green, writer>>

(* ... and main creates it, or what creates it, after gdb_session_init.    *)
StartThread(t) == pc[Main] = "started" /\ Begin(t)
-----------------------------------------------------------------------------
(* gdb_session_lock                                                        *)

(* Mutant: the state is tested in place of the semaphore.                  *)
TryLock_ByState(t) ==
    /\ pc[t] = "idle" /\ session.state = "IDLE"
    /\ lock' = "taken"
    /\ Goto(t, "init_packets")
    /\ UNCHANGED <<session, amber, green, writer>>

(* chBSemWaitTimeout with TIME_IMMEDIATE; if it fails nothing changes.     *)
TryLock(t) ==
    /\ pc[t] = "idle" /\ lock = "free"
    /\ lock' = "taken"
    /\ Goto(t, "init_packets")
    /\ UNCHANGED <<session, amber, green, writer>>

(* Both packets, which only the owner of the lock reads.                   *)
InitPackets(t) ==
    /\ pc[t] = "init_packets"
    /\ session' = [session EXCEPT !.packets = "init"]
    /\ Goto(t, "set_state")
    /\ UNCHANGED <<lock, amber, green, writer>>

SetState(t) ==
    /\ pc[t] = "set_state"
    /\ session' = [session EXCEPT !.state = "ACTIVE"]
    /\ Goto(t, "set_transport")
    /\ UNCHANGED <<lock, amber, green, writer>>

SetTransport(t) ==
    /\ pc[t] = "set_transport"
    /\ session' = [session EXCEPT !.transport = t]
    /\ Goto(t, "set_write_cb")
    /\ UNCHANGED <<lock, amber, green, writer>>

SetWriteCb(t) ==
    /\ pc[t] = "set_write_cb"
    /\ session' = [session EXCEPT !.write_cb = t]
    /\ Goto(t, "amber_on")
    /\ UNCHANGED <<lock, amber, green, writer>>

AmberOn(t) ==
    /\ pc[t] = "amber_on"
    /\ amber' = TRUE /\ writer' = t
    /\ Goto(t, "owned")
    /\ UNCHANGED <<lock, session, green>>
-----------------------------------------------------------------------------
(* gdb_session_handle, and gdb_session_flush within it                     *)

(* The assertion "Session inactive." stops the system, and every thread.   *)
BeginHandle(t) ==
    /\ pc[t] = "owned" /\ session.state = "ACTIVE"
    /\ green' = TRUE
    /\ Goto(t, "handling")
    /\ UNCHANGED <<lock, session, amber, writer>>

SwitchOn(t, property) ==
    /\ pc[t] = "handling"
    /\ session' = [session EXCEPT !.packets = "used", !.properties = @ \cup {property}]
    /\ UNCHANGED <<pc, lock, amber, green, writer>>

WriteFails(t) ==
    /\ pc[t] = "handling"
    /\ session' = [session EXCEPT !.packets = "used",
                                  !.state = IF session.transport = TCP_IP
                                            THEN "ABORTED" ELSE @]
    /\ UNCHANGED <<pc, lock, amber, green, writer>>

EndHandle(t) ==
    /\ pc[t] = "handling"
    /\ green' = FALSE
    /\ Goto(t, "owned")
    /\ UNCHANGED <<lock, session, amber, writer>>
-----------------------------------------------------------------------------
(* gdb_session_release                                                     *)

BeginRelease(t) ==
    /\ pc[t] = "owned"
    /\ Goto(t, "clear_properties")
    /\ UNCHANGED <<lock, session, amber, green, writer>>

(* Mutant: the properties are left alone.                                  *)
ClearProperties_Skipped(t) ==
    /\ pc[t] = "clear_properties"
    /\ Goto(t, "clear_transport")
    /\ UNCHANGED <<lock, session, amber, green, writer>>

(* Three statements; only the owner of the lock reads what they write.     *)
ClearProperties(t) ==
    /\ pc[t] = "clear_properties"
    /\ session' = [session EXCEPT !.properties = {}]
    /\ Goto(t, "clear_transport")
    /\ UNCHANGED <<lock, amber, green, writer>>

ClearTransport(t) ==
    /\ pc[t] = "clear_transport"
    /\ session' = [session EXCEPT !.transport = NoOne]
    /\ Goto(t, "clear_state")
    /\ UNCHANGED <<lock, amber, green, writer>>

ClearState(t) ==
    /\ pc[t] = "clear_state"
    /\ session' = [session EXCEPT !.state = "IDLE"]
    /\ Goto(t, "signal")
    /\ UNCHANGED <<lock, amber, green, writer>>

Signal(t) ==
    /\ pc[t] = "signal"
    /\ lock' = "free"
    /\ Goto(t, "amber_off")
    /\ UNCHANGED <<session, amber, green, writer>>

(* Mutant: the LED is not cleared.                                         *)
AmberOff_Forgotten(t) ==
    /\ pc[t] = "amber_off"
    /\ Goto(t, IF t = Main THEN "started" ELSE "idle")
    /\ UNCHANGED <<lock, session, amber, green, writer>>

AmberOff(t) ==
    /\ pc[t] = "amber_off"
    /\ amber' = FALSE /\ writer' = t
    /\ Goto(t, IF t = Main THEN "started" ELSE "idle")
    /\ UNCHANGED <<lock, session, green>>
-----------------------------------------------------------------------------
LockSteps(t) ==
    \/ TryLock(t) \/ InitPackets(t) \/ SetState(t)
    \/ SetTransport(t) \/ SetWriteCb(t) \/ AmberOn(t)

HandleSteps(t) ==
    \/ BeginHandle(t) \/ WriteFails(t) \/ EndHandle(t)
    \/ \E property \in Properties : SwitchOn(t, property)

ReleaseSteps(t) ==
    \/ ClearProperties(t) \/ ClearTransport(t) \/ ClearState(t)
    \/ Signal(t) \/ AmberOff(t)

TransportSteps(t) ==
    StartThread(t) \/ LockSteps(t) \/ HandleSteps(t) \/ BeginRelease(t) \/ ReleaseSteps(t)

MainSteps == LightLeds \/ ClearLeds \/ ObjectInit \/ ReleaseSteps(Main)

SessionNext == MainSteps \/ \E t \in Transports : TransportSteps(t)

SessionSpec == SessionInit /\ [][SessionNext]_sessionVars
-----------------------------------------------------------------------------
(* Terms of the properties                                                 *)

Locking   == {"init_packets", "set_state", "set_transport", "set_write_cb"}
InSession == {"amber_on", "owned", "handling"}
Releasing == {"clear_properties", "clear_transport", "clear_state", "signal"}
Booting   == {"gpio", "leds", "object_init"}

(* The labels between the two semaphore calls.                             *)
Holding == Locking \cup InSession \cup Releasing

Labels == Holding \cup Booting \cup {"absent", "idle", "amber_off", "started"}

SessionTypeOK ==
    /\ pc \in [Threads -> Labels]
    /\ lock \in {"raw", "taken", "free"}
    /\ session \in [packets    : {"none", "init", "used"},
                    state      : {"IDLE", "ACTIVE", "ABORTED"},
                    transport  : Transports \cup {NoOne},
                    write_cb   : Transports \cup {NoOne},
                    properties : SUBSET Properties]
    /\ amber \in BOOLEAN /\ green \in BOOLEAN
    /\ writer \in Threads \cup {NoOne}

(* One thread at a time is between the two semaphore calls, and no thread  *)
(* asks for the semaphore before main has made it.                         *)
OneHolder ==
    /\ \A t, u \in Threads : pc[t] \in Holding /\ pc[u] \in Holding => t = u
    /\ \A t \in Threads : pc[t] \in Holding => lock = "taken"
    /\ \A t \in Transports : lock = "raw" => pc[t] = "absent"

(* From the end of gdb_session_lock to the start of gdb_session_release    *)
(* the session is the thread's own: no statement of another thread's lock  *)
(* or release touches it, and only TCP's failed writes abort it.           *)
SessionIsOwn ==
    \A t \in Transports : pc[t] \in InSession =>
        /\ session.transport = t /\ session.write_cb = t
        /\ session.state \in {"ACTIVE", "ABORTED"}
        /\ session.state = "ABORTED" => t = TCP_IP

(* A session begins with new packets, active, and without a mode of an     *)
(* earlier one; nobody else runs handlers meanwhile.                       *)
SessionBeginsFresh ==
    \A t \in Transports : pc[t] = "amber_on" =>
        /\ session.packets = "init" /\ session.state = "ACTIVE"
        /\ session.properties = {}
        /\ ~green

(* The amber LED is never left on without a session: whoever switched it   *)
(* on is on the way to clearing it.  And an owner's LED is off only        *)
(* because another transport, which had given the lock back before,        *)
(* cleared it late.                                                        *)
AmberExplained ==
    /\ amber => \/ pc[Main] = "leds"
                \/ \E t \in Transports : pc[t] \in {"owned", "handling", "amber_off"} \cup Releasing
    /\ \A t \in Transports : pc[t] \in {"owned", "handling"} \cup Releasing =>
           amber \/ writer \in Transports \ {t}

(* With the one transport the firmware is built with, the LED shows the    *)
(* session.                                                                *)
AmberShowsSession ==
    \A t \in Transports : Transports = {t} /\ pc[t] \in {"owned", "handling"} => amber
-----------------------------------------------------------------------------
(* The statements implement AtomicSession: the session changes hands when  *)
(* the last member is set and when the first one is cleared.               *)
Owned == \E t \in Transports : pc[t] \in InSession

owner == IF Owned THEN session.transport ELSE NoOne

record == [state      |-> IF Owned THEN session.state ELSE "IDLE",
           properties |-> IF Owned THEN session.properties ELSE {}]

Atomic == INSTANCE AtomicSession

(* Whatever threads do between two statements, transports see              *)
(* AtomicSession.                                                          *)
ImplementsAtomicSession == Atomic!Spec
=============================================================================
