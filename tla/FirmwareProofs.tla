--------------------------- MODULE FirmwareProofs ---------------------------
(***************************************************************************)
(* The discipline of the session lock at statement granularity, for any    *)
(* set of transports and any set of session properties, the proof that     *)
(* SessionLock implements AtomicSession, and the proof that the firmware's *)
(* threads use the session as SessionLock says, so that its results are    *)
(* results about the firmware.                                             *)
(***************************************************************************)
EXTENDS Firmware, CommonLemmas

(* Before main is done no transport has a thread; a transport never runs   *)
(* main's statements.                                                      *)
BootInv ==
    /\ pc[Main] \in Booting \cup Releasing \cup {"amber_off", "started"}
    /\ pc[Main] # "started" => \A t \in Transports : pc[t] = "absent"
    /\ \A t \in Transports : pc[t] \notin Booting \cup {"started"}
    /\ lock = "raw" <=> pc[Main] \in Booting

(* What the owner of the lock knows of the session, by the statement it is *)
(* at; what the next owner will find when the lock is not taken.           *)
ContentInv ==
    /\ \A t \in Transports :
          /\ pc[t] \in {"set_state", "set_transport", "set_write_cb", "amber_on"} =>
                session.packets = "init"
          /\ pc[t] \in {"set_transport", "set_write_cb", "amber_on"} => session.state = "ACTIVE"
          /\ pc[t] \in {"set_write_cb"} \cup InSession => session.transport = t
          /\ pc[t] \in InSession =>
                /\ session.write_cb = t
                /\ session.state \in {"ACTIVE", "ABORTED"}
                /\ session.state = "ABORTED" => t = TCP_IP
          /\ pc[t] \in Locking \cup {"amber_on"} => session.properties = {}
    /\ \A t \in Threads :
          pc[t] \in {"clear_transport", "clear_state", "signal"} => session.properties = {}
    /\ lock # "taken" => session.properties = {}

(* The green LED is on in the boot or in a handler.                        *)
GreenInv == green => pc[Main] = "leds" \/ \E t \in Transports : pc[t] = "handling"

IInv == SessionTypeOK /\ OneHolder /\ BootInv /\ ContentInv /\ GreenInv /\ AmberExplained
-----------------------------------------------------------------------------
(* Memory and lines after reset.                                           *)
LEMMA InitEstablishes == SessionInit => IInv
<1> SUFFICES ASSUME SessionInit PROVE IInv
  OBVIOUS
<1> USE LockAssumption DEF SessionInit
<1>1. /\ pc \in [Threads -> Labels]
      /\ pc[Main] = "gpio" /\ \A t \in Transports : pc[t] = "absent"
  BY DEF Threads, Labels, Booting
<1>2. /\ session.properties = {}
      /\ session \in [packets    : {"none", "init", "used"},
                      state      : {"IDLE", "ACTIVE", "ABORTED"},
                      transport  : Transports \cup {NoOne},
                      write_cb   : Transports \cup {NoOne},
                      properties : SUBSET Properties]
  OBVIOUS
<1>3. SessionTypeOK
  BY <1>1, <1>2 DEF SessionTypeOK
<1>4. OneHolder /\ BootInv /\ GreenInv
  BY <1>1 DEF OneHolder, BootInv, GreenInv, Threads, Holding, Locking, InSession, Releasing, Booting
<1>5. ContentInv /\ AmberExplained
  BY <1>1, <1>2 DEF ContentInv, AmberExplained, Threads, Locking, InSession, Releasing
<1> QED BY <1>3, <1>4, <1>5 DEF IInv

(* gdb_session_lock: the members are set one by one, by the one holder.    *)
LEMMA LockStep ==
    ASSUME IInv, NEW t \in Transports, LockSteps(t)
    PROVE  IInv'
<1> USE LockAssumption
    DEF IInv, SessionTypeOK, OneHolder, BootInv, ContentInv, GreenInv, AmberExplained,
        Goto, Threads, Labels, Holding, Locking, InSession, Releasing, Booting
<1>1. CASE TryLock(t)
  <2>1. SessionTypeOK'
    BY <1>1 DEF TryLock
  <2>2. OneHolder' /\ BootInv'
    BY <1>1 DEF TryLock
  <2>3. ContentInv'
    BY <1>1 DEF TryLock
  <2>4. GreenInv' /\ AmberExplained'
    BY <1>1 DEF TryLock
  <2> QED BY <2>1, <2>2, <2>3, <2>4
<1>2. CASE InitPackets(t)
  <2>1. SessionTypeOK'
    BY <1>2 DEF InitPackets
  <2>2. OneHolder' /\ BootInv'
    BY <1>2 DEF InitPackets
  <2>3. ContentInv'
    BY <1>2 DEF InitPackets
  <2>4. GreenInv' /\ AmberExplained'
    BY <1>2 DEF InitPackets
  <2> QED BY <2>1, <2>2, <2>3, <2>4
<1>3. CASE SetState(t)
  <2>1. SessionTypeOK'
    BY <1>3 DEF SetState
  <2>2. OneHolder' /\ BootInv'
    BY <1>3 DEF SetState
  <2>3. ContentInv'
    BY <1>3 DEF SetState
  <2>4. GreenInv' /\ AmberExplained'
    BY <1>3 DEF SetState
  <2> QED BY <2>1, <2>2, <2>3, <2>4
<1>4. CASE SetTransport(t)
  <2>1. SessionTypeOK'
    BY <1>4 DEF SetTransport
  <2>2. OneHolder' /\ BootInv'
    BY <1>4 DEF SetTransport
  <2>3. ContentInv'
    BY <1>4 DEF SetTransport
  <2>4. GreenInv' /\ AmberExplained'
    BY <1>4 DEF SetTransport
  <2> QED BY <2>1, <2>2, <2>3, <2>4
<1>5. CASE SetWriteCb(t)
  <2>1. SessionTypeOK'
    BY <1>5 DEF SetWriteCb
  <2>2. OneHolder' /\ BootInv'
    BY <1>5 DEF SetWriteCb
  <2>3. ContentInv'
    BY <1>5 DEF SetWriteCb
  <2>4. GreenInv' /\ AmberExplained'
    BY <1>5 DEF SetWriteCb
  <2> QED BY <2>1, <2>2, <2>3, <2>4
<1>6. CASE AmberOn(t)
  <2>1. SessionTypeOK'
    BY <1>6 DEF AmberOn
  <2>2. OneHolder' /\ BootInv'
    BY <1>6 DEF AmberOn
  <2>3. ContentInv'
    BY <1>6 DEF AmberOn
  <2>4. GreenInv' /\ AmberExplained'
    BY <1>6 DEF AmberOn
  <2> QED BY <2>1, <2>2, <2>3, <2>4
<1> QED BY <1>1, <1>2, <1>3, <1>4, <1>5, <1>6 DEF LockSteps

(* gdb_session_handle leaves the lock alone and changes the owner's own.   *)
LEMMA HandleStep ==
    ASSUME IInv, NEW t \in Transports, HandleSteps(t)
    PROVE  IInv'
<1> USE LockAssumption
    DEF IInv, SessionTypeOK, OneHolder, BootInv, ContentInv, GreenInv, AmberExplained,
        Goto, Threads, Labels, Holding, Locking, InSession, Releasing, Booting
<1>1. CASE BeginHandle(t)
  <2>1. SessionTypeOK'
    BY <1>1 DEF BeginHandle
  <2>2. OneHolder' /\ BootInv'
    BY <1>1 DEF BeginHandle
  <2>3. ContentInv'
    BY <1>1 DEF BeginHandle
  <2>4. GreenInv' /\ AmberExplained'
    BY <1>1 DEF BeginHandle
  <2> QED BY <2>1, <2>2, <2>3, <2>4
<1>2. CASE WriteFails(t)
  <2>1. /\ pc' = pc /\ pc[t] = "handling" /\ lock' = lock
        /\ session'.transport = t /\ session'.write_cb = t
        /\ session'.state = "ABORTED" => t = TCP_IP
        /\ session'.state \in {"ACTIVE", "ABORTED"}
        /\ session'.properties = session.properties
    BY <1>2 DEF WriteFails
  <2>2. \A u \in Threads : pc[u] \in Holding => u = t
    BY <2>1
  <2>3. SessionTypeOK'
    BY <1>2 DEF WriteFails
  <2>4. ContentInv'
    BY <2>1, <2>2
  <2>5. OneHolder' /\ BootInv' /\ GreenInv' /\ AmberExplained'
    BY <1>2 DEF WriteFails
  <2> QED BY <2>3, <2>4, <2>5
<1>3. CASE EndHandle(t)
  <2>1. SessionTypeOK' /\ GreenInv'
    BY <1>3 DEF EndHandle
  <2>2. OneHolder' /\ BootInv'
    BY <1>3 DEF EndHandle
  <2>3. ContentInv'
    BY <1>3 DEF EndHandle
  <2>4. AmberExplained'
    BY <1>3 DEF EndHandle
  <2> QED BY <2>1, <2>2, <2>3, <2>4
<1>4. ASSUME NEW property \in Properties, SwitchOn(t, property) PROVE IInv'
  <2>1. SessionTypeOK'
    BY <1>4 DEF SwitchOn
  <2>2. OneHolder' /\ BootInv'
    BY <1>4 DEF SwitchOn
  <2>3. ContentInv'
    BY <1>4 DEF SwitchOn
  <2>4. GreenInv' /\ AmberExplained'
    BY <1>4 DEF SwitchOn
  <2> QED BY <2>1, <2>2, <2>3, <2>4
<1> QED BY <1>1, <1>2, <1>3, <1>4 DEF HandleSteps

(* gdb_session_release, by an owner or by main.                            *)
LEMMA ReleaseStep ==
    ASSUME IInv, NEW t \in Threads, ReleaseSteps(t)
    PROVE  IInv'
<1> USE LockAssumption
    DEF IInv, SessionTypeOK, OneHolder, BootInv, ContentInv, GreenInv, AmberExplained,
        Goto, Threads, Labels, Holding, Locking, InSession, Releasing, Booting
<1>1. CASE ClearProperties(t)
  <2>1. SessionTypeOK'
    BY <1>1 DEF ClearProperties
  <2>2. OneHolder' /\ BootInv'
    BY <1>1 DEF ClearProperties
  <2>3. ContentInv'
    BY <1>1 DEF ClearProperties
  <2>4. GreenInv' /\ AmberExplained'
    BY <1>1 DEF ClearProperties
  <2> QED BY <2>1, <2>2, <2>3, <2>4
<1>2. CASE ClearTransport(t)
  <2>1. SessionTypeOK'
    BY <1>2 DEF ClearTransport
  <2>2. OneHolder' /\ BootInv'
    BY <1>2 DEF ClearTransport
  <2>3. ContentInv'
    BY <1>2 DEF ClearTransport
  <2>4. GreenInv' /\ AmberExplained'
    BY <1>2 DEF ClearTransport
  <2> QED BY <2>1, <2>2, <2>3, <2>4
<1>3. CASE ClearState(t)
  <2>1. SessionTypeOK'
    BY <1>3 DEF ClearState
  <2>2. OneHolder' /\ BootInv'
    BY <1>3 DEF ClearState
  <2>3. ContentInv'
    BY <1>3 DEF ClearState
  <2>4. GreenInv' /\ AmberExplained'
    BY <1>3 DEF ClearState
  <2> QED BY <2>1, <2>2, <2>3, <2>4
<1>4. CASE Signal(t)
  <2>1. SessionTypeOK'
    BY <1>4 DEF Signal
  <2>2. OneHolder' /\ BootInv'
    BY <1>4 DEF Signal
  <2>3. ContentInv'
    BY <1>4 DEF Signal
  <2>4. GreenInv' /\ AmberExplained'
    BY <1>4 DEF Signal
  <2> QED BY <2>1, <2>2, <2>3, <2>4
<1>5. CASE AmberOff(t)
  <2> DEFINE next == IF t = Main THEN "started" ELSE "idle"
  <2>1. /\ pc' \in [Threads -> Labels] /\ pc'[t] = next
        /\ \A u \in Threads : u # t => pc'[u] = pc[u]
        /\ pc[t] = "amber_off"
    BY <1>5 DEF AmberOff
  <2>2. SessionTypeOK' /\ GreenInv'
    BY <1>5, <2>1 DEF AmberOff
  <2>3. OneHolder' /\ BootInv'
    BY <1>5, <2>1 DEF AmberOff
  <2>4. ContentInv'
    BY <1>5, <2>1 DEF AmberOff
  <2>5. AmberExplained'
    BY <1>5, <2>1 DEF AmberOff
  <2> QED BY <2>2, <2>3, <2>4, <2>5
<1> QED BY <1>1, <1>2, <1>3, <1>4, <1>5 DEF ReleaseSteps

(* main's own statements, and the start and end of a transport's work.     *)
LEMMA OtherStep ==
    ASSUME IInv, \/ LightLeds \/ ClearLeds \/ ObjectInit
                 \/ \E t \in Transports : StartThread(t) \/ BeginRelease(t)
    PROVE  IInv'
<1> USE LockAssumption
    DEF IInv, SessionTypeOK, OneHolder, BootInv, ContentInv, GreenInv, AmberExplained,
        Goto, Threads, Labels, Holding, Locking, InSession, Releasing, Booting
<1>1. CASE LightLeds
  <2>1. SessionTypeOK'
    BY <1>1 DEF LightLeds
  <2>2. OneHolder' /\ BootInv'
    BY <1>1 DEF LightLeds
  <2>3. ContentInv'
    BY <1>1 DEF LightLeds
  <2>4. GreenInv' /\ AmberExplained'
    BY <1>1 DEF LightLeds
  <2> QED BY <2>1, <2>2, <2>3, <2>4
<1>2. CASE ClearLeds
  <2>1. SessionTypeOK'
    BY <1>2 DEF ClearLeds
  <2>2. OneHolder' /\ BootInv'
    BY <1>2 DEF ClearLeds
  <2>3. ContentInv'
    BY <1>2 DEF ClearLeds
  <2>4. GreenInv' /\ AmberExplained'
    BY <1>2 DEF ClearLeds
  <2> QED BY <2>1, <2>2, <2>3, <2>4
<1>3. CASE ObjectInit
  <2>1. SessionTypeOK'
    BY <1>3 DEF ObjectInit
  <2>2. OneHolder' /\ BootInv'
    BY <1>3 DEF ObjectInit
  <2>3. ContentInv'
    BY <1>3 DEF ObjectInit
  <2>4. GreenInv' /\ AmberExplained'
    BY <1>3 DEF ObjectInit
  <2> QED BY <2>1, <2>2, <2>3, <2>4
<1>4. ASSUME NEW t \in Transports, StartThread(t) PROVE IInv'
  <2>1. SessionTypeOK'
    BY <1>4 DEF StartThread, Begin
  <2>2. OneHolder' /\ BootInv'
    BY <1>4 DEF StartThread, Begin
  <2>3. ContentInv'
    BY <1>4 DEF StartThread, Begin
  <2>4. GreenInv' /\ AmberExplained'
    BY <1>4 DEF StartThread, Begin
  <2> QED BY <2>1, <2>2, <2>3, <2>4
<1>5. ASSUME NEW t \in Transports, BeginRelease(t) PROVE IInv'
  <2>1. SessionTypeOK'
    BY <1>5 DEF BeginRelease
  <2>2. OneHolder' /\ BootInv'
    BY <1>5 DEF BeginRelease
  <2>3. ContentInv'
    BY <1>5 DEF BeginRelease
  <2>4. GreenInv' /\ AmberExplained'
    BY <1>5 DEF BeginRelease
  <2> QED BY <2>1, <2>2, <2>3, <2>4
<1> QED BY <1>1, <1>2, <1>3, <1>4, <1>5

LEMMA Inductive == IInv /\ [SessionNext]_sessionVars => IInv'
<1> SUFFICES ASSUME IInv, [SessionNext]_sessionVars PROVE IInv'
  OBVIOUS
<1>1. CASE UNCHANGED sessionVars
  BY <1>1
     DEF sessionVars, IInv, SessionTypeOK, OneHolder, BootInv, ContentInv, GreenInv,
         AmberExplained
<1>2. CASE MainSteps
  BY <1>2, OtherStep, ReleaseStep DEF MainSteps, Threads
<1>3. ASSUME NEW t \in Transports, TransportSteps(t) PROVE IInv'
  BY <1>3, OtherStep, LockStep, HandleStep, ReleaseStep DEF TransportSteps, Threads
<1> QED BY <1>1, <1>2, <1>3 DEF SessionNext

(* The invariant holds of every behaviour.                                 *)
LEMMA Invariance == SessionSpec => []IInv
BY InitEstablishes, Inductive, PTL DEF SessionSpec
-----------------------------------------------------------------------------
(* The session is locked by one thread at a time, and never before main    *)
(* has made the semaphore, for every set of transports.                    *)
THEOREM OneHolderAlways == SessionSpec => []OneHolder
<1>1. IInv => OneHolder
  BY DEF IInv
<1> QED BY <1>1, Invariance, PTL

(* Between lock and release no statement of another thread reaches the     *)
(* owner's session.                                                        *)
THEOREM SessionIsOwnAlways == SessionSpec => []SessionIsOwn
<1>1. IInv => SessionIsOwn
  BY DEF IInv, ContentInv, SessionIsOwn, InSession
<1> QED BY <1>1, Invariance, PTL

(* No session inherits a packet, a state or a mode from an earlier one.    *)
THEOREM BeginsFreshAlways == SessionSpec => []SessionBeginsFresh
<1>1. IInv => SessionBeginsFresh
  BY LockAssumption
     DEF IInv, ContentInv, OneHolder, BootInv, GreenInv, SessionBeginsFresh, Threads,
         Holding, Locking, InSession, Releasing, Booting
<1> QED BY <1>1, Invariance, PTL

(* The amber LED is never left on, and off during a session only because   *)
(* of another transport.                                                   *)
THEOREM AmberExplainedAlways == SessionSpec => []AmberExplained
<1>1. IInv => AmberExplained
  BY DEF IInv
<1> QED BY <1>1, Invariance, PTL

(* So with TCP alone, as the firmware is built, it shows the session.      *)
THEOREM AmberShowsAlways == SessionSpec => []AmberShowsSession
<1>1. IInv => AmberShowsSession
  BY DEF IInv, AmberExplained, AmberShowsSession
<1> QED BY <1>1, Invariance, PTL
-----------------------------------------------------------------------------
(* The statements refine AtomicSession: setting the last member acquires,  *)
(* beginning the release releases.                                         *)
LEMMA AtomicInit == SessionInit => Atomic!Init
BY LockAssumption
   DEF SessionInit, Atomic!Init, Atomic!Idle, owner, record, Owned, InSession, Threads

(* A thread that is not in its session, before and after, changes nothing  *)
(* the abstract session shows.                                             *)
LEMMA AtomicStutter ==
    ASSUME IInv, NEW t \in Threads, NEW label, Goto(t, label),
           pc[t] \notin InSession, label \notin InSession,
           session' = session \/ pc[t] \in Holding
    PROVE  UNCHANGED <<owner, record>>
<1>1. \A u \in Transports : pc'[u] \in InSession <=> pc[u] \in InSession
  BY DEF IInv, SessionTypeOK, Goto, Threads
<1>2. Owned' <=> Owned
  BY <1>1 DEF Owned
<1>3. CASE session' = session
  BY <1>2, <1>3 DEF owner, record
<1>4. CASE pc[t] \in Holding
  <2>1. ~Owned
    BY <1>4 DEF IInv, OneHolder, Owned, Threads, Holding
  <2> QED BY <1>2, <2>1 DEF owner, record
<1> QED BY <1>3, <1>4

(* Nor does a step within the session that leaves its members alone.       *)
LEMMA AtomicWithin ==
    ASSUME IInv, NEW t \in Transports, NEW label, Goto(t, label),
           pc[t] \in InSession, label \in InSession, session' = session
    PROVE  UNCHANGED <<owner, record>>
<1>1. \A u \in Transports : pc'[u] \in InSession <=> pc[u] \in InSession
  BY DEF IInv, SessionTypeOK, Goto, Threads
<1>2. Owned' <=> Owned
  BY <1>1 DEF Owned
<1> QED BY <1>2 DEF owner, record

(* Who is in the session, in the words of both modules.                    *)
LEMMA OwnerOfSession ==
    ASSUME IInv, NEW t \in Transports, pc[t] \in InSession
    PROVE  /\ owner = t
           /\ record = [state |-> session.state, properties |-> session.properties]
BY DEF IInv, ContentInv, Owned, owner, record

LEMMA NobodyElse ==
    ASSUME IInv, NEW t \in Transports, pc[t] \in Holding \ InSession
    PROVE  owner = NoOne /\ record = Atomic!Idle
<1>1. ~Owned
  BY DEF IInv, OneHolder, Owned, Threads, Holding
<1> QED BY <1>1 DEF owner, record, Atomic!Idle

(* Setting the last member is the abstract Acquire.                        *)
LEMMA AtomicAcquire ==
    ASSUME IInv, IInv', NEW t \in Transports, SetWriteCb(t)
    PROVE  Atomic!Acquire(t)
<1>1. owner = NoOne
  BY NobodyElse DEF SetWriteCb, Holding, Locking, InSession
<1>2. /\ session'.state = "ACTIVE" /\ session'.properties = {}
      /\ session'.transport = t /\ pc'[t] = "amber_on"
  BY DEF IInv, SessionTypeOK, ContentInv, SetWriteCb, Goto, Threads, Locking
<1>3. Owned'
  BY <1>2 DEF Owned, InSession
<1>4. owner' = t /\ record' = Atomic!Fresh
  BY <1>2, <1>3 DEF owner, record, Atomic!Fresh
<1> QED BY <1>1, <1>4 DEF Atomic!Acquire

(* The first statement of the release is the abstract Release.             *)
LEMMA AtomicRelease ==
    ASSUME IInv, IInv', NEW t \in Transports, BeginRelease(t)
    PROVE  Atomic!Release(t)
<1>1. owner = t
  BY OwnerOfSession DEF BeginRelease, InSession
<1>2. \A u \in Transports : pc'[u] \notin InSession
  BY DEF IInv, SessionTypeOK, OneHolder, BeginRelease, Goto, Threads, Holding, InSession
<1>3. owner' = NoOne /\ record' = Atomic!Idle
  BY <1>2 DEF owner, record, Owned, Atomic!Idle
<1> QED BY <1>1, <1>3 DEF Atomic!Release

(* Handlers and failing writes are the owner's abstract steps.             *)
LEMMA AtomicHandle ==
    ASSUME IInv, NEW t \in Transports, HandleSteps(t)
    PROVE  [Atomic!Next]_(Atomic!vars)
<1> DEFINE Session(s) == [state |-> s.state, properties |-> s.properties]
<1>1. CASE BeginHandle(t) \/ EndHandle(t)
  BY <1>1, AtomicWithin DEF BeginHandle, EndHandle, InSession, Atomic!vars
<1>2. ASSUME NEW property \in Properties, SwitchOn(t, property)
      PROVE  Atomic!SwitchOn(t, property)
  <2>1. pc[t] \in InSession /\ pc'[t] \in InSession
    BY <1>2 DEF SwitchOn, InSession
  <2>2. owner = t /\ record = Session(session)
    BY <2>1, OwnerOfSession
  <2>3. /\ session'.transport = session.transport /\ session'.state = session.state
        /\ session'.properties = session.properties \cup {property}
    BY <1>2 DEF SwitchOn, IInv, SessionTypeOK
  <2>4. Owned /\ Owned'
    BY <2>1 DEF Owned
  <2>5. owner' = t /\ record' = Session(session')
    BY <2>2, <2>3, <2>4 DEF owner, record
  <2> QED BY <2>2, <2>3, <2>5 DEF Atomic!SwitchOn
<1>3. CASE WriteFails(t)
  <2>1. pc[t] \in InSession /\ pc'[t] \in InSession
    BY <1>3 DEF WriteFails, InSession
  <2>2. owner = t /\ record = Session(session) /\ session.transport = t
    BY <2>1, OwnerOfSession DEF IInv, ContentInv
  <2>3. /\ session'.transport = session.transport
        /\ session'.properties = session.properties
        /\ session'.state = IF t = TCP_IP THEN "ABORTED" ELSE session.state
    BY <1>3, <2>2 DEF WriteFails, IInv, SessionTypeOK
  <2>4. Owned /\ Owned'
    BY <2>1 DEF Owned
  <2>5. owner' = t /\ record' = Session(session')
    BY <2>2, <2>3, <2>4 DEF owner, record
  <2>6. CASE t = TCP_IP
    BY <2>2, <2>3, <2>5, <2>6 DEF Atomic!Next, Atomic!Abort
  <2>7. CASE t # TCP_IP
    BY <2>2, <2>3, <2>5, <2>7 DEF Atomic!vars
  <2> QED BY <2>6, <2>7
<1> QED BY <1>1, <1>2, <1>3 DEF HandleSteps, Atomic!Next

(* Every other statement of lock, release and main is a stutter.           *)
LEMMA AtomicOther ==
    ASSUME IInv, NEW t \in Threads,
           \/ ReleaseSteps(t)
           \/ t = Main /\ (LightLeds \/ ClearLeds \/ ObjectInit)
           \/ t \in Transports /\ (StartThread(t) \/ TryLock(t) \/ InitPackets(t)
                                      \/ SetState(t) \/ SetTransport(t) \/ AmberOn(t))
    PROVE  UNCHANGED <<owner, record>>
<1> USE DEF Holding, Locking, InSession, Releasing
<1>1. CASE ReleaseSteps(t)
  BY <1>1, AtomicStutter
     DEF ReleaseSteps, ClearProperties, ClearTransport, ClearState, Signal, AmberOff
<1>2. CASE t = Main /\ (LightLeds \/ ClearLeds \/ ObjectInit)
  BY <1>2, AtomicStutter DEF LightLeds, ClearLeds, ObjectInit
<1>3. CASE t \in Transports /\ (StartThread(t) \/ TryLock(t))
  BY <1>3, AtomicStutter DEF StartThread, Begin, TryLock
<1>4. CASE t \in Transports /\ (InitPackets(t) \/ SetState(t) \/ SetTransport(t))
  BY <1>4, AtomicStutter DEF InitPackets, SetState, SetTransport
<1>5. CASE t \in Transports /\ AmberOn(t)
  BY <1>5, AtomicWithin DEF AmberOn
<1> QED BY <1>1, <1>2, <1>3, <1>4, <1>5

LEMMA AtomicStep ==
    ASSUME IInv, IInv', [SessionNext]_sessionVars
    PROVE  [Atomic!Next]_(Atomic!vars)
<1>1. CASE UNCHANGED sessionVars
  BY <1>1 DEF sessionVars, Atomic!vars, owner, record, Owned
<1>2. CASE MainSteps
  BY <1>2, AtomicOther DEF MainSteps, Threads, Atomic!vars
<1>3. ASSUME NEW t \in Transports, TransportSteps(t)
      PROVE  [Atomic!Next]_(Atomic!vars)
  <2>1. CASE SetWriteCb(t)
    BY <2>1, AtomicAcquire DEF Atomic!Next
  <2>2. CASE BeginRelease(t)
    BY <2>2, AtomicRelease DEF Atomic!Next
  <2>3. CASE HandleSteps(t)
    BY <2>3, AtomicHandle
  <2>4. CASE \/ StartThread(t) \/ TryLock(t) \/ InitPackets(t) \/ SetState(t)
             \/ SetTransport(t) \/ AmberOn(t) \/ ReleaseSteps(t)
    BY <2>4, AtomicOther DEF Threads, Atomic!vars
  <2> QED BY <1>3, <2>1, <2>2, <2>3, <2>4 DEF TransportSteps, LockSteps
<1> QED BY <1>1, <1>2, <1>3 DEF SessionNext

(* Transports that call lock, handle and release in any interleaving of    *)
(* their statements see the atomic session.                                *)
THEOREM SessionRefinesAtomic == SessionSpec => ImplementsAtomicSession
BY AtomicInit, AtomicStep, Invariance, PTL DEF SessionSpec, ImplementsAtomicSession, Atomic!Spec

-----------------------------------------------------------------------------
(* The firmware                                                            *)

(* The order of main: the session is initialised before the network and    *)
(* its thread exist.                                                       *)
OrderInv ==
    /\ boot \in DOMAIN After \cup {"loop"}
    /\ boot \in {"lwip", "tcp_thread", "shell_thread", "loop"} => pc[Main] = "started"
    /\ net # "absent" => boot \in {"shell_thread", "loop"}

FInv == IInv /\ OrderInv

LEMMA FirmwareInit == Init => SessionInit /\ FInv
<1> SUFFICES ASSUME Init PROVE SessionInit /\ FInv
  OBVIOUS
<1>1. SessionInit /\ IInv
  BY InitEstablishes DEF Init
<1>2. OrderInv
  BY DEF Init, OrderInv, After
<1> QED BY <1>1, <1>2 DEF FInv

(* main's statements follow each other as After says.                      *)
LEMMA BootStep ==
    ASSUME FInv, Boot
    PROVE  [SessionNext]_sessionVars /\ (IInv' => OrderInv')
<1> USE DEF FInv, OrderInv
<1>1. /\ After["reset"] = "gpio" /\ After["gpio"] = "clock" /\ After["clock"] = "hal"
      /\ After["hal"] = "kernel" /\ After["kernel"] = "leds" /\ After["leds"] = "session"
      /\ After["session"] = "lwip" /\ After["lwip"] = "tcp_thread"
      /\ After["tcp_thread"] = "shell_thread" /\ After["shell_thread"] = "loop"
      /\ DOMAIN After = {"reset", "gpio", "clock", "hal", "kernel", "leds", "session",
                         "lwip", "tcp_thread", "shell_thread"}
  BY DEF After
<1>2. CASE ResetPorts
  BY <1>1, <1>2 DEF ResetPorts, Done, Elsewhere, sessionVars
<1>3. CASE WriteRegister
  BY <1>1, <1>3 DEF WriteRegister, At, Elsewhere, sessionVars, SessionNext, MainSteps
<1>4. CASE PinsAreSet \/ InitClocksAndKernel
  BY <1>1, <1>4 DEF PinsAreSet, InitClocksAndKernel, Initialise, Done, Elsewhere, sessionVars
<1>5. CASE ClearAllLeds
  BY <1>1, <1>5 DEF ClearAllLeds, Done, Elsewhere, SessionNext, MainSteps
<1>6. CASE InitSession
  BY <1>1, <1>6 DEF InitSession, At, Elsewhere, SessionNext, MainSteps
<1>7. CASE InitLwip
  BY <1>1, <1>7 DEF InitLwip, Done, Elsewhere, sessionVars
<1>8. CASE CreateTcpThread
  BY <1>1, <1>8 DEF CreateTcpThread, Done, sessionVars
<1>9. CASE CreateShellInterface
  BY <1>1, <1>9 DEF CreateShellInterface, Done, sessionVars
<1> QED BY <1>2, <1>3, <1>4, <1>5, <1>6, <1>7, <1>8, <1>9 DEF Boot

(* A transport's step is one of SessionLock's, and main stays where it is. *)
LEMMA TransportStep ==
    ASSUME FInv, NEW t \in Transports, Transport(t)
    PROVE  [SessionNext]_sessionVars /\ OrderInv'
<1>1. /\ boot' = boot
      /\ net' # "absent" => net # "absent"
      /\ t = TCP_IP /\ Listen => pc[Main] = "started"
  BY DEF Transport, Listen, FInv, OrderInv
<1>2. TransportSteps(t)
  BY <1>1 DEF Transport, Listen, TransportSteps, StartThread
<1>3. t # Main /\ \E label : Goto(t, label) \/ pc' = pc
  BY <1>2, LockAssumption
     DEF TransportSteps, StartThread, Begin, LockSteps, TryLock, InitPackets, SetState,
         SetTransport, SetWriteCb, AmberOn, HandleSteps, BeginHandle, SwitchOn, WriteFails,
         EndHandle, BeginRelease, ReleaseSteps, ClearProperties, ClearTransport, ClearState,
         Signal, AmberOff
<1>4. pc'[Main] = pc[Main]
  BY <1>3 DEF Goto, FInv, IInv, SessionTypeOK, Threads
<1>5. OrderInv'
  BY <1>1, <1>4 DEF FInv, OrderInv, After
<1> QED BY <1>2, <1>5 DEF SessionNext

LEMMA FirmwareStep ==
    ASSUME FInv, [Next]_vars
    PROVE  [SessionNext]_sessionVars /\ FInv'
<1>1. [SessionNext]_sessionVars /\ (IInv' => OrderInv')
  <2>1. CASE Boot
    BY <2>1, BootStep
  <2>2. CASE ToggleRed \/ SetUpServer
    BY <2>2 DEF ToggleRed, SetUpServer, FInv, OrderInv, sessionVars
  <2>3. CASE \E t \in Transports : Transport(t)
    BY <2>3, TransportStep
  <2>4. CASE Usb
    BY <2>4 DEF Usb, FInv, OrderInv, sessionVars
  <2>5. CASE UNCHANGED vars
    BY <2>5 DEF vars, FInv, OrderInv, sessionVars
  <2> QED BY <2>1, <2>2, <2>3, <2>4, <2>5 DEF Next
<1>2. IInv'
  BY <1>1, Inductive DEF FInv
<1> QED BY <1>1, <1>2 DEF FInv
-----------------------------------------------------------------------------
(* For every set of transports the firmware, from reset on and whatever    *)
(* the network and the USB host do, uses the session as SessionLock says.  *)
THEOREM FirmwareUsesSessionLock == Spec => SessionSpec
BY FirmwareInit, FirmwareStep, PTL DEF Spec, SessionSpec

(* Hence the session of whoever has it is its own, ...                     *)
THEOREM FirmwareSessionIsOwn == Spec => []SessionIsOwn
BY FirmwareUsesSessionLock, SessionIsOwnAlways, PTL

(* ... the amber LED is explained, ...                                     *)
THEOREM FirmwareAmberExplained == Spec => []AmberExplained
BY FirmwareUsesSessionLock, AmberExplainedAlways, PTL

(* ... and transports see AtomicSession.                                   *)
THEOREM FirmwareRefinesAtomic == Spec => ImplementsAtomicSession
BY FirmwareUsesSessionLock, SessionRefinesAtomic, PTL
-----------------------------------------------------------------------------
(* The shell over USB                                                      *)

Both == {DATA_EP, INTERRUPT_EP}

(* What shell_interface_thread has done, by the statement it is at.        *)
InterfaceInv ==
    /\ sdu = "raw" <=> interface \in {"absent", "shell_init", "sdu_object_init"}
    /\ sdu = "stopped" <=> interface = "sdu_start"
    /\ usb = "stop" <=>
          interface \in {"absent", "shell_init", "sdu_object_init", "sdu_start", "disconnect",
                         "usb_start"}

(* What the driver has, by its state; a suspended one has what the state   *)
(* it returns to needs.                                                    *)
State == IF usb = "suspended" THEN saved ELSE usb

DriverInv ==
    /\ usb = "suspended" => saved # "stop"
    /\ endpoints = (IF State = "active" THEN Both ELSE {})
    /\ State = "active" => announced = vcom_configuration_descriptor_data
    /\ usb \in {"stop", "suspended"} => stream = "suspended"

ConsoleInv == ConsoleTypeOK /\ InterfaceInv /\ DriverInv /\ OneShell

LEMMA ConsoleInvInit == ConsoleInit => ConsoleInv
BY DEF ConsoleInit, ConsoleInv, ConsoleTypeOK, InterfaceInv, DriverInv, OneShell, State, Both

LEMMA ConsoleStep ==
    ASSUME ConsoleInv, [ConsoleNext]_consoleVars
    PROVE  ConsoleInv'
<1> USE DEF ConsoleInv, ConsoleTypeOK, InterfaceInv, DriverInv, OneShell, State, Both, usbVars
<1>1. CASE StartInterface
  BY <1>1 DEF StartInterface
<1>2. CASE ShellInit \/ SduObjectInit \/ SduStart
  BY <1>2 DEF ShellInit, SduObjectInit, SduStart, Advance
<1>3. CASE DisconnectBus \/ UsbStart \/ ConnectBus
  BY <1>3 DEF DisconnectBus, UsbStart, ConnectBus, Advance
<1>4. CASE CreateShell
  BY <1>4 DEF CreateShell, Advance
<1>5. CASE WaitForShell \/ Sleep
  BY <1>5 DEF WaitForShell, Sleep, Advance
<1>6. CASE ShellFails \/ ShellLeft
  BY <1>6 DEF ShellFails, ShellLeft
<1>7. CASE BusReset
  BY <1>7 DEF BusReset, OnBus, SuspendStream, WakeReader
<1>8. CASE ReadConfiguration \/ SetAddress
  BY <1>8 DEF ReadConfiguration, SetAddress, OnBus, get_descriptor
<1>9. CASE Configured
  BY <1>9 DEF Configured, OnBus, WakeReader
<1>10. CASE Unconfigured
  BY <1>10 DEF Unconfigured, OnBus, SuspendStream, WakeReader
<1>11. CASE Suspend
  BY <1>11 DEF Suspend, OnBus, SuspendStream, WakeReader
<1>12. CASE Wakeup
  BY <1>12 DEF Wakeup, OnBus
<1>13. CASE UNCHANGED consoleVars
  BY <1>13 DEF consoleVars
<1> QED BY <1>1, <1>2, <1>3, <1>4, <1>5, <1>6, <1>7, <1>8, <1>9, <1>10, <1>11, <1>12,
           <1>13 DEF ConsoleNext, InterfaceThread, Bus

LEMMA StreamBacked == ConsoleInv => StreamIsBacked
BY DEF ConsoleInv, ConsoleTypeOK, InterfaceInv, DriverInv, State, StreamIsBacked, Both

(* The sum of the lengths is a sum of numbers.                             *)
LengthOf(descriptors) ==
    FoldSeq(LAMBDA d, total : d.length + total, 0, descriptors)

Measuring(f, ds, P) ==
    f = [t \in SUBSET P |-> IF t = {} THEN 0
                            ELSE ds[Picked(t)].length + f[t \ {Picked(t)}]]

LEMMA LengthByRecursion ==
    ASSUME NEW ds
    PROVE  LengthOf(ds) = (CHOOSE f : Measuring(f, ds, DOMAIN ds))[DOMAIN ds]
BY DEF LengthOf, Measuring, Picked, FoldSeq, FoldFunction, FoldFunctionOnSet, MapThenFoldSet

LEMMA MeasuringIsSumming ==
    ASSUME NEW ds, NEW f, NEW lengths, lengths = [i \in DOMAIN ds |-> ds[i].length]
    PROVE  Measuring(f, ds, DOMAIN ds) <=> Summing(f, lengths, DOMAIN ds)
<1>1. ASSUME NEW t \in SUBSET DOMAIN ds, t # {}
      PROVE  ds[Picked(t)].length = lengths[Picked(t)]
  BY <1>1, PickedIn
<1>2. [t \in SUBSET DOMAIN ds |-> IF t = {} THEN 0
                                  ELSE ds[Picked(t)].length + f[t \ {Picked(t)}]]
      = [t \in SUBSET DOMAIN ds |-> IF t = {} THEN 0
                                    ELSE lengths[Picked(t)] + f[t \ {Picked(t)}]]
  BY <1>1
<1> QED BY <1>2, Zenon DEF Measuring, Summing

LEMMA LengthIsTotal ==
    ASSUME NEW ds, IsFiniteSet(DOMAIN ds)
    PROVE  LengthOf(ds) = Total([i \in DOMAIN ds |-> ds[i].length], DOMAIN ds)
<1> DEFINE lengths == [i \in DOMAIN ds |-> ds[i].length]
           h == CHOOSE f : Measuring(f, ds, DOMAIN ds)
<1>1. lengths = [i \in DOMAIN ds |-> ds[i].length]
  OBVIOUS
<1> HIDE DEF lengths
<1>2. \E f : Summing(f, lengths, DOMAIN ds)
  BY SummingExists
<1>3. \A f : Measuring(f, ds, DOMAIN ds) <=> Summing(f, lengths, DOMAIN ds)
  BY <1>1, MeasuringIsSumming
<1>4. Measuring(h, ds, DOMAIN ds)
  BY <1>2, <1>3, Zenon
<1>5. LengthOf(ds) = h[DOMAIN ds]
  BY LengthByRecursion
<1> HIDE DEF h
<1>6. Total(lengths, DOMAIN ds) = h[DOMAIN ds]
  BY <1>2, <1>3, <1>4, TotalIsValue
<1> QED BY <1>1, <1>5, <1>6

LEMMA ConfigurationLength == LengthOf(vcom_configuration_descriptor_data) = 67
<1> DEFINE ds == vcom_configuration_descriptor_data
           s == [i \in DOMAIN ds |-> ds[i].length]
<1>1. DOMAIN ds = 1..10
  BY DEF vcom_configuration_descriptor_data
<1>2. /\ ds[1].length = 9 /\ ds[2].length = 9 /\ ds[3].length = 5 /\ ds[4].length = 5
      /\ ds[5].length = 4 /\ ds[6].length = 5 /\ ds[7].length = 7 /\ ds[8].length = 9
      /\ ds[9].length = 7 /\ ds[10].length = 7
  BY DEF vcom_configuration_descriptor_data, Configuration, Interface, Functional, Endpoint
<1> HIDE DEF ds
<1>3. /\ s[1] = 9 /\ s[2] = 9 /\ s[3] = 5 /\ s[4] = 5 /\ s[5] = 4 /\ s[6] = 5
      /\ s[7] = 7 /\ s[8] = 9 /\ s[9] = 7 /\ s[10] = 7
  BY <1>1, <1>2
<1>4. LengthOf(ds) = Total(s, 1..10)
  <2>1. IsFiniteSet(1..10)
    BY FS_Interval, 1 \in Int, 10 \in Int
  <2> QED BY <1>1, <2>1, LengthIsTotal
<1> HIDE DEF s
<1>5. \A i \in 1..10 : s[i] \in Nat
  BY <1>3
<1>6. ASSUME NEW n \in 0..9
      PROVE  Total(s, 1..(n + 1)) = Total(s, 1..n) + s[n + 1]
  <2>1. n \in Nat /\ \A i \in 1..(n + 1) : s[i] \in Nat
    BY <1>5
  <2> QED BY <2>1, TotalNext
<1>7. Total(s, 1..0) = 0
  BY TotalEmpty, 1..0 = {}
<1>8. /\ Total(s, 1..1) = 9  /\ Total(s, 1..2) = 18 /\ Total(s, 1..3) = 23
      /\ Total(s, 1..4) = 28 /\ Total(s, 1..5) = 32
  <2>1. Total(s, 1..1) = 9
    BY <1>3, <1>6, <1>7
  <2>2. Total(s, 1..2) = 18
    BY <1>3, <1>6, <2>1
  <2>3. Total(s, 1..3) = 23
    BY <1>3, <1>6, <2>2
  <2>4. Total(s, 1..4) = 28
    BY <1>3, <1>6, <2>3
  <2>5. Total(s, 1..5) = 32
    BY <1>3, <1>6, <2>4
  <2> QED BY <2>1, <2>2, <2>3, <2>4, <2>5
<1>9. /\ Total(s, 1..6) = 37 /\ Total(s, 1..7) = 44 /\ Total(s, 1..8) = 53
      /\ Total(s, 1..9) = 60 /\ Total(s, 1..10) = 67
  <2>1. Total(s, 1..6) = 37
    BY <1>3, <1>6, <1>8
  <2>2. Total(s, 1..7) = 44
    BY <1>3, <1>6, <2>1
  <2>3. Total(s, 1..8) = 53
    BY <1>3, <1>6, <2>2
  <2>4. Total(s, 1..9) = 60
    BY <1>3, <1>6, <2>3
  <2>5. Total(s, 1..10) = 67
    BY <1>3, <1>6, <2>4
  <2> QED BY <2>1, <2>2, <2>3, <2>4, <2>5
<1> QED BY <1>4, <1>9 DEF ds

(* The endpoints that the configuration announces.                         *)
LEMMA ConfigurationEndpoints ==
    EndpointsOf(vcom_configuration_descriptor_data) =
        {Endpoint(INTERRUPT_EP, "in", "interrupt", 8),
         Endpoint(DATA_EP, "out", "bulk", 64), Endpoint(DATA_EP, "in", "bulk", 64)}
<1> DEFINE ds == vcom_configuration_descriptor_data
<1>1. DOMAIN ds = 1..10
  BY DEF vcom_configuration_descriptor_data
<1>2. /\ \A i \in {1, 2, 3, 4, 5, 6, 8} : ds[i].kind # "endpoint"
      /\ ds[7] = Endpoint(INTERRUPT_EP, "in", "interrupt", 8)
      /\ ds[9] = Endpoint(DATA_EP, "out", "bulk", 64)
      /\ ds[10] = Endpoint(DATA_EP, "in", "bulk", 64)
  BY DEF vcom_configuration_descriptor_data, Configuration, Interface, Functional
<1>3. ds[7].kind = "endpoint" /\ ds[9].kind = "endpoint" /\ ds[10].kind = "endpoint"
  BY <1>2 DEF Endpoint
<1> HIDE DEF ds
<1>4. {j \in DOMAIN ds : ds[j].kind = "endpoint"} = {7, 9, 10}
  BY <1>1, <1>2, <1>3
<1>5. EndpointsOf(ds) = {ds[7], ds[9], ds[10]}
  BY <1>4 DEF EndpointsOf
<1> QED BY <1>2, <1>5 DEF ds

LEMMA Announced == ConsoleInv => ServesWhatItAnnounced
<1> SUFFICES ASSUME ConsoleInv, usb = "active" PROVE ServesWhatItAnnounced
  BY DEF ServesWhatItAnnounced
<1> DEFINE told == EndpointsOf(announced)
<1>1. announced = vcom_configuration_descriptor_data /\ endpoints = {DATA_EP, INTERRUPT_EP}
  BY DEF ConsoleInv, DriverInv, State, Both
<1>2. announced[1].total = FoldSeq(LAMBDA d, total : d.length + total, 0, announced)
  <2>1. announced[1].total = 67
    BY <1>1 DEF vcom_configuration_descriptor_data, Configuration
  <2>2. LengthOf(announced) = 67
    BY <1>1, ConfigurationLength
  <2> QED BY <2>1, <2>2 DEF LengthOf
<1>3. told = {Endpoint(INTERRUPT_EP, "in", "interrupt", 8),
              Endpoint(DATA_EP, "out", "bulk", 64), Endpoint(DATA_EP, "in", "bulk", 64)}
  BY <1>1, ConfigurationEndpoints
<1> HIDE DEF told
<1>4. \A e \in told : /\ e.number \in endpoints
                      /\ e.type = ConfigOf(e.number).type
                      /\ ConfigOf(e.number)[e.direction] # 0
  BY <1>1, <1>3
     DEF Endpoint, ConfigOf, ep1config, ep2config, DATA_EP, INTERRUPT_EP
<1>5. \A direction \in {"in", "out"} :
         Endpoint(DATA_EP, direction, "bulk", ep1config[direction]) \in told
  BY <1>3 DEF ep1config
<1> QED BY <1>2, <1>4, <1>5 DEF ServesWhatItAnnounced, told
-----------------------------------------------------------------------------
(* From reset to service                                                   *)

(* The registers and the lines, by what the boot has done.                 *)
PinsInv ==
    /\ gpio \in [1..9 -> 0..7]
    /\ boot \notin {"reset", "gpio"} => \A i \in 1..9 : gpio[i] = 7
    /\ gpio[4] = 7 <=> pc[Main] # "gpio"
    /\ red \in BOOLEAN /\ blue \in BOOLEAN
    /\ red \/ blue => pc[Main] # "gpio"

(* The statement of main, by the call it is in.                            *)
MainInv ==
    /\ boot \in {"reset", "gpio", "clock", "hal", "kernel", "leds", "session", "lwip",
                 "tcp_thread", "shell_thread", "loop"}
    /\ boot \in {"reset", "gpio"} => pc[Main] \in {"gpio", "leds"}
    /\ boot \in {"clock", "hal", "kernel", "leds"} => pc[Main] = "leds"
    /\ boot = "session" => pc[Main] \in {"object_init", "amber_off"} \cup Releasing

Everything == {"clocks"} \cup Drivers \cup Subsystems \cup Library

ReadyInv ==
    /\ boot \in {"reset", "gpio", "clock"} => ready = {}
    /\ boot = "hal" => ready = {"clocks"}
    /\ boot = "kernel" => ready = {"clocks"} \cup Drivers
    /\ boot \in {"leds", "session", "lwip", "tcp_thread", "shell_thread", "loop"} =>
          ready = Everything

(* The threads, by what main has created.                                  *)
ThreadsInv ==
    /\ interface # "absent" => boot = "loop"
    /\ net \in {"absent", "new", "bind", "listen", "deaf", "serving", "exited"}
    /\ pc[TCP_IP] # "absent" => net = "serving"

FirmwareInv == FInv /\ ConsoleInv /\ PinsInv /\ MainInv /\ ReadyInv /\ ThreadsInv

LEMMA PortsAndRegisters ==
    DOMAIN Ports = 1..9 /\ Registers = 7 /\ \A i \in 1..9 : Ports[i] = "D" <=> i = 4
BY DEF Ports, Registers, gpio_init_order

LEMMA Calls ==
    /\ After["reset"] = "gpio" /\ After["gpio"] = "clock" /\ After["clock"] = "hal"
    /\ After["hal"] = "kernel" /\ After["kernel"] = "leds" /\ After["leds"] = "session"
    /\ After["session"] = "lwip" /\ After["lwip"] = "tcp_thread"
    /\ After["tcp_thread"] = "shell_thread" /\ After["shell_thread"] = "loop"
    /\ DOMAIN After = {"reset", "gpio", "clock", "hal", "kernel", "leds", "session",
                       "lwip", "tcp_thread", "shell_thread"}
BY DEF After

LEMMA FirmwareInvInit == Init => FirmwareInv
<1> SUFFICES ASSUME Init PROVE FirmwareInv
  OBVIOUS
<1>1. FInv /\ SessionInit
  BY FirmwareInit
<1>2. ConsoleInv
  BY ConsoleInvInit DEF Init
<1>3. /\ boot = "reset" /\ gpio = [i \in 1..9 |-> 0] /\ ready = {} /\ net = "absent"
      /\ red = FALSE /\ blue = FALSE /\ interface = "absent"
      /\ pc[Main] = "gpio" /\ pc[TCP_IP] = "absent"
  BY <1>1, PortsAndRegisters, LockAssumption
     DEF Init, ConsoleInit, SessionInit, Threads
<1>4. PinsInv
  <2>1. gpio \in [1..9 -> 0..7] /\ gpio[4] = 0
    BY <1>3
  <2>2. gpio[4] = 7 <=> pc[Main] # "gpio"
    BY <1>3, <2>1
  <2>3. red \in BOOLEAN /\ blue \in BOOLEAN /\ ~(red \/ blue)
    BY <1>3
  <2> QED BY <1>3, <2>1, <2>2, <2>3 DEF PinsInv
<1>5. MainInv /\ ReadyInv /\ ThreadsInv
  BY <1>3 DEF MainInv, ReadyInv, ThreadsInv
<1> QED BY <1>1, <1>2, <1>4, <1>5 DEF FirmwareInv

(* What the USB side does is a step of the console, or nothing.            *)
LEMMA ConsoleSteps == [Next]_vars => [ConsoleNext]_consoleVars
BY DEF Next, Boot, ResetPorts, WriteRegister, PinsAreSet, InitClocksAndKernel, Initialise,
       ClearAllLeds, InitSession, InitLwip, CreateTcpThread, CreateShellInterface, Elsewhere,
       ToggleRed, SetUpServer, Transport, Listen, Usb, ConsoleNext, vars

(* A step of a transport is not one of main's nor of another transport's.  *)
LEMMA TransportKeeps ==
    ASSUME FInv, NEW t \in Transports, Transport(t)
    PROVE  /\ \A u \in Threads : u # t => pc'[u] = pc[u]
           /\ UNCHANGED <<boot, gpio, ready, red, blue, consoleVars>>
           /\ net' = net \/ (t = TCP_IP /\ net' = "serving")
           /\ pc[t] # "absent" \/ (t = TCP_IP => net' = "serving")
<1>1. \/ pc' = pc
      \/ \E label : Goto(t, label)
  BY DEF Transport, Listen, StartThread, Begin, LockSteps, TryLock, InitPackets, SetState,
         SetTransport, SetWriteCb, AmberOn, HandleSteps, BeginHandle, SwitchOn, WriteFails,
         EndHandle, BeginRelease, ReleaseSteps, ClearProperties, ClearTransport, ClearState,
         Signal, AmberOff
<1>2. \A u \in Threads : u # t => pc'[u] = pc[u]
  BY <1>1 DEF Goto, FInv, IInv, SessionTypeOK
<1>3. /\ UNCHANGED <<boot, gpio, ready, red, blue, consoleVars>>
      /\ net' = net \/ (t = TCP_IP /\ net' = "serving")
  BY DEF Transport, Listen
<1>4. pc[t] # "absent" \/ (t = TCP_IP => net' = "serving")
  BY DEF Transport, Listen, LockSteps, TryLock, InitPackets, SetState,
         SetTransport, SetWriteCb, AmberOn, HandleSteps, BeginHandle, SwitchOn, WriteFails,
         EndHandle, BeginRelease, ReleaseSteps, ClearProperties, ClearTransport, ClearState,
         Signal, AmberOff
<1> QED BY <1>2, <1>3, <1>4

(* A statement of main is not one of a transport.                          *)
LEMMA MainKeeps ==
    ASSUME FInv, LightLeds \/ ClearLeds \/ ObjectInit \/ ReleaseSteps(Main)
    PROVE  /\ pc'[TCP_IP] = pc[TCP_IP]
           /\ LightLeds => pc[Main] = "gpio" /\ pc'[Main] = "leds"
           /\ ClearLeds => pc[Main] = "leds" /\ pc'[Main] = "object_init"
           /\ ObjectInit \/ ReleaseSteps(Main) =>
                 pc'[Main] \in {"amber_off", "started"} \cup Releasing
<1>1. pc \in [Threads -> Labels] /\ Main \in Threads /\ TCP_IP \in Threads /\ TCP_IP # Main
  BY LockAssumption DEF FInv, IInv, SessionTypeOK, Threads
<1> QED BY <1>1
        DEF LightLeds, ClearLeds, ObjectInit, ReleaseSteps, ClearProperties, ClearTransport,
            ClearState, Signal, AmberOff, Goto, Releasing

(* gpio_init's statements, port by port.                                   *)
LEMMA RegisterStep ==
    ASSUME FirmwareInv, WriteRegister
    PROVE  PinsInv' /\ MainInv' /\ ReadyInv' /\ ThreadsInv'
<1> DEFINE port == CHOOSE i \in 1..9 : gpio[i] < 7 /\ \A j \in 1..(i - 1) : gpio[j] = 7
           lights == port = 4 /\ gpio[port] + 1 = 7
<1>1. boot = "gpio" /\ boot' = boot /\ ready' = ready /\ net' = net /\ interface' = interface
      /\ \E i \in 1..9 : gpio[i] < 7
  BY PortsAndRegisters DEF WriteRegister, At, Elsewhere, consoleVars
<1>2. \E i \in 1..9 : gpio[i] < 7 /\ \A j \in 1..(i - 1) : gpio[j] = 7
  <2> DEFINE Open == {i \in 1..9 : gpio[i] < 7}
  <2>1. Open \in SUBSET Nat /\ Open # {}
    BY <1>1
  <2>2. PICK i \in Open : \A j \in Open : i <= j
    <3> HIDE DEF Open
    <3> QED BY <2>1, MinIsLeast
  <2>3. \A j \in 1..(i - 1) : gpio[j] = 7
    BY <2>2 DEF FirmwareInv, PinsInv
  <2> QED BY <2>2, <2>3
<1>3. port \in 1..9 /\ gpio[port] < 7
  BY <1>2
<1>4. gpio' = [gpio EXCEPT ![port] = gpio[port] + 1]
  BY PortsAndRegisters DEF WriteRegister
<1>5. IF lights THEN LightLeds /\ red' = TRUE /\ blue' = TRUE
                ELSE UNCHANGED <<red, blue, sessionVars>>
  <2>1. Ports[port] = "D" <=> port = 4
    BY <1>3, PortsAndRegisters
  <2> HIDE DEF port
  <2>2. IF Ports[port] = "D" /\ gpio[port] + 1 = 7
        THEN LightLeds /\ red' = TRUE /\ blue' = TRUE
        ELSE UNCHANGED <<red, blue, sessionVars>>
    BY PortsAndRegisters DEF WriteRegister, port
  <2> QED BY <2>1, <2>2
<1> HIDE DEF port
<1>6. gpio' \in [1..9 -> 0..7] /\ (gpio'[4] = 7 <=> gpio[4] = 7 \/ lights)
  BY <1>3, <1>4 DEF FirmwareInv, PinsInv
<1>7. CASE lights
  <2>1. /\ red' = TRUE /\ blue' = TRUE /\ pc'[Main] = "leds" /\ pc'[TCP_IP] = pc[TCP_IP]
    BY <1>5, <1>7, MainKeeps DEF FirmwareInv
  <2> QED BY <1>1, <1>6, <1>7, <2>1
          DEF FirmwareInv, PinsInv, MainInv, ReadyInv, ThreadsInv
<1>8. CASE ~lights
  <2>1. UNCHANGED <<red, blue, pc>>
    BY <1>5, <1>8 DEF sessionVars
  <2> QED BY <1>1, <1>6, <1>8, <2>1
          DEF FirmwareInv, PinsInv, MainInv, ReadyInv, ThreadsInv
<1> QED BY <1>7, <1>8

LEMMA BootKeeps ==
    ASSUME FirmwareInv, FInv', Boot
    PROVE  PinsInv' /\ MainInv' /\ ReadyInv' /\ ThreadsInv'
<1> USE DEF PinsInv, MainInv, ReadyInv, ThreadsInv
<1>0. FInv /\ PinsInv /\ MainInv /\ ReadyInv /\ ThreadsInv
  BY DEF FirmwareInv
<1>1. CASE ResetPorts
  BY <1>0, <1>1, Calls DEF ResetPorts, Done, Elsewhere, sessionVars, consoleVars
<1>2. CASE WriteRegister
  BY <1>2, RegisterStep
<1>3. CASE PinsAreSet
  BY <1>0, <1>3, Calls, PortsAndRegisters
     DEF PinsAreSet, Done, Elsewhere, sessionVars, consoleVars
<1>4. CASE InitClocksAndKernel
  BY <1>0, <1>4, Calls
     DEF InitClocksAndKernel, Initialise, Done, Elsewhere, sessionVars, consoleVars, Everything
<1>5. CASE ClearAllLeds
  <2>1. pc'[TCP_IP] = pc[TCP_IP] /\ pc[Main] = "leds" /\ pc'[Main] = "object_init"
    BY <1>0, <1>5, MainKeeps DEF ClearAllLeds
  <2>2. /\ boot = "leds" /\ boot' = "session" /\ red' = FALSE /\ blue' = FALSE
        /\ UNCHANGED <<gpio, ready, net, interface>>
    BY <1>5, Calls DEF ClearAllLeds, Done, Elsewhere, consoleVars
  <2> QED BY <1>0, <2>1, <2>2
<1>6. CASE InitSession
  <2>1. /\ pc'[TCP_IP] = pc[TCP_IP]
        /\ pc'[Main] \in {"amber_off", "started"} \cup Releasing
    BY <1>0, <1>6, MainKeeps DEF InitSession
  <2>2. /\ boot = "session" /\ boot' = IF pc'[Main] = "started" THEN "lwip" ELSE "session"
        /\ UNCHANGED <<gpio, ready, red, blue, net, interface>>
    BY <1>6, Calls DEF InitSession, At, Elsewhere, consoleVars
  <2>3. pc[Main] # "gpio" /\ pc'[Main] # "gpio"
    BY <1>0, <2>1, <2>2 DEF Releasing
  <2> QED BY <1>0, <2>1, <2>2, <2>3
<1>7. CASE InitLwip
  BY <1>0, <1>7, Calls DEF InitLwip, Done, Elsewhere, sessionVars, consoleVars, FInv, OrderInv
<1>9. CASE CreateTcpThread
  <2>1. net = "absent" /\ pc[Main] = "started"
    BY <1>0, <1>9 DEF CreateTcpThread, Done, FInv, OrderInv
  <2> QED BY <1>0, <1>9, <2>1, Calls DEF CreateTcpThread, Done, sessionVars, consoleVars
<1>8. CASE CreateShellInterface
  BY <1>0, <1>8, Calls
     DEF CreateShellInterface, Done, sessionVars
<1> QED BY <1>1, <1>2, <1>3, <1>4, <1>5, <1>6, <1>7, <1>8, <1>9 DEF Boot

LEMMA FirmwareInvStep == FirmwareInv /\ [Next]_vars => FirmwareInv'
<1> SUFFICES ASSUME FirmwareInv, [Next]_vars PROVE FirmwareInv'
  OBVIOUS
<1>1. FInv'
  BY FirmwareStep DEF FirmwareInv
<1>2. ConsoleInv'
  BY ConsoleSteps, ConsoleStep DEF FirmwareInv
<1>3. PinsInv' /\ MainInv' /\ ReadyInv' /\ ThreadsInv'
  <2>1. CASE Boot
    BY <1>1, <2>1, BootKeeps
  <2>2. CASE ToggleRed
    BY <2>2
       DEF ToggleRed, At, FirmwareInv, FInv, OrderInv, PinsInv, MainInv, ReadyInv, ThreadsInv,
           sessionVars, consoleVars
  <2>3. CASE SetUpServer
    BY <2>3
       DEF SetUpServer, FirmwareInv, PinsInv, MainInv, ReadyInv, ThreadsInv, sessionVars,
           consoleVars
  <2>4. ASSUME NEW t \in Transports, Transport(t)
        PROVE  PinsInv' /\ MainInv' /\ ReadyInv' /\ ThreadsInv'
    <3>1. /\ pc'[Main] = pc[Main]
          /\ t # TCP_IP => pc'[TCP_IP] = pc[TCP_IP]
      BY <2>4, TransportKeeps, LockAssumption DEF Threads, FirmwareInv
    <3>2. /\ UNCHANGED <<boot, gpio, ready, red, blue, interface>>
          /\ net' = net \/ (t = TCP_IP /\ net' = "serving")
          /\ pc[t] # "absent" \/ (t = TCP_IP => net' = "serving")
      BY <2>4, TransportKeeps DEF FirmwareInv, consoleVars
    <3> QED BY <3>1, <3>2 DEF FirmwareInv, PinsInv, MainInv, ReadyInv, ThreadsInv
  <2>5. CASE Usb
    <3>1. UNCHANGED <<boot, gpio, ready, red, blue, net, pc>>
      BY <2>5 DEF Usb, sessionVars
    <3>2. interface' = interface \/ interface # "absent"
      <4>1. CASE InterfaceThread
        BY <4>1
           DEF InterfaceThread, ShellInit, SduObjectInit, SduStart, DisconnectBus, UsbStart,
               ConnectBus, CreateShell, WaitForShell, Sleep, Advance
      <4>2. CASE ShellFails \/ ShellLeft
        BY <4>2 DEF ShellFails, ShellLeft
      <4>3. CASE Bus
        BY <4>3
           DEF Bus, OnBus, BusReset, ReadConfiguration, SetAddress, Configured,
               Unconfigured, Suspend, Wakeup
      <4> QED BY <2>5, <4>1, <4>2, <4>3 DEF Usb
    <3> QED BY <3>1, <3>2 DEF FirmwareInv, PinsInv, MainInv, ReadyInv, ThreadsInv
  <2>6. CASE UNCHANGED vars
    BY <2>6
       DEF vars, FirmwareInv, PinsInv, MainInv, ReadyInv, ThreadsInv, sessionVars, consoleVars
  <2> QED BY <2>1, <2>2, <2>3, <2>4, <2>5, <2>6 DEF Next
<1> QED BY <1>1, <1>2, <1>3 DEF FirmwareInv

LEMMA FirmwareInvariant == Spec => []FirmwareInv
BY FirmwareInvInit, FirmwareInvStep, PTL DEF Spec

(* Type correctness of the whole probe.                                    *)
THEOREM FirmwareTypeOK == Spec => []TypeOK
<1>1. FirmwareInv => TypeOK
  <2> SUFFICES ASSUME FirmwareInv PROVE TypeOK
    OBVIOUS
  <2>1. SessionTypeOK /\ ConsoleTypeOK
    BY DEF FirmwareInv, FInv, IInv, ConsoleInv
  <2>2. /\ boot \in DOMAIN After \cup {"loop"}
        /\ gpio \in [DOMAIN Ports -> 0..Registers]
        /\ red \in BOOLEAN /\ blue \in BOOLEAN
    BY PortsAndRegisters DEF FirmwareInv, FInv, OrderInv, PinsInv
  <2>3. /\ ready \subseteq {"clocks"} \cup Drivers \cup Subsystems \cup Library
        /\ net \in {"absent", "new", "bind", "listen", "deaf", "serving", "exited"}
    BY DEF FirmwareInv, MainInv, ReadyInv, ThreadsInv, Everything
  <2> QED BY <2>1, <2>2, <2>3 DEF TypeOK
<1> QED BY <1>1, FirmwareInvariant, PTL

(* A configured device does what it told the host.                         *)
THEOREM ServesWhatItAnnouncedAlways == Spec => []ServesWhatItAnnounced
<1>1. FirmwareInv => ServesWhatItAnnounced
  BY Announced DEF FirmwareInv
<1> QED BY <1>1, FirmwareInvariant, PTL
-----------------------------------------------------------------------------
(* Pins                                                                    *)

(* With every register written the pin is as its table says.               *)
LEMMA PinIsSet ==
    ASSUME NEW i \in 1..9, NEW pad \in Pads, gpio[i] = 7
    PROVE  LET new == gpio_default_config[Ports[i]][pad]
           IN  /\ Pin(i, pad).moder = new.moder /\ Pin(i, pad).otyper = new.otyper
               /\ Pin(i, pad).odr = new.odr /\ Pin(i, pad).af = new.af
<1> DEFINE written == {gpio_init_order[k] : k \in 1..7}
<1>1. {"moder", "otyper", "odr", "afrl", "afrh"} \subseteq written
  <2>1. /\ gpio_init_order[1] = "otyper" /\ gpio_init_order[4] = "odr"
        /\ gpio_init_order[5] = "afrl" /\ gpio_init_order[6] = "afrh"
        /\ gpio_init_order[7] = "moder"
    BY DEF gpio_init_order
  <2> QED BY <2>1
<1>2. written = {gpio_init_order[k] : k \in 1..gpio[i]}
  OBVIOUS
<1> HIDE DEF written
<1> QED BY <1>1, <1>2 DEF Pin

(* The mode is the last register: until then the pin keeps its own.        *)
LEMMA PinKeepsMode ==
    ASSUME NEW i \in 1..9, NEW pad \in Pads, gpio[i] \in 0..6
    PROVE  LET old == AfterReset(Ports[i], pad)
               new == gpio_default_config[Ports[i]][pad]
           IN  /\ Pin(i, pad).moder = old.moder
               /\ Pin(i, pad).af \in {old.af, new.af}
<1> DEFINE written == {gpio_init_order[k] : k \in 1..gpio[i]}
<1>1. "moder" \notin written
  <2>1. \A k \in 1..6 : gpio_init_order[k] # "moder"
    BY DEF gpio_init_order
  <2> QED BY <2>1
<1> HIDE DEF written
<1> QED BY <1>1 DEF Pin, written

(* After reset a pin is an input or one of the debug port's pins, and the  *)
(* tables give all of these the function they have after reset.            *)
LEMMA DebugPins ==
    ASSUME NEW i \in 1..9, NEW pad \in Pads
    PROVE  LET old == AfterReset(Ports[i], pad)
               new == gpio_default_config[Ports[i]][pad]
           IN  \/ old.moder = "input"
               \/ old.moder = "alternate" /\ old.af = 0 /\ new.af = 0
<1> DEFINE port == Ports[i]
           old == AfterReset(port, pad)
<1>1. CASE <<port, pad>> \in {<<"A", 13>>, <<"A", 14>>, <<"A", 15>>, <<"B", 3>>, <<"B", 4>>}
  <2>1. old.moder = "alternate" /\ old.af = 0
    BY <1>1 DEF AfterReset, Blank
  <2>2. CASE port = "A" /\ pad \in {13, 14, 15}
    <3>1. /\ GPIOA.SWDIO = 13 /\ GPIOA.SWCLK = 14 /\ GPIOA.ITMS = 15 /\ GPIOA.ITMS_DIR = 10
          /\ GPIOA.ETH_RMII_REF_CLK = 1 /\ GPIOA.ETH_RMII_MDIO = 2
          /\ GPIOA.ETH_RMII_CRS_DV = 7 /\ GPIOA.OTG_FS_DM = 11 /\ GPIOA.OTG_FS_DP = 12
          /\ GPIOA.VBUS = 3 /\ GPIOA.PIN8 = 8
      BY DEF GPIOA
    <3>2. VAL_GPIOA[pad].af = 0
      BY <2>2, <3>1 DEF VAL_GPIOA, Output, Alternate, Floating, Unused
    <3>3. gpio_default_config[port] = VAL_GPIOA
      BY <2>2 DEF gpio_default_config
    <3> QED BY <2>1, <3>2, <3>3
  <2>3. CASE port = "B" /\ pad \in {3, 4}
    <3>1. /\ GPIOB.SWO = 3 /\ GPIOB.PIN4 = 4 /\ GPIOB.TXEN = 11 /\ GPIOB.TXD0 = 12
          /\ GPIOB.TXD1 = 13 /\ GPIOB.ITDI = 5 /\ GPIOB.PWR_BR = 6 /\ GPIOB.IRST = 9
          /\ GPIOB.IRST_SENSE = 8 /\ GPIOB.PIN0 = 0 /\ GPIOB.PIN10 = 10
      BY DEF GPIOB
    <3>2. VAL_GPIOB[pad].af = 0
      BY <2>3, <3>1 DEF VAL_GPIOB, Alternate, Floating, Unused
    <3>3. gpio_default_config[port] = VAL_GPIOB
      BY <2>3 DEF gpio_default_config
    <3> QED BY <2>1, <3>2, <3>3
  <2> QED BY <1>1, <2>2, <2>3
<1>2. CASE <<port, pad>> \notin
              {<<"A", 13>>, <<"A", 14>>, <<"A", 15>>, <<"B", 3>>, <<"B", 4>>}
  <2>1. old.moder = "input"
    BY <1>2 DEF AfterReset, Blank
  <2> QED BY <2>1
<1> QED BY <1>1, <1>2

LEMMA NoGlitch == PinsInv => NoPinGlitch
<1> SUFFICES ASSUME PinsInv, NEW i \in 1..9, NEW pad \in Pads
             PROVE  Drives(Pin(i, pad)) \in {Drives(AfterReset(Ports[i], pad)),
                                             Drives(gpio_default_config[Ports[i]][pad])}
  BY PortsAndRegisters DEF NoPinGlitch
<1>1. CASE gpio[i] = 7
  BY <1>1, PinIsSet DEF Drives
<1>2. CASE gpio[i] \in 0..6
  <2> DEFINE old == AfterReset(Ports[i], pad)
  <2>1. Pin(i, pad).moder = old.moder
    BY <1>2, PinKeepsMode
  <2>2. CASE old.moder = "input"
    BY <2>1, <2>2 DEF Drives
  <2>3. CASE old.moder = "alternate" /\ Pin(i, pad).af = 0 /\ old.af = 0
    BY <2>1, <2>3 DEF Drives
  <2> QED BY <1>2, <2>1, <2>2, <2>3, PinKeepsMode, DebugPins
<1> QED BY <1>1, <1>2 DEF PinsInv

(* No pin is driven, while the pins are set up, by anything but what       *)
(* drives it before or after.                                              *)
THEOREM NoPinGlitchAlways == Spec => []NoPinGlitch
<1>1. FirmwareInv => NoPinGlitch
  BY NoGlitch DEF FirmwareInv
<1> QED BY <1>1, FirmwareInvariant, PTL
-----------------------------------------------------------------------------
(* What runs has been initialised                                          *)

(* A line's port, and its setting once that port is set up.                *)
LEMMA LineIsSet ==
    ASSUME NEW i \in 1..9, NEW pad \in Pads, gpio[i] = 7
    PROVE  /\ Setting(<<Ports[i], pad>>).moder = gpio_default_config[Ports[i]][pad].moder
           /\ Setting(<<Ports[i], pad>>).af = gpio_default_config[Ports[i]][pad].af
<1>1. \A j \in 1..9 : Ports[j] = Ports[i] => j = i
  BY DEF Ports
<1>2. (CHOOSE j \in DOMAIN Ports : Ports[j] = <<Ports[i], pad>>[1]) = i
  BY <1>1, PortsAndRegisters
<1>3. Setting(<<Ports[i], pad>>) = Pin(i, pad)
  BY <1>2 DEF Setting
<1> QED BY <1>3, PinIsSet

LEMMA LedsAreOutputs ==
    ASSUME gpio[4] = 7
    PROVE  \A line \in {LINE_LED_BLUE, LINE_LED_GREEN, LINE_LED_AMBER, LINE_LED_RED} :
              Setting(line).moder = "output"
<1>1. ASSUME NEW pad \in 12..15 PROVE Setting(<<"D", pad>>).moder = "output"
  <2>1. gpio_default_config["D"][pad].moder = "output"
    <3>1. /\ GPIOD.ITCKDI_DIR = 0 /\ GPIOD.SDIO_CMD = 2 /\ GPIOD.ITXD = 5 /\ GPIOD.IRXD = 6
          /\ GPIOD.LED_BLUE = 12 /\ GPIOD.LED_GREEN = 13 /\ GPIOD.LED_AMBER = 14
          /\ GPIOD.LED_RED = 15
      BY DEF GPIOD
    <3>2. VAL_GPIOD[pad].moder = "output"
      BY <3>1 DEF VAL_GPIOD, Output, Floating, Unused, Pads
    <3> QED BY <3>2 DEF gpio_default_config
  <2>2. Ports[4] = "D" /\ pad \in Pads
    BY DEF Ports, Pads
  <2> QED BY <2>1, <2>2, LineIsSet
<1> QED BY <1>1 DEF LINE_LED_BLUE, LINE_LED_GREEN, LINE_LED_AMBER, LINE_LED_RED

LEMMA EthernetIsConnected ==
    ASSUME \A i \in 1..9 : gpio[i] = 7
    PROVE  Connected("ETH1")
<1>1. FunctionOf["ETH1"] = 11
  BY DEF FunctionOf
<1>2. ASSUME NEW pad \in {1, 2, 7}
      PROVE  Setting(<<"A", pad>>).moder = "alternate" /\ Setting(<<"A", pad>>).af = 11
  <2>1. VAL_GPIOA[pad].moder = "alternate" /\ VAL_GPIOA[pad].af = 11
    BY DEF VAL_GPIOA, GPIOA, Alternate, Output, Analog, UnusedAF, Floating, Unused, Pads
  <2>2. gpio_default_config["A"] = VAL_GPIOA /\ Ports[1] = "A" /\ pad \in Pads
    BY DEF gpio_default_config, Ports, Pads
  <2> QED BY <2>1, <2>2, LineIsSet
<1>3. ASSUME NEW pad \in {11, 12, 13}
      PROVE  Setting(<<"B", pad>>).moder = "alternate" /\ Setting(<<"B", pad>>).af = 11
  <2>1. VAL_GPIOB[pad].moder = "alternate" /\ VAL_GPIOB[pad].af = 11
    BY DEF VAL_GPIOB, GPIOB, Alternate, Output, Analog, UnusedAF, Floating, Unused, Pads
  <2>2. gpio_default_config["B"] = VAL_GPIOB /\ Ports[2] = "B" /\ pad \in Pads
    BY DEF gpio_default_config, Ports, Pads
  <2> QED BY <2>1, <2>2, LineIsSet
<1>4. ASSUME NEW pad \in {1, 4, 5}
      PROVE  Setting(<<"C", pad>>).moder = "alternate" /\ Setting(<<"C", pad>>).af = 11
  <2>1. VAL_GPIOC[pad].moder = "alternate" /\ VAL_GPIOC[pad].af = 11
    BY DEF VAL_GPIOC, GPIOC, Alternate, Output, Analog, UnusedAF, Floating, Unused, Pads
  <2>2. gpio_default_config["C"] = VAL_GPIOC /\ Ports[3] = "C" /\ pad \in Pads
    BY DEF gpio_default_config, Ports, Pads
  <2> QED BY <2>1, <2>2, LineIsSet
<1>5. PinsOf["ETH1"] = {<<"A", 1>>, <<"A", 2>>, <<"A", 7>>, <<"B", 11>>, <<"B", 12>>,
                        <<"B", 13>>, <<"C", 1>>, <<"C", 4>>, <<"C", 5>>}
  BY DEF PinsOf
<1> QED BY <1>1, <1>2, <1>3, <1>4, <1>5 DEF Connected

LEMMA UsbIsConnected ==
    ASSUME \A i \in 1..9 : gpio[i] = 7
    PROVE  Connected("OTG1")
<1>1. FunctionOf["OTG1"] = 10 /\ PinsOf["OTG1"] = {<<"A", 11>>, <<"A", 12>>}
  BY DEF FunctionOf, PinsOf
<1>2. ASSUME NEW pad \in {11, 12}
      PROVE  Setting(<<"A", pad>>).moder = "alternate" /\ Setting(<<"A", pad>>).af = 10
  <2>1. VAL_GPIOA[pad].moder = "alternate" /\ VAL_GPIOA[pad].af = 10
    BY DEF VAL_GPIOA, GPIOA, Alternate, Output, Analog, UnusedAF, Floating, Unused, Pads
  <2>2. gpio_default_config["A"] = VAL_GPIOA /\ Ports[1] = "A" /\ pad \in Pads
    BY DEF gpio_default_config, Ports, Pads
  <2> QED BY <2>1, <2>2, LineIsSet
<1> QED BY <1>1, <1>2 DEF Connected

LEMMA SerialIsConnected ==
    ASSUME \A i \in 1..9 : gpio[i] = 7
    PROVE  Connected("USART2")
<1>1. FunctionOf["USART2"] = 7 /\ PinsOf["USART2"] = {<<"D", 5>>, <<"D", 6>>}
  BY DEF FunctionOf, PinsOf
<1>2. ASSUME NEW pad \in {5, 6}
      PROVE  Setting(<<"D", pad>>).moder = "alternate" /\ Setting(<<"D", pad>>).af = 7
  <2>1. VAL_GPIOD[pad].moder = "alternate" /\ VAL_GPIOD[pad].af = 7
    BY DEF VAL_GPIOD, GPIOD, Alternate, Output, Floating, Unused, Pads
  <2>2. gpio_default_config["D"] = VAL_GPIOD /\ Ports[4] = "D" /\ pad \in Pads
    BY DEF gpio_default_config, Ports, Pads
  <2> QED BY <2>1, <2>2, LineIsSet
<1> QED BY <1>1, <1>2 DEF Connected

(* The clock tree as configured, in kHz.                                   *)
LEMMA Clocks ==
    /\ ClocksInRange /\ HCLK >= 25000 /\ PLL48CLK = 48000
    /\ SERIAL_USB_BUFFERS_SIZE % ep1config.in = 0
<1>1. /\ STM32_HSECLK = 25000 /\ PLL.M = 25 /\ PLL.N = 336 /\ PLL.P = 2 /\ PLL.Q = 7
  BY DEF STM32_HSECLK, PLL
<1>2. PLLCLKIN = 1000
  BY <1>1 DEF PLLCLKIN
<1>3. PLLVCO = 336000
  BY <1>1, <1>2 DEF PLLVCO
<1>4. HCLK = 168000 /\ PLL48CLK = 48000
  BY <1>1, <1>3 DEF HCLK, PLL48CLK
<1>5. PCLK1 = 42000 /\ PCLK2 = 84000
  BY <1>4 DEF PCLK1, PCLK2
<1>6. SERIAL_USB_BUFFERS_SIZE % ep1config.in = 0
  BY DEF SERIAL_USB_BUFFERS_SIZE, ep1config
<1>7. STM32_HSECLK % PLL.M = 0
  BY <1>1
<1> QED BY <1>2, <1>3, <1>4, <1>5, <1>6, <1>7 DEF ClocksInRange

(* Where the boot is when something is in use.                             *)
LEMMA InUseMeansBooted ==
    ASSUME FirmwareInv
    PROVE  /\ InUse # {} => /\ ready = Everything
                            /\ \A i \in 1..9 : gpio[i] = 7
           /\ InUse \subseteq {"PAL", "MAC", "USB", "SERIAL_USB"}
           /\ shell # "none" => usb # "stop" /\ sdu = "ready"
           /\ usb # "stop" => ready = Everything
           /\ net # "absent" => ready = Everything /\ lock # "raw"
           /\ lock # "raw" => ready = Everything
<1>1. usb # "stop" => boot = "loop"
  BY DEF FirmwareInv, ConsoleInv, InterfaceInv, ThreadsInv
<1>2. net # "absent" => boot \in {"shell_thread", "loop"} /\ pc[Main] = "started"
  BY DEF FirmwareInv, FInv, OrderInv
<1>3. /\ pc[Main] \notin {"gpio", "leds"} =>
            boot \in {"session", "lwip", "tcp_thread", "shell_thread", "loop"}
      /\ lock # "raw" => pc[Main] \notin {"gpio", "leds"}
      /\ pc[Main] = "started" => lock # "raw"
  BY DEF FirmwareInv, FInv, IInv, BootInv, MainInv, Booting
<1>4. boot \in {"session", "lwip", "tcp_thread", "shell_thread", "loop"} =>
         ready = Everything /\ \A i \in 1..9 : gpio[i] = 7
  BY DEF FirmwareInv, ReadyInv, PinsInv
<1>5. shell # "none" => usb # "stop" /\ sdu = "ready"
  BY DEF FirmwareInv, ConsoleInv, ConsoleTypeOK, InterfaceInv, OneShell
<1>6. InUse # {} => \/ pc[Main] \notin {"gpio", "leds"}
                    \/ net # "absent" \/ usb # "stop"
  BY DEF InUse
<1>7. InUse \subseteq {"PAL", "MAC", "USB", "SERIAL_USB"}
  BY DEF InUse
<1> QED BY <1>1, <1>2, <1>3, <1>4, <1>5, <1>6, <1>7

LEMMA ServicesAreThere ==
    /\ {"PAL", "MAC", "USB", "SERIAL_USB"} \subseteq Everything
    /\ {"clocks", "SEMAPHORES", "WAITEXIT"} \subseteq Everything
    /\ \A service \in Everything \cap DOMAIN Requires : Requires[service] \subseteq Everything
<1>1. /\ {"PAL", "MAC", "USB", "SERIAL_USB"} \subseteq Everything
      /\ {"clocks", "SEMAPHORES", "WAITEXIT"} \subseteq Everything
  BY DEF Everything, Drivers, Subsystems
<1>2. {"MUTEXES", "CONDVARS", "SEMAPHORES", "EVENTS", "MEMCORE", "WAITEXIT", "HEAP", "MEMPOOLS"}
         \subseteq Everything
  BY DEF Everything, Subsystems, Library
<1>3. \A service \in DOMAIN Requires :
         Requires[service] \subseteq {"MUTEXES", "CONDVARS", "SEMAPHORES", "EVENTS", "MEMCORE",
                                      "WAITEXIT", "HEAP", "MEMPOOLS"}
  BY DEF Requires
<1> QED BY <1>1, <1>2, <1>3

(* So far only the clocks, or the clocks and the drivers, are ready: none  *)
(* of them is a service that requires another.                             *)
LEMMA ServicesOnTheWay ==
    /\ {"clocks"} \cap DOMAIN Requires = {}
    /\ ({"clocks"} \cup Drivers) \cap DOMAIN Requires = {}
BY DEF Drivers, Requires

LEMMA LitMeansSet ==
    ASSUME FirmwareInv, red \/ blue \/ amber \/ green
    PROVE  gpio[4] = 7
<1>1. red \/ blue => pc[Main] # "gpio"
  BY DEF FirmwareInv, PinsInv
<1>2. ASSUME NEW t \in Transports, pc[t] # "absent" PROVE pc[Main] # "gpio"
  BY <1>2 DEF FirmwareInv, FInv, IInv, BootInv
<1>3. green => pc[Main] # "gpio"
  BY <1>2 DEF FirmwareInv, FInv, IInv, GreenInv
<1>4. amber => pc[Main] # "gpio"
  <2> SUFFICES ASSUME amber PROVE pc[Main] # "gpio"
    OBVIOUS
  <2>1. CASE pc[Main] = "leds"
    BY <2>1
  <2>2. ASSUME NEW t \in Transports,
               pc[t] \in {"owned", "handling", "amber_off"} \cup Releasing
        PROVE  pc[Main] # "gpio"
    <3>1. pc[t] # "absent"
      BY <2>2 DEF Releasing
    <3> QED BY <1>2, <3>1
  <2> QED BY <2>1, <2>2 DEF FirmwareInv, FInv, IInv, AmberExplained
<1> QED BY <1>1, <1>3, <1>4 DEF FirmwareInv, PinsInv

LEMMA Ready == FirmwareInv => ReadyBeforeUse
<1> SUFFICES ASSUME FirmwareInv PROVE ReadyBeforeUse
  OBVIOUS
<1>1. red \/ blue \/ amber \/ green =>
         \A line \in {LINE_LED_BLUE, LINE_LED_GREEN, LINE_LED_AMBER, LINE_LED_RED} :
             Setting(line).moder = "output"
  BY LitMeansSet, LedsAreOutputs
<1>2. /\ net # "absent" => lock # "raw"
      /\ pc[TCP_IP] # "absent" => net = "serving"
      /\ shell # "none" => sdu = "ready" /\ usb # "stop"
  BY InUseMeansBooted DEF FirmwareInv, ThreadsInv
<1>3. StreamIsBacked /\ OneShell
  BY StreamBacked DEF FirmwareInv, ConsoleInv
<1>4. InUse \subseteq ready
  BY InUseMeansBooted, ServicesAreThere
<1>5. \A driver \in ready \cap DOMAIN Peripherals :
         \A peripheral \in Peripherals[driver] : Connected(peripheral)
  <2> SUFFICES ASSUME NEW driver \in ready \cap DOMAIN Peripherals,
                      NEW peripheral \in Peripherals[driver]
               PROVE  Connected(peripheral)
    OBVIOUS
  <2>1. \A i \in 1..9 : gpio[i] = 7
    BY DEF FirmwareInv, MainInv, ReadyInv, PinsInv
  <2>2. peripheral \in {"ETH1", "USART2", "OTG1"}
    BY DEF Peripherals, STM32_SERIAL_USE, STM32_USB_USE
  <2> QED BY <2>1, <2>2, EthernetIsConnected, SerialIsConnected, UsbIsConnected
<1>6. /\ "clocks" \in ready => ClocksInRange
      /\ "MAC" \in InUse => "clocks" \in ready /\ HCLK >= 25000
      /\ "USB" \in InUse => /\ "clocks" \in ready /\ PLL48CLK = 48000
                            /\ SERIAL_USB_BUFFERS_SIZE % ep1config.in = 0
  BY Clocks, InUseMeansBooted, ServicesAreThere
<1>7. /\ lock # "raw" => "SEMAPHORES" \in ready
      /\ shell # "none" => "WAITEXIT" \in ready
  BY InUseMeansBooted, ServicesAreThere
<1>8. \A service \in ready \cap DOMAIN Requires : Requires[service] \subseteq ready
  <2>1. ready \in {{}, {"clocks"}, {"clocks"} \cup Drivers, Everything}
    BY DEF FirmwareInv, MainInv, ReadyInv
  <2> QED BY <2>1, ServicesAreThere, ServicesOnTheWay
<1> QED BY <1>1, <1>2, <1>3, <1>4, <1>5, <1>6, <1>7, <1>8 DEF ReadyBeforeUse

(* Whatever runs has been initialised, on pins connected to its peripheral *)
(* and with the clocks it needs.                                           *)
THEOREM ReadyBeforeUseAlways == Spec => []ReadyBeforeUse
BY Ready, FirmwareInvariant, PTL
=============================================================================
