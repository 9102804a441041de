SPECIFICATION Spec
CONSTANTS
    TCP_IP = tcp
    Transports = {tcp, usb_cdc}
    Main = main
    NoOne = none
    Properties = {extended}
INVARIANTS
    TypeOK
    NoPinGlitch
    ReadyBeforeUse
    SessionIsOwn
    AmberExplained
    ServesWhatItAnnounced
PROPERTIES
    ImplementsAtomicSession
    ShellReturns
