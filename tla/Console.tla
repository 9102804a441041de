------------------------------ MODULE Console ------------------------------
(***************************************************************************)
(* The shell over USB: shell_interface_thread of usb_cdc/shell_interface.c *)
(* and the callbacks of usb_cdc/usbcfg.c, which the USB driver calls from  *)
(* its interrupt.  The driver, the serial-over-USB layer (sdu...) and      *)
(* shellThread are ChibiOS; they are modelled as far as the two files rely *)
(* on them.                                                                *)
(***************************************************************************)
EXTENDS Integers, SequencesExt

VARIABLES interface,    \* the statement shell_interface_thread is at
          shell,        \* who uses wa_shell_thread: "none", "running", "ended"
          woken,        \* the shell's pending read returned MSG_RESET
          sdu,          \* g_serial_usb_driver: "raw", "stopped", "ready"
          stream,       \* its queues: "suspended", "open"
          usb,          \* state of USBD1
          saved,        \* that state before a suspend
          attached,     \* the device is connected to the bus
          endpoints,    \* endpoints the driver has initialised
          announced     \* what the host has read of the configuration

usbVars     == <<usb, saved, endpoints, stream, woken, announced>>
consoleVars == <<interface, shell, sdu, attached, usbVars>>
-----------------------------------------------------------------------------
(* Descriptors, as the host reads them                                     *)

DATA_EP      == 1       \* USB1_DATA_REQUEST_EP, USB1_DATA_AVAILABLE_EP
INTERRUPT_EP == 2       \* USB1_INTERRUPT_REQUEST_EP

Configuration(total, interfaces) ==
    [kind |-> "configuration", length |-> 9, total |-> total, interfaces |-> interfaces]
Interface(number, count) ==
    [kind |-> "interface", length |-> 9, number |-> number, endpoints |-> count]
Functional(length) == [kind |-> "functional", length |-> length]
Endpoint(number, direction, type, size) ==
    [kind |-> "endpoint", length |-> 7, number |-> number,
     direction |-> direction, type |-> type, size |-> size]

(* Mutant: the data endpoints forgot the direction bit.                    *)
vcom_configuration_descriptor_data_NoDirection ==
    << Configuration(67, 2),
       Interface(0, 1), Functional(5), Functional(5), Functional(4), Functional(5),
       Endpoint(INTERRUPT_EP, "in", "interrupt", 8),
       Interface(1, 2),
       Endpoint(DATA_EP, "out", "bulk", 64), Endpoint(DATA_EP, "out", "bulk", 64) >>

vcom_configuration_descriptor_data ==
    << Configuration(67, 2),
       Interface(0, 1), Functional(5), Functional(5), Functional(4), Functional(5),
       Endpoint(INTERRUPT_EP, "in", "interrupt", 8),
       Interface(1, 2),
       Endpoint(DATA_EP, "out", "bulk", 64), Endpoint(DATA_EP, "in", "bulk", 64) >>

(* The strings there are, and those the device descriptor names.           *)
vcom_strings == 0..3
vcom_device_descriptor == [length |-> 18, manufacturer |-> 1, product |-> 2, serial |-> 3]

(* NULL, which makes the driver stall the request, is <<>>.                *)
get_descriptor(dtype, dindex) ==
    CASE dtype = "device"                 -> <<vcom_device_descriptor>>
      [] dtype = "configuration"          -> vcom_configuration_descriptor_data
      [] dtype = "string" /\ dindex \in vcom_strings -> <<[kind |-> "string", index |-> dindex]>>
      [] OTHER                            -> <<>>

(* The driver's endpoints: type, and the packet sizes in each direction,   *)
(* 0 where there is none.                                                  *)
ep1config == [type |-> "bulk",      in |-> 64, out |-> 64]
ep2config == [type |-> "interrupt", in |-> 16, out |-> 0]
-----------------------------------------------------------------------------
ConsoleInit ==
    /\ interface = "absent" /\ shell = "none"
    /\ sdu = "raw" /\ attached = FALSE
    /\ usb = "stop" /\ saved = "stop" /\ endpoints = {}
    /\ stream = "suspended" /\ woken = FALSE /\ announced = <<>>

(* shell_interface_start_thread.                                           *)
StartInterface ==
    /\ interface = "absent"
    /\ interface' = "shell_init"
    /\ UNCHANGED <<shell, sdu, attached, usbVars>>

Advance(from, to) == interface = from /\ interface' = to

(* shellInit.                                                              *)
ShellInit ==
    /\ Advance("shell_init", "sdu_object_init")
    /\ UNCHANGED <<shell, sdu, attached, usbVars>>

(* usbcfg_init: sduObjectInit, sduStart, usbDisconnectBus with the pause,  *)
(* usbStart, usbConnectBus.                                                *)
SduObjectInit ==
    /\ Advance("sdu_object_init", "sdu_start")
    /\ sdu' = "stopped" /\ stream' = "suspended"
    /\ UNCHANGED <<shell, attached, usb, saved, endpoints, woken, announced>>

SduStart ==
    /\ Advance("sdu_start", "disconnect")
    /\ sdu' = "ready"
    /\ UNCHANGED <<shell, attached, usbVars>>

DisconnectBus ==
    /\ Advance("disconnect", "usb_start")
    /\ attached' = FALSE
    /\ UNCHANGED <<shell, sdu, usbVars>>

UsbStart ==
    /\ Advance("usb_start", "connect")
    /\ usb' = "ready"
    /\ UNCHANGED <<shell, sdu, attached, saved, endpoints, stream, woken, announced>>

ConnectBus ==
    /\ Advance("connect", "create")
    /\ attached' = TRUE
    /\ UNCHANGED <<shell, sdu, usbVars>>

(* The endless loop: chThdCreateStatic, chThdWait, one second of sleep.    *)
CreateShell ==
    /\ Advance("create", "wait")
    /\ shell' = "running" /\ woken' = FALSE
    /\ UNCHANGED <<sdu, attached, usb, saved, endpoints, stream, announced>>

WaitForShell ==
    /\ shell = "ended"
    /\ Advance("wait", "sleep")
    /\ shell' = "none"
    /\ UNCHANGED <<sdu, attached, usbVars>>

Sleep ==
    /\ Advance("sleep", "create")
    /\ UNCHANGED <<shell, sdu, attached, usbVars>>

InterfaceThread ==
    \/ ShellInit \/ SduObjectInit \/ SduStart \/ DisconnectBus \/ UsbStart
    \/ ConnectBus \/ CreateShell \/ WaitForShell \/ Sleep

(* shellThread ends when a read fails ...                                  *)
ShellFails ==
    /\ shell = "running" /\ (stream = "suspended" \/ woken)
    /\ shell' = "ended" /\ woken' = FALSE
    /\ UNCHANGED <<interface, sdu, attached, usb, saved, endpoints, stream, announced>>

(* ... or when the user leaves it.                                         *)
ShellLeft ==
    /\ shell = "running" /\ stream = "open" /\ usb = "active"
    /\ shell' = "ended"
    /\ UNCHANGED <<interface, sdu, attached, usbVars>>
-----------------------------------------------------------------------------
(* The bus: each event is the driver's change of state and then usb_event, *)
(* within one interrupt.  A read that waits is answered by MSG_RESET.      *)
OnBus(event) == attached /\ usb # "stop" /\ UNCHANGED <<interface, shell, sdu, attached>>

WakeReader == woken' = (shell = "running")

SuspendStream == stream' = "suspended" /\ WakeReader

BusReset ==
    /\ OnBus("reset")
    /\ usb' = "ready" /\ endpoints' = {} /\ announced' = <<>>
    /\ SuspendStream
    /\ UNCHANGED saved

(* Chapter 9 enumeration: the host reads the configuration, sets the       *)
(* address (USB_EVENT_ADDRESS, ignored), and chooses the configuration.    *)
ReadConfiguration ==
    /\ OnBus("get_descriptor") /\ usb \in {"ready", "selected"}
    /\ announced' = get_descriptor("configuration", 0)
    /\ UNCHANGED <<usb, saved, endpoints, stream, woken>>

SetAddress ==
    /\ OnBus("address") /\ usb = "ready"
    /\ usb' = "selected"
    /\ UNCHANGED <<saved, endpoints, stream, woken, announced>>

(* Mutant: sduConfigureHookI is not called.                                *)
Configured_NoHook ==
    /\ OnBus("configured") /\ usb = "selected" /\ announced # <<>>
    /\ usb' = "active" /\ endpoints' = {DATA_EP, INTERRUPT_EP}
    /\ UNCHANGED <<saved, stream, woken, announced>>

Configured ==
    /\ OnBus("configured") /\ usb = "selected" /\ announced # <<>>
    /\ usb' = "active" /\ endpoints' = {DATA_EP, INTERRUPT_EP}
    /\ stream' = "open" /\ WakeReader
    /\ UNCHANGED <<saved, announced>>

Unconfigured ==
    /\ OnBus("unconfigured") /\ usb = "active"
    /\ usb' = "selected" /\ endpoints' = {}
    /\ SuspendStream
    /\ UNCHANGED <<saved, announced>>

(* Mutant: a second suspend forgets the state before the first.            *)
Suspend_Twice ==
    /\ OnBus("suspend")
    /\ usb' = "suspended" /\ saved' = usb
    /\ SuspendStream
    /\ UNCHANGED <<endpoints, announced>>

Suspend ==
    /\ OnBus("suspend") /\ usb # "suspended"
    /\ usb' = "suspended" /\ saved' = usb
    /\ SuspendStream
    /\ UNCHANGED <<endpoints, announced>>

Wakeup ==
    /\ OnBus("wakeup") /\ usb = "suspended"
    /\ usb' = saved
    /\ stream' = "open"
    /\ UNCHANGED <<saved, endpoints, woken, announced>>

Bus ==
    \/ BusReset \/ ReadConfiguration \/ SetAddress \/ Configured
    \/ Unconfigured \/ Suspend \/ Wakeup

ConsoleNext == StartInterface \/ InterfaceThread \/ ShellFails \/ ShellLeft \/ Bus
-----------------------------------------------------------------------------
ConsoleTypeOK ==
    /\ interface \in {"absent", "shell_init", "sdu_object_init", "sdu_start", "disconnect",
                      "usb_start", "connect", "create", "wait", "sleep"}
    /\ shell \in {"none", "running", "ended"} /\ woken \in BOOLEAN
    /\ sdu \in {"raw", "stopped", "ready"} /\ stream \in {"suspended", "open"}
    /\ usb \in {"stop", "ready", "selected", "active", "suspended"}
    /\ saved \in {"stop", "ready", "selected", "active"}
    /\ attached \in BOOLEAN /\ endpoints \subseteq {DATA_EP, INTERRUPT_EP}
    /\ announced \in {<<>>, vcom_configuration_descriptor_data}

ConfigOf(number) == IF number = DATA_EP THEN ep1config ELSE ep2config

EndpointsOf(descriptors) ==
    {descriptors[i] : i \in {j \in DOMAIN descriptors : descriptors[j].kind = "endpoint"}}

(* The device does what it told the host: the configuration is as long as  *)
(* it says, and in a configured device every endpoint in it is initialised,*)
(* as the kind and with the direction announced; data endpoints serve both *)
(* directions with the packet size announced.                              *)
ServesWhatItAnnounced ==
    usb = "active" =>
        LET told == EndpointsOf(announced)
        IN  /\ announced[1].total =
                  FoldSeq(LAMBDA d, total : d.length + total, 0, announced)
            /\ \A e \in told : /\ e.number \in endpoints
                               /\ e.type = ConfigOf(e.number).type
                               /\ ConfigOf(e.number)[e.direction] # 0
            /\ \A direction \in {"in", "out"} :
                  Endpoint(DATA_EP, direction, "bulk", ep1config[direction]) \in told

(* The serial layer's queues are open only for a driver object that was    *)
(* started, and where endpoints carry its data they are those of the       *)
(* configuration; a wakeup before the host has configured the device opens *)
(* the queues, but there is no endpoint then.                              *)
StreamIsBacked ==
    stream = "open" =>
        /\ sdu = "ready"
        /\ usb \in {"ready", "selected", "active"}
        /\ IF usb = "active" THEN endpoints = {DATA_EP, INTERRUPT_EP} ELSE endpoints = {}

(* The one working area holds one shell at a time: a shell is there        *)
(* exactly while the interface thread waits for it.                        *)
OneShell == shell # "none" <=> interface = "wait"

(* As long as the host keeps the port configured, a shell is there again   *)
(* and again, whatever ended the one before.                               *)
ShellReturns ==
    <>[](usb = "active") => []<>(shell = "running" /\ stream = "open")
=============================================================================
