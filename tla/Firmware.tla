------------------------------ MODULE Firmware ------------------------------
(***************************************************************************)
(* The whole probe from reset: __early_init (firmware/board/board.c), main *)
(* (firmware/source/main.c), the set-up of the TCP server thread           *)
(* (network_init and network_tcp_server in network.c), the session lock    *)
(* its connections take (SessionLock) and the shell over USB (Console), on *)
(* the pins of BoardPins and with what Configuration builds in.  The       *)
(* threads interleave; what is said over the connections is GdbServer.     *)
(***************************************************************************)
EXTENDS SessionLock, Console, BoardPins, Configuration

VARIABLES boot,      \* the call __early_init or main executes next
          gpio,      \* per port, how many registers gpio_init has written
          ready,     \* the drivers and services initialised, and "clocks"
          red, blue, \* the other two LED lines
          net        \* the statement the TCP server thread is at

vars == <<boot, gpio, ready, red, blue, net, sessionVars, consoleVars>>

(* Mutant: the network is started before the session is initialised.       *)
After_NetworkFirst ==
    [reset |-> "gpio", gpio |-> "clock", clock |-> "hal", hal |-> "kernel", kernel |-> "leds",
     leds |-> "lwip", lwip |-> "tcp_thread", tcp_thread |-> "session",
     session |-> "shell_thread", shell_thread |-> "loop"]

(* The order of the calls: rccResetAHB1 and rccEnableAHB1, gpio_init,      *)
(* stm32_clock_init; then halInit, chSysInit and the rest of main.         *)
After ==
    [reset |-> "gpio", gpio |-> "clock", clock |-> "hal", hal |-> "kernel", kernel |-> "leds",
     leds |-> "session", session |-> "lwip", lwip |-> "tcp_thread",
     tcp_thread |-> "shell_thread", shell_thread |-> "loop"]

At(call)   == boot = call
Done(call) == boot = call /\ boot' = After[call]
-----------------------------------------------------------------------------
(* __early_init                                                            *)

(* Mutant: a pin gets its mode before what it is to drive.                 *)
gpio_init_order_ModeFirst == <<"moder", "otyper", "ospeedr", "pupdr", "odr", "afrl", "afrh">>

gpio_init_order == <<"otyper", "ospeedr", "pupdr", "odr", "afrl", "afrh", "moder">>

Registers == Len(gpio_init_order)

Init ==
    /\ SessionInit /\ ConsoleInit
    /\ boot = "reset"
    /\ gpio = [i \in DOMAIN Ports |-> 0]
    /\ ready = {}
    /\ red = FALSE /\ blue = FALSE
    /\ net = "absent"

Elsewhere == UNCHANGED <<net, consoleVars>>

ResetPorts == Done("reset") /\ Elsewhere /\ UNCHANGED <<gpio, ready, red, blue, sessionVars>>

(* One statement of gpio_init; stm32_gpio_init takes the ports in order.   *)
(* The LED lines are high from the last statement for port D on.           *)
WriteRegister ==
    LET port  == CHOOSE i \in DOMAIN Ports :
                    gpio[i] < Registers /\ \A j \in 1..(i - 1) : gpio[j] = Registers
        lights == Ports[port] = "D" /\ gpio[port] + 1 = Registers
    IN  /\ At("gpio")
        /\ \E i \in DOMAIN Ports : gpio[i] < Registers
        /\ gpio' = [gpio EXCEPT ![port] = @ + 1]
        /\ IF lights THEN LightLeds /\ red' = TRUE /\ blue' = TRUE
                     ELSE UNCHANGED <<red, blue, sessionVars>>
        /\ Elsewhere /\ UNCHANGED <<boot, ready>>

(* Leaving gpio_init.                                                      *)
PinsAreSet ==
    /\ Done("gpio") /\ \A i \in DOMAIN Ports : gpio[i] = Registers
    /\ Elsewhere /\ UNCHANGED <<gpio, ready, red, blue, sessionVars>>

Initialise(what) ==
    /\ ready' = ready \cup what
    /\ Elsewhere /\ UNCHANGED <<gpio, red, blue, sessionVars>>

(* stm32_clock_init, halInit (with boardInit, which is empty), chSysInit.  *)
InitClocksAndKernel ==
    \/ Done("clock")  /\ Initialise({"clocks"})
    \/ Done("hal")    /\ Initialise(Drivers)
    \/ Done("kernel") /\ Initialise(Subsystems \cup Library)

(* main: palClearLine for the four LED lines ...                           *)
ClearAllLeds ==
    /\ Done("leds")
    /\ ClearLeds /\ red' = FALSE /\ blue' = FALSE
    /\ Elsewhere /\ UNCHANGED <<gpio, ready>>

(* ... gdb_session_init, which ends with a release ...                     *)
InitSession ==
    /\ At("session")
    /\ ObjectInit \/ ReleaseSteps(Main)
    /\ boot' = IF pc'[Main] = "started" THEN After[boot] ELSE boot
    /\ Elsewhere /\ UNCHANGED <<gpio, ready, red, blue>>

(* ... network_init: lwipInit, then the thread ...                         *)
InitLwip == Done("lwip") /\ Elsewhere /\ UNCHANGED <<gpio, ready, red, blue, sessionVars>>

CreateTcpThread ==
    /\ Done("tcp_thread")
    /\ net' = "new"
    /\ UNCHANGED <<gpio, ready, red, blue, sessionVars, consoleVars>>

(* ... shell_interface_start_thread ...                                    *)
CreateShellInterface ==
    /\ Done("shell_thread")
    /\ StartInterface
    /\ UNCHANGED <<gpio, ready, red, blue, net, sessionVars>>

(* ... and the endless loop.                                               *)
ToggleRed ==
    /\ At("loop")
    /\ red' = ~red
    /\ UNCHANGED <<boot, gpio, ready, blue, net, sessionVars, consoleVars>>

Boot ==
    \/ ResetPorts \/ WriteRegister \/ PinsAreSet \/ InitClocksAndKernel \/ ClearAllLeds
    \/ InitSession \/ InitLwip \/ CreateTcpThread \/ CreateShellInterface
-----------------------------------------------------------------------------
(* network_tcp_server up to its endless loop: LWIP_ERROR ends the thread   *)
(* when netconn_new or netconn_bind fails.  What netconn_listen returns is *)
(* not looked at; if it fails, every netconn_accept fails too.             *)
SetUpServer ==
    /\ \/ net = "new"    /\ net' \in {"bind", "exited"}
       \/ net = "bind"   /\ net' \in {"listen", "exited"}
       \/ net = "listen" /\ net' = "deaf"
    /\ UNCHANGED <<boot, gpio, ready, red, blue, sessionVars, consoleVars>>

Listen ==
    /\ net = "listen" /\ net' = "serving"
    /\ Begin(TCP_IP)
    /\ UNCHANGED <<boot, gpio, ready, red, blue, consoleVars>>

Transport(t) ==
    \/ t = TCP_IP /\ Listen
    \/ t # TCP_IP /\ StartThread(t) /\ UNCHANGED <<boot, gpio, ready, red, blue, net, consoleVars>>
    \/ /\ LockSteps(t) \/ HandleSteps(t) \/ BeginRelease(t) \/ ReleaseSteps(t)
       /\ UNCHANGED <<boot, gpio, ready, red, blue, net, consoleVars>>

Usb ==
    /\ InterfaceThread \/ ShellFails \/ ShellLeft \/ Bus
    /\ UNCHANGED <<boot, gpio, ready, red, blue, net, sessionVars>>

Next ==
    \/ Boot \/ ToggleRed \/ SetUpServer
    \/ \E t \in Transports : Transport(t)
    \/ Usb

(* Main, the interface thread and the shell are above the TCP server's     *)
(* final priority, and nothing they execute here waits for it; whether the *)
(* host, a client or a failing allocation does anything is left open.      *)
Fairness ==
    /\ WF_vars(Boot)
    /\ WF_vars(InterfaceThread /\ UNCHANGED <<boot, gpio, ready, red, blue, net, sessionVars>>)
    /\ WF_vars(ShellFails /\ UNCHANGED <<boot, gpio, ready, red, blue, net, sessionVars>>)

Spec == Init /\ [][Next]_vars /\ Fairness
-----------------------------------------------------------------------------
(* Every variable has its type.                                            *)
TypeOK ==
    /\ SessionTypeOK /\ ConsoleTypeOK
    /\ boot \in DOMAIN After \cup {"loop"}
    /\ gpio \in [DOMAIN Ports -> 0..Registers]
    /\ ready \subseteq {"clocks"} \cup Drivers \cup Subsystems \cup Library
    /\ red \in BOOLEAN /\ blue \in BOOLEAN
    /\ net \in {"absent", "new", "bind", "listen", "deaf", "serving", "exited"}

(* A pin while stm32_gpio_init runs: the fields written so far.            *)
Pin(i, pad) ==
    LET port    == Ports[i]
        new     == gpio_default_config[port][pad]
        old     == AfterReset(port, pad)
        written == {gpio_init_order[k] : k \in 1..gpio[i]}
        Of(field) == IF field \in written THEN new[field] ELSE old[field]
    IN  [moder |-> Of("moder"), otyper |-> Of("otyper"), ospeedr |-> Of("ospeedr"),
         pupdr |-> Of("pupdr"), odr |-> Of("odr"),
         af |-> IF (IF pad < 8 THEN "afrl" ELSE "afrh") \in written THEN new.af ELSE old.af]

(* No pin is driven on its way from reset to its final setting by          *)
(* anything but what drives it before or after: the debugged target's      *)
(* reset line IRST, in particular, is never pulled low, and no peripheral  *)
(* is connected to a pin that is not its own.                              *)
NoPinGlitch ==
    At("gpio") =>
        \A i \in DOMAIN Ports, pad \in Pads :
            Drives(Pin(i, pad)) \in {Drives(AfterReset(Ports[i], pad)),
                                     Drives(gpio_default_config[Ports[i]][pad])}

Setting(line) == Pin(CHOOSE i \in DOMAIN Ports : Ports[i] = line[1], line[2])

Connected(peripheral) ==
    \A line \in PinsOf[peripheral] :
        Setting(line).moder = "alternate" /\ Setting(line).af = FunctionOf[peripheral]

(* The drivers in use: main's lines, lwIP's MAC, the USB of the shell.     *)
(* The serial driver is built and initialised, but nothing starts it.      *)
InUse ==
    {driver \in {"PAL", "MAC", "USB", "SERIAL_USB"} :
        CASE driver = "PAL" -> pc[Main] \notin {"gpio", "leds"}
          [] driver = "MAC" -> net # "absent"
          [] OTHER          -> usb # "stop"}

(* What chconf.h says a service "Requires"; of alternatives, all.          *)
Requires ==
    [CONDVARS  |-> {"MUTEXES"},   CONDVARS_TIMEOUT |-> {"CONDVARS"},
     MAILBOXES |-> {"SEMAPHORES"}, EVENTS_TIMEOUT  |-> {"EVENTS"},
     HEAP |-> {"MEMCORE", "MUTEXES"}, DYNAMIC |-> {"WAITEXIT", "HEAP", "MEMPOOLS"}]

(* What runs has been initialised: lines are switched as outputs only, a   *)
(* client is accepted and the shell reads only behind main's and their own *)
(* set-up, and the shell's working area and queues are there for one.  A   *)
(* driver in use was built in and initialised, with the clock it needs;    *)
(* so is every kernel service.  A driver that halInit initialises, used or *)
(* not, finds the pins already connected to its peripheral.                *)
ReadyBeforeUse ==
    /\ red \/ blue \/ amber \/ green =>
           \A line \in {LINE_LED_BLUE, LINE_LED_GREEN, LINE_LED_AMBER, LINE_LED_RED} :
               Setting(line).moder = "output"
    /\ net # "absent" => lock # "raw"
    /\ pc[TCP_IP] # "absent" => net = "serving"
    /\ shell # "none" => sdu = "ready" /\ usb # "stop"
    /\ StreamIsBacked /\ OneShell
    /\ InUse \subseteq ready
    /\ \A driver \in ready \cap DOMAIN Peripherals :
           \A peripheral \in Peripherals[driver] : Connected(peripheral)
    /\ "clocks" \in ready => ClocksInRange
    /\ "MAC" \in InUse => "clocks" \in ready /\ HCLK >= 25000
    /\ "USB" \in InUse => /\ "clocks" \in ready /\ PLL48CLK = 48000
                          /\ SERIAL_USB_BUFFERS_SIZE % ep1config.in = 0
    /\ lock # "raw" => "SEMAPHORES" \in ready
    /\ shell # "none" => "WAITEXIT" \in ready
    /\ \A service \in ready \cap DOMAIN Requires : Requires[service] \subseteq ready

=============================================================================
