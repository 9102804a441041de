--------------------------- MODULE Configuration ---------------------------
(***************************************************************************)
(* What the firmware is built with: the clock tree and the peripherals of  *)
(* firmware/cfg/mcuconf.h, the drivers of halconf.h, the kernel's services *)
(* of chconf.h, and what the microcontroller asks of them.  Frequencies    *)
(* are in kHz.                                                             *)
(***************************************************************************)
EXTENDS Integers, FiniteSets

(* The PLL runs from the crystal and feeds the system clock and, through   *)
(* its own divider, the 48 MHz domain of the USB.                          *)
STM32_HSECLK == 25000

PLL == [M |-> 25, N |-> 336, P |-> 2, Q |-> 7]

PLLCLKIN  == STM32_HSECLK \div PLL.M
PLLVCO    == PLLCLKIN * PLL.N
HCLK      == PLLVCO \div PLL.P      \* SYSCLK, STM32_HPRE_DIV1
PCLK1     == HCLK \div 4            \* STM32_PPRE1_DIV4
PCLK2     == HCLK \div 2            \* STM32_PPRE2_DIV2
PLL48CLK  == PLLVCO \div PLL.Q

(* The limits of the STM32F407 at the board's 3.3 V.                       *)
ClocksInRange ==
    /\ STM32_HSECLK % PLL.M = 0
    /\ 1000 <= PLLCLKIN /\ PLLCLKIN <= 2000
    /\ 100000 <= PLLVCO /\ PLLVCO <= 432000
    /\ HCLK <= 168000 /\ PCLK1 <= 42000 /\ PCLK2 <= 84000
-----------------------------------------------------------------------------
(* HAL_USE_...: the drivers that halInit initialises; every other one is   *)
(* left out of the build.                                                  *)
Drivers == {"PAL", "MAC", "SERIAL", "SERIAL_USB", "USB"}

(* The peripherals the drivers are built for.                              *)
STM32_SERIAL_USE == {"USART2"}
STM32_USB_USE    == {"OTG1"}

Peripherals == [MAC |-> {"ETH1"}, SERIAL |-> STM32_SERIAL_USE, USB |-> STM32_USB_USE]

(* SERIAL_USB_BUFFERS_SIZE.                                                *)
SERIAL_USB_BUFFERS_SIZE == 256

(* CH_CFG_USE_..., the kernel's subsystems; the variants with priorities   *)
(* of semaphores and messages, and recursive mutexes, are off.             *)
Subsystems ==
    {"TM", "TIMESTAMP", "REGISTRY", "WAITEXIT", "SEMAPHORES", "MUTEXES", "CONDVARS",
     "CONDVARS_TIMEOUT", "EVENTS", "EVENTS_TIMEOUT", "MESSAGES", "DYNAMIC"}

(* ... and its library.                                                    *)
Library ==
    {"MAILBOXES", "MEMCHECKS", "MEMCORE", "HEAP", "MEMPOOLS", "OBJ_FIFOS", "PIPES",
     "OBJ_CACHES", "DELEGATES", "JOBS", "FACTORY"}
-----------------------------------------------------------------------------
(* The pins the board connects a peripheral to, and the alternate function *)
(* that selects it there.                                                  *)
PinsOf ==
    [ETH1   |-> {<<"A", 1>>, <<"A", 2>>, <<"A", 7>>, <<"B", 11>>, <<"B", 12>>, <<"B", 13>>,
                 <<"C", 1>>, <<"C", 4>>, <<"C", 5>>},
     USART2 |-> {<<"D", 5>>, <<"D", 6>>},
     OTG1   |-> {<<"A", 11>>, <<"A", 12>>}]

FunctionOf == [ETH1 |-> 11, USART2 |-> 7, OTG1 |-> 10]
=============================================================================
