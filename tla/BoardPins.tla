----------------------------- MODULE BoardPins -----------------------------
(***************************************************************************)
(* The pin tables of firmware/board/board.h, and what a pin drives under a *)
(* setting of its registers.  PINn, the pads without a function, are not   *)
(* named here; they share one setting, Unused, where no table says         *)
(* otherwise.                                                              *)
(***************************************************************************)
EXTENDS Integers, TLC

Ports == <<"A", "B", "C", "D", "E", "F", "G", "H", "I">>
Pads  == 0..15

GPIOA == [ETH_RMII_REF_CLK |-> 1, ETH_RMII_MDIO |-> 2, VBUS |-> 3, ETH_RMII_CRS_DV |-> 7,
          PIN8 |-> 8, ITMS_DIR |-> 10, OTG_FS_DM |-> 11, OTG_FS_DP |-> 12, SWDIO |-> 13,
          SWCLK |-> 14, ITMS |-> 15]
GPIOB == [PIN0 |-> 0, SWO |-> 3, PIN4 |-> 4, ITDI |-> 5, PWR_BR |-> 6, IRST_SENSE |-> 8,
          IRST |-> 9, PIN10 |-> 10, TXEN |-> 11, TXD0 |-> 12, TXD1 |-> 13]
GPIOC == [VREF_SENSE |-> 0, ETH_RMII_MDC |-> 1, PIN2 |-> 2, PIN3 |-> 3, ETH_RMII_RXD0 |-> 4,
          ETH_RMII_RXD1 |-> 5, PIN6 |-> 6, PIN7 |-> 7, SDIO_D0 |-> 8, PIN9 |-> 9,
          PIN10 |-> 10, PIN11 |-> 11, SDIO_SCK |-> 12, OSC32_IN |-> 14, OSC32_OUT |-> 15]
GPIOD == [ITCKDI_DIR |-> 0, SDIO_CMD |-> 2, ITXD |-> 5, IRXD |-> 6, LED_BLUE |-> 12,
          LED_GREEN |-> 13, LED_AMBER |-> 14, LED_RED |-> 15]
GPIOH == [OSC_IN |-> 0, OSC_OUT |-> 1]

LINE_LED_BLUE  == <<"D", 12>>
LINE_LED_GREEN == <<"D", 13>>
LINE_LED_AMBER == <<"D", 14>>
LINE_LED_RED   == <<"D", 15>>
-----------------------------------------------------------------------------
(* A pin's fields in MODER, OTYPER, OSPEEDR, PUPDR, ODR, and AFRL or AFRH. *)
Unused == [moder |-> "input", otyper |-> "pushpull", ospeedr |-> "high",
           pupdr |-> "pullup", odr |-> "high", af |-> 0]

Floating     == [Unused EXCEPT !.pupdr = "floating"]
Output       == [Floating EXCEPT !.moder = "output"]
Analog       == [Floating EXCEPT !.moder = "analog"]
Alternate(n) == [Floating EXCEPT !.moder = "alternate", !.af = n]
UnusedAF(n)  == [Unused EXCEPT !.af = n]

VAL_GPIOA == [pad \in Pads |->
    CASE pad \in {GPIOA.ETH_RMII_REF_CLK, GPIOA.ETH_RMII_MDIO, GPIOA.ETH_RMII_CRS_DV} -> Alternate(11)
      [] pad \in {GPIOA.OTG_FS_DM, GPIOA.OTG_FS_DP} -> Alternate(10)
      [] pad \in {GPIOA.ITMS_DIR, GPIOA.ITMS} -> Output
      [] pad = GPIOA.VBUS  -> Analog
      [] pad = GPIOA.PIN8  -> [Floating EXCEPT !.odr = "low"]
      [] pad = GPIOA.SWDIO -> Alternate(0)
      [] pad = GPIOA.SWCLK -> [Alternate(0) EXCEPT !.pupdr = "pulldown"]
      [] OTHER -> Unused]

VAL_GPIOB == [pad \in Pads |->
    CASE pad \in {GPIOB.TXEN, GPIOB.TXD0, GPIOB.TXD1} -> Alternate(11)
      [] pad \in {GPIOB.ITDI, GPIOB.PWR_BR} -> Output
      [] pad = GPIOB.IRST       -> [Output EXCEPT !.otyper = "opendrain", !.af = 4]
      [] pad = GPIOB.IRST_SENSE -> [Floating EXCEPT !.otyper = "opendrain", !.af = 4]
      [] pad = GPIOB.SWO   -> Alternate(0)
      [] pad = GPIOB.PIN4  -> [Alternate(0) EXCEPT !.pupdr = "pullup"]
      [] pad = GPIOB.PIN0  -> [Unused EXCEPT !.odr = "low"]
      [] pad = GPIOB.PIN10 -> UnusedAF(5)
      [] OTHER -> Unused]

VAL_GPIOC == [pad \in Pads |->
    CASE pad \in {GPIOC.ETH_RMII_MDC, GPIOC.ETH_RMII_RXD0, GPIOC.ETH_RMII_RXD1} -> Alternate(11)
      [] pad \in {GPIOC.SDIO_D0, GPIOC.SDIO_SCK} -> Alternate(12)
      [] pad \in {GPIOC.VREF_SENSE, GPIOC.OSC32_IN, GPIOC.OSC32_OUT} -> Floating
      [] pad \in {GPIOC.PIN2, GPIOC.PIN3} -> UnusedAF(5)
      [] pad \in {GPIOC.PIN6, GPIOC.PIN7} -> UnusedAF(8)
      [] pad \in {GPIOC.PIN9, GPIOC.PIN10, GPIOC.PIN11} -> UnusedAF(12)
      [] OTHER -> Unused]

VAL_GPIOD == [pad \in Pads |->
    CASE pad = GPIOD.SDIO_CMD -> Alternate(12)
      [] pad \in {GPIOD.ITXD, GPIOD.IRXD} -> Alternate(7)
      [] pad \in {GPIOD.ITCKDI_DIR, GPIOD.LED_BLUE, GPIOD.LED_GREEN,
                  GPIOD.LED_AMBER, GPIOD.LED_RED} -> Output
      [] OTHER -> Unused]

VAL_GPIOE == [pad \in Pads |-> Unused]
VAL_GPIOF == [pad \in Pads |-> Unused]
VAL_GPIOG == [pad \in Pads |-> Unused]

VAL_GPIOH == [pad \in Pads |->
    IF pad \in {GPIOH.OSC_IN, GPIOH.OSC_OUT} THEN Floating ELSE Unused]

VAL_GPIOI == [pad \in Pads |-> Unused]

gpio_default_config ==
    [A |-> VAL_GPIOA, B |-> VAL_GPIOB, C |-> VAL_GPIOC, D |-> VAL_GPIOD, E |-> VAL_GPIOE,
     F |-> VAL_GPIOF, G |-> VAL_GPIOG, H |-> VAL_GPIOH, I |-> VAL_GPIOI]
-----------------------------------------------------------------------------
(* The STM32's pins after reset: inputs, except for the JTAG pins.         *)
Blank == [moder |-> "input", otyper |-> "pushpull", ospeedr |-> "low",
          pupdr |-> "floating", odr |-> "low", af |-> 0]

AfterReset(port, pad) ==
    CASE <<port, pad>> = <<"A", 13>> ->
             [Blank EXCEPT !.moder = "alternate", !.pupdr = "pullup", !.ospeedr = "high"]
      [] <<port, pad>> \in {<<"A", 15>>, <<"B", 4>>} ->
             [Blank EXCEPT !.moder = "alternate", !.pupdr = "pullup"]
      [] <<port, pad>> = <<"A", 14>> ->
             [Blank EXCEPT !.moder = "alternate", !.pupdr = "pulldown"]
      [] <<port, pad>> = <<"B", 3>> ->
             [Blank EXCEPT !.moder = "alternate", !.ospeedr = "high"]
      [] OTHER -> Blank

(* What a pin drives: a level, a peripheral (by its number), or nothing.   *)
(* A pull-up or pull-down yields to whatever the board drives.             *)
Drives(pin) ==
    CASE pin.moder = "output" /\ ~(pin.otyper = "opendrain" /\ pin.odr = "high") -> pin.odr
      [] pin.moder = "alternate" -> ToString(pin.af)
      [] OTHER -> "nothing"
=============================================================================
