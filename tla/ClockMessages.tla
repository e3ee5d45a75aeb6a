---------------------------- MODULE ClockMessages ----------------------------
(***************************************************************************)
(* The clock driver of the CPU boot loader (tegrabl_clk_bpmp.c): the same  *)
(* interface as the driver of the clock registers, but every operation is  *)
(* a message to the BPMP, the processor that owns the clocks.              *)
(*                                                                         *)
(* A function of the driver is the list of its messages (ToDo below).      *)
(* Some of its errors end a call; many are only printed.  A message may    *)
(* not arrive, or be obeyed while its answer is lost: both are one error   *)
(* of tegrabl_ccplex_bpmp_xfer to the driver.                              *)
(***************************************************************************)
EXTENDS Integers, SequencesExt

CONSTANTS
    Menus,      \* sets of calls; a behaviour makes calls of one of them
    MaxCalls, MaxLost

ASSUME BoundsAssumption == MaxCalls \in Nat /\ MaxLost \in Nat

---------------------------------------------------------------------------
(* Names.  A module is named as its clock and its reset.                   *)

\* tegrabl_module_to_bpmp_id: what has both, only a clock, or only a reset.
ClockAndReset ==
    {"UARTA", "UARTB", "UARTC", "UARTD", "UARTE", "UARTF", "UARTG", "GPCDMA", "QSPI",
     "XUSB_DEV", "XUSB_HOST", "XUSB_SS", "DSI", "DSIB", "DSIC", "DSID", "SOR0", "SOR1",
     "DPAUX", "DPAUX1", "HOST1X", "SE", "AUD_MCLK", "SATA", "PCIE", "AFI", "VIC",
     "SDMMC1", "SDMMC2", "SDMMC3", "SDMMC4", "SPI1", "SPI2", "SPI3", "SPI4",
     "I2C1", "I2C2", "I2C3", "I2C4", "I2C5", "I2C6", "I2C7", "I2C8", "I2C9", "I2C10",
     "I2C12", "I2C13", "I2C14"}
ClockOnly ==
    {"XUSB", "NVDISPLAYHUB", "NVDISPLAY_DSC", "NVDISPLAY_DISP", "SOR0_PAD_CLKOUT",
     "SOR1_PAD_CLKOUT", "SOR_SAFE", "SOR0_OUT", "SOR1_OUT", "SATA_OOB",
     "NVDISPLAY_P0", "NVDISPLAY_P1", "NVDISPLAY_P2"}
ResetOnly ==
    {"XUSB_PADCTL", "NVDISPLAY0_MISC", "SATACOLD", "PCIEXCLK",
     "NVDISPLAY0_HEAD0", "NVDISPLAY0_HEAD1", "NVDISPLAY0_HEAD2",
     "NVDISPLAY0_WGRP0", "NVDISPLAY0_WGRP1", "NVDISPLAY0_WGRP2",
     "NVDISPLAY0_WGRP3", "NVDISPLAY0_WGRP4", "NVDISPLAY0_WGRP5"}
HasClock(module) == module \in ClockAndReset \cup ClockOnly
HasReset(module) == module \in ClockAndReset \cup ResetOnly

CLK_MAX == "none"

\* src_clk_tegrabl_to_bpmp, where the names of the two sides differ; the
\* sources it does not know have no identifier.
Renamed == [CLK_S |-> "CLK_32K", PLLD2_OUT0 |-> "PLLD2", PLLD3_OUT0 |-> "PLLD3",
            NVDISPLAY_P0_CLK |-> "NVDISPLAY_P0", NVDISPLAY_P1_CLK |-> "NVDISPLAY_P1",
            NVDISPLAY_P2_CLK |-> "NVDISPLAY_P2", SOR_SAFE_CLK |-> "SOR_SAFE"]
SameName == {"PLLP_OUT0", "CLK_M", "PLLD_OUT1", "PLLDP", "SOR0", "SOR1", "SOR0_PAD_CLKOUT",
             "SOR1_PAD_CLKOUT", "DFLLDISP_DIV", "PLLDISPHUB_DIV", "PLLDISPHUB"}
IdOfSource(src) ==
    CASE src \in SameName       -> src
      [] src \in DOMAIN Renamed -> Renamed[src]
      [] OTHER                  -> CLK_MAX

\* src_clk_bpmp_to_tegrabl
Pllc4Outs == {"PLLC4_OUT1", "PLLC4_OUT2", "PLLC4_VCO_DIV2"}
SourceOfId(id) ==
    CASE id \in SameName  -> id
      [] id \in Pllc4Outs -> "PLLC4_MUXED"
      [] \E src \in DOMAIN Renamed : Renamed[src] = id ->
            CHOOSE src \in DOMAIN Renamed : Renamed[src] = id
      [] OTHER            -> "INVALID"

\* tegrabl_pllid_to_bpmp_pllid, and the PLLs it has an entry for.
Plls ==
    {"PLLP", "PLLC4", "PLLD", "PLLD2", "PLLD3", "PLLDP", "PLLE", "PLLM", "PLLMSB", "PLL_NUM",
     "SATA_PLL", "UTMI_PLL", "XUSB_PLL", "AON_PLL", "PLLDISPHUB"}
PllId(pll) ==
    CASE pll = "PLLC4"                          -> "PLLC4_VCO"
      [] pll \in {"SATA_PLL", "XUSB_PLL"}       -> "PLLP_OUT0"
      [] pll = "UTMI_PLL"                       -> "PLLU"
      [] pll = "AON_PLL"                        -> "PLLAON"
      [] pll \in {"PLLM", "PLLMSB", "PLL_NUM"}  -> CLK_MAX
      [] OTHER                                  -> pll

\* ufs_clk_data: 0 for a rate that is left, CLK_MAX for a parent that is.
Row(id, rate, parent) == [id |-> id, rate |-> rate, parent |-> parent]
UfsClocks ==
    << Row("OSC", 0, CLK_MAX), Row("CLK_M", 38400, CLK_MAX), Row("PLLU", 38400, "OSC"),
       Row("UTMIP_PLL_PWRSEQ", 38400, "PLLU"), Row("PLLREFE_REF", 60000, "PLLU"),
       Row("PLLREFE_IDDQ", 60000, "PLLREFE_REF"), Row("PLLREFE_OUT1", 625000, "PLLREFE_IDDQ"),
       Row("UFSHC", 51000, "PLLP_OUT0"), Row("UFSDEV_REF", 0, "CLK_M"),
       Row("MPHY_CORE_PLL_FIXED", 0, CLK_MAX), Row("MPHY_TX_1MHZ_REF", 0, CLK_MAX),
       Row("MPHY_IOBIST", 0, CLK_MAX), Row("MPHY_L0_TX_LS_3XBIT", 0, CLK_MAX),
       Row("MPHY_L0_TX_SYMB", 0, CLK_MAX), Row("MPHY_L0_RX_LS_BIT", 0, CLK_MAX),
       Row("MPHY_L0_RX_SYMB", 0, CLK_MAX), Row("MPHY_L0_RX_ANA", 0, CLK_MAX),
       Row("MPHY_L1_RX_ANA", 0, CLK_MAX) >>
UfsResets ==
    << "MPHY_CLK_CTL", "MPHY_L1_RX", "MPHY_L1_TX", "MPHY_L0_RX", "MPHY_L0_TX",
       "UFSHC", "UFSHC_AXI_M", "UFSHC_LP" >>
\* The rows of usb_clk_data that are used.
TrackingClocks ==
    << Row("USB2_HSIC_TRK", 9600, "OSC"), Row("USB2_TRK", 9600, "OSC"), Row("HSIC_TRK", 9600, "OSC") >>
DisplayDomains == << "DISP", "DISPB", "DISPC" >>

\* The calls of the interface.  A module or a source may be one that the tables
\* do not have; QSPI is given a source of the switch of tegrabl_car_clk_enable.
QspiSources == {"PLLC4_MUXED", "CLK_M", "PLLP_OUT0"}
InInterface(c) ==
    \/ c.fn \in {"clk_enable", "clk_disable", "rst_set", "rst_clear", "set_clk_src", "disable_plle",
                 "usbf_clock_init", "ufs_clock_init", "ufs_clock_deinit", "ufs_disable_device",
                 "display_unpowergate", "display_powergate"}
    \/ c.fn \in {"set_clk_rate", "set_clk_src_rate"} /\ c.arg \in Nat
    \/ c.fn = "enable_qspi" /\ c.id \in QspiSources /\ c.arg \in Nat
    \/ c.fn = "init_pll" /\ c.id \in Plls /\ c.arg \in Nat
    \/ c.fn = "tracking" /\ c.arg \in BOOLEAN

ASSUME MenusAssumption == \A m \in Menus : \A c \in m : InInterface(c)

---------------------------------------------------------------------------
VARIABLES
    clk,        \* BPMP: [clock -> [on, parent, rate]]; the rate 0 is unknown
    released,   \* BPMP: resets that are released
    powered,    \* BPMP: power domains that are on
    device,     \* registers of the UFS device: "joined", "clocked", "released"
    muxed,      \* pllc4_muxed_rate
    menu,
    call, todo, \* the function in progress and what it has left to do
    got,        \* the rate that it was told last; -1 if it was told none
    result,
    before,     \* ghost: the clocks that were on when it was called
    unheard,    \* ghost: its messages that were not answered
    unsure,     \* ghost: clocks last turned on or off by one of these
    calls, lost
bpmp == << clk, released, powered >>
vars == << bpmp, device, muxed, menu, call, todo, got, result, before, unheard, unsure, calls, lost >>

Clocks == DOMAIN clk

---------------------------------------------------------------------------
(* Messages, as elements of todo.  `Send' ends the call with an error if it *)
(* is not answered, after `Try' the call goes on.                          *)

Message(cmd, id, arg, must) == [cmd |-> cmd, id |-> id, arg |-> arg, must |-> must]
Send(cmd, id, arg) == Message(cmd, id, arg, TRUE)
Try(cmd, id, arg) == Message(cmd, id, arg, FALSE)
Local(cmd, arg) == Message(cmd, "none", arg, TRUE)
NotSupported == << Local("NotSupported", "none") >>

\* internal_tegrabl_car_set_clk_src and its like check the identifier first.
IfClock(module, messages) == IF HasClock(module) THEN messages ELSE NotSupported

\* internal_tegrabl_car_clk_disable asks first.  No answer means no.
DisableIfOn(id) == << Try("IS_ENABLED", id, "skip if off"), Send("DISABLE", id, 0) >>
TryDisableIfOn(id) == << Try("IS_ENABLED", id, "skip if off"), Try("DISABLE", id, 0) >>

\* Mutant of Program: the rate is set under the old parent.
ProgramRateFirst(row) ==
    << Try("ENABLE", row.id, 0) >>
    \o (IF row.rate = 0 THEN << >> ELSE << Try("SET_RATE", row.id, row.rate) >>)
    \o (IF row.parent = CLK_MAX THEN << >> ELSE << Try("SET_PARENT", row.id, row.parent) >>)

\* A row of a table: enable, parent, rate.
Program(row) ==
    << Try("ENABLE", row.id, 0) >>
    \o (IF row.parent = CLK_MAX THEN << >> ELSE << Try("SET_PARENT", row.id, row.parent) >>)
    \o (IF row.rate = 0 THEN << >> ELSE << Try("SET_RATE", row.id, row.rate) >>)

\* tegrabl_ufs_program_clock: the clocks, the resets, then the device.
UfsProgramClock ==
    FlattenSeq([i \in 1 .. Len(UfsClocks) |-> Program(UfsClocks[i])])
    \o [i \in 1 .. Len(UfsResets) |-> Try("DEASSERT", UfsResets[i], 0)]
    \o << Local("Join", "joined"), Local("Join", "clocked"), Local("Join", "released") >>

\* Mutant of UfsClockDeinit: from the first clock to the last.
UfsClockDeinitForward ==
    FlattenSeq([i \in 1 .. Len(UfsClocks) - 3 |-> TryDisableIfOn(UfsClocks[3 + i].id)])

\* tegrabl_ufs_clock_deinit, which leaves the first three clocks on.
UfsClockDeinit ==
    FlattenSeq([i \in 1 .. Len(UfsClocks) - 3 |-> TryDisableIfOn(UfsClocks[Len(UfsClocks) + 1 - i].id)])

TrackingClock(enable) ==
    FlattenSeq([i \in 1 .. Len(TrackingClocks) |->
        IF enable THEN Program(TrackingClocks[i]) ELSE TryDisableIfOn(TrackingClocks[i].id)])

UsbfClockInit ==
    << Try("SET_PARENT", "XUSB_DEV", "PLLP_OUT0"), Try("SET_RATE", "XUSB_DEV", 102000),
       Try("SET_RATE", "XUSB_SS", 120000), Try("SET_PARENT", "XUSB_FS", "PLL_U_48M"),
       Try("DEASSERT", "XUSB_DEV", 0), Try("DEASSERT", "XUSB_SS", 0), Try("DEASSERT", "XUSB_HOST", 0) >>

\* Mutant of InitPll: it does not ask whether the PLL runs.
InitPllUnasked(id, rate) == << Send("SET_RATE", id, rate), Send("ENABLE", id, 0) >>

InitPll(id, rate) ==
    << Try("IS_ENABLED", id, "done if on"), Send("SET_RATE", id, rate), Send("ENABLE", id, 0) >>

\* tegrabl_car_set_clk_rate enables the clock first, and forgets the error.
SetRate(id, rate) == << Try("ENABLE", id, 0), Send("SET_RATE", id, rate) >>

\* The branch of tegrabl_car_clk_enable for QSPI.  The source CLK_M is passed
\* on with the driver's number, which is GPU to the BPMP.
EnableQspi(src, divisor) ==
    (IF src = "PLLC4_MUXED" THEN << Try("GET_RATE", "PLLC4_VCO", 0) >> ELSE << >>)
    \o << Local("ChooseParent", [src |-> src, divisor |-> divisor]) >>

ToDo(c) ==
    CASE c.fn = "clk_enable"   -> IfClock(c.id, << Send("ENABLE", c.id, 0) >>)
      [] c.fn = "clk_disable"  -> IF HasClock(c.id) THEN DisableIfOn(c.id) ELSE << >>
      [] c.fn = "set_clk_src"  -> IF IdOfSource(c.arg) = CLK_MAX THEN NotSupported
                                  ELSE IfClock(c.id, << Send("SET_PARENT", c.id, IdOfSource(c.arg)) >>)
      [] c.fn = "set_clk_rate" -> IfClock(c.id, SetRate(c.id, c.arg))
      [] c.fn = "set_clk_src_rate" -> IF IdOfSource(c.id) = CLK_MAX THEN NotSupported
                                      ELSE << Send("SET_RATE", IdOfSource(c.id), c.arg) >>
      [] c.fn = "enable_qspi"  -> EnableQspi(c.id, c.arg)
      [] c.fn = "init_pll"     -> IF PllId(c.id) = CLK_MAX THEN NotSupported ELSE InitPll(PllId(c.id), c.arg)
      [] c.fn = "disable_plle" -> TryDisableIfOn("PLLE")
      [] c.fn = "rst_set"      -> IF HasReset(c.id) THEN << Try("ASSERT", c.id, 0) >> ELSE NotSupported
      [] c.fn = "rst_clear"    -> IF HasReset(c.id) THEN << Try("DEASSERT", c.id, 0) >> ELSE NotSupported
      [] c.fn = "tracking"     -> TrackingClock(c.arg)
      [] c.fn = "usbf_clock_init"  -> UsbfClockInit
      [] c.fn = "ufs_clock_init"   -> UfsProgramClock
      [] c.fn = "ufs_clock_deinit" -> UfsClockDeinit
      [] c.fn = "ufs_disable_device"  -> << Local("Part", "clocked"), Local("Part", "released") >>
      [] c.fn = "display_unpowergate" -> [i \in 1 .. 3 |-> Try("POWER_ON", DisplayDomains[i], 0)]
      [] c.fn = "display_powergate"   -> [i \in 1 .. 3 |-> Try("POWER_OFF", DisplayDomains[i], 0)]

---------------------------------------------------------------------------
(* The BPMP.                                                               *)

\* What a clock is derived from, itself included; no path is longer than DEPTH.
DEPTH == 5
Above(id) ==
    LET up[n \in 0 .. DEPTH] == IF n = 0 THEN id ELSE clk[up[n - 1]].parent
    IN  {up[n] : n \in 0 .. DEPTH}
Below(id) == {c \in Clocks : id \in Above(c)}

\* A clock keeps its divider, so that a new rate changes those derived from it.
SetTo(id, parent, rate) ==
    LET moved == IF << parent, rate >> = << clk[id].parent, clk[id].rate >> THEN {} ELSE Below(id)
    IN  [c \in Clocks |->
            IF c = id THEN [clk[c] EXCEPT !.parent = parent, !.rate = rate]
            ELSE IF c \in moved THEN [clk[c] EXCEPT !.rate = 0]
            ELSE clk[c]]

RateOf(id) ==
    CASE id = "PLLC4_OUT1"     -> clk["PLLC4_VCO"].rate \div 3
      [] id = "PLLC4_OUT2"     -> clk["PLLC4_VCO"].rate \div 5
      [] id = "PLLC4_VCO_DIV2" -> clk["PLLC4_VCO"].rate \div 2
      [] OTHER                 -> clk[id].rate

Refused(m) == m.cmd = "SET_PARENT" /\ m.arg \notin Clocks

Obeyed(m) ==
    /\ clk' = CASE m.cmd = "ENABLE"     -> [clk EXCEPT ![m.id].on = TRUE]
                [] m.cmd = "DISABLE"    -> [clk EXCEPT ![m.id].on = FALSE]
                [] m.cmd = "SET_PARENT" -> SetTo(m.id, m.arg, IF clk[m.id].parent = m.arg THEN clk[m.id].rate ELSE 0)
                [] m.cmd = "SET_RATE"   -> SetTo(m.id, clk[m.id].parent, m.arg)
                [] OTHER                -> clk
    /\ released' = CASE m.cmd = "DEASSERT" -> released \cup {m.id}
                     [] m.cmd = "ASSERT"   -> released \ {m.id}
                     [] OTHER              -> released
    /\ powered' = CASE m.cmd = "POWER_ON"  -> powered \cup {m.id}
                    [] m.cmd = "POWER_OFF" -> powered \ {m.id}
                    [] OTHER               -> powered

---------------------------------------------------------------------------
(* The driver.                                                             *)

Running == todo # << >>
m0 == Head(todo)
IsMessage(m) == m.cmd \notin {"NotSupported", "ChooseParent", "DeriveRate", "Join", "Part"}
Ghosts == << before, calls, menu, call >>

Call(c) ==
    /\ ~Running /\ calls < MaxCalls
    /\ call' = c /\ calls' = calls + 1
    /\ before' = {id \in Clocks : clk[id].on} /\ unheard' = {} /\ got' = -1 /\ result' = "ok"
    /\ IF c.fn = "set_clk_src_rate" /\ c.id = "PLLC4_MUXED"
       THEN muxed' = c.arg /\ todo' = << >>
       ELSE muxed' = muxed /\ todo' = ToDo(c)
    /\ UNCHANGED << bpmp, device, menu, unsure, lost >>

\* What the list of messages becomes when the clock is said to be on or off.
Asked(isOn) ==
    CASE m0.arg = "skip if off" -> IF isOn THEN Tail(todo) ELSE Tail(Tail(todo))
      [] m0.arg = "done if on"  -> IF isOn THEN << >> ELSE Tail(todo)

\* A message is obeyed and answered.
Answered ==
    /\ Running /\ IsMessage(m0) /\ ~Refused(m0)
    /\ Obeyed(m0)
    /\ todo' = IF m0.cmd = "IS_ENABLED" THEN Asked(clk[m0.id].on) ELSE Tail(todo)
    /\ got' = IF m0.cmd = "GET_RATE" THEN RateOf(m0.id) ELSE got
    /\ unsure' = IF m0.cmd \in {"ENABLE", "DISABLE"} THEN unsure \ {m0.id} ELSE unsure
    /\ UNCHANGED << device, muxed, result, unheard, lost, Ghosts >>

\* No answer comes, whether or not the message was obeyed.
Unanswered ==
    /\ Running /\ IsMessage(m0)
    /\ \/ Refused(m0) /\ UNCHANGED << bpmp, lost >>
       \/ ~Refused(m0) /\ lost < MaxLost /\ lost' = lost + 1 /\ (Obeyed(m0) \/ UNCHANGED bpmp)
    /\ todo' = CASE m0.must               -> << >>
                 [] m0.cmd = "IS_ENABLED" -> Asked(FALSE)
                 [] OTHER                 -> Tail(todo)
    /\ result' = IF m0.must THEN "error" ELSE result
    /\ unheard' = unheard \cup {<< m0.cmd, m0.id >>}
    /\ unsure' = IF m0.cmd \in {"ENABLE", "DISABLE", "IS_ENABLED"} THEN unsure \cup {m0.id} ELSE unsure
    /\ UNCHANGED << device, muxed, got, Ghosts >>

DivRoundOff(n, d) == (n \div d) + (IF n % d >= d \div 2 THEN 1 ELSE 0)

\* The source of QSPI: the output of PLLC4 whose divider fits the rate that was
\* asked for.  The code reads variables it has not set if it was told no rate.
Parents(src) ==
    CASE src = "CLK_M" -> {"GPU"}
      [] src = "PLLC4_MUXED" ->
            IF got <= 0 \/ muxed = 0 THEN Pllc4Outs
            ELSE CASE DivRoundOff(got, muxed) = 5 -> {"PLLC4_OUT2"}
                   [] DivRoundOff(got, muxed) = 2 -> {"PLLC4_VCO_DIV2"}
                   [] OTHER                       -> {"PLLC4_OUT1"}
      [] OTHER -> {"PLLP_OUT0"}

ChooseParent ==
    /\ Running /\ m0.cmd = "ChooseParent"
    /\ \E parent \in Parents(m0.arg.src) :
          todo' = << Send("SET_PARENT", "QSPI", parent), Send("GET_RATE", parent, 0),
                     Local("DeriveRate", m0.arg.divisor) >>
    /\ UNCHANGED << bpmp, device, muxed, got, result, unheard, unsure, lost, Ghosts >>

DeriveRate ==
    /\ Running /\ m0.cmd = "DeriveRate"
    /\ todo' = << Send("SET_RATE", "QSPI", got \div (DivRoundOff(m0.arg, 2) + 1)), Send("ENABLE", "QSPI", 0) >>
    /\ UNCHANGED << bpmp, device, muxed, got, result, unheard, unsure, lost, Ghosts >>

Refuse ==
    /\ Running /\ m0.cmd = "NotSupported"
    /\ todo' = << >> /\ result' = "error"
    /\ UNCHANGED << bpmp, device, muxed, got, unheard, unsure, lost, Ghosts >>

\* The registers of the UFS device are the processor's own.
WriteDevice ==
    /\ Running /\ m0.cmd \in {"Join", "Part"}
    /\ device' = IF m0.cmd = "Join" THEN device \cup {m0.arg} ELSE device \ {m0.arg}
    /\ todo' = Tail(todo)
    /\ UNCHANGED << bpmp, muxed, got, result, unheard, unsure, lost, Ghosts >>

---------------------------------------------------------------------------
\* What earlier stages leave on, besides the PLLs they may have started.
AtBoot == {"OSC", "CLK_M", "PLLP_OUT0"}
BootRate == [OSC |-> 38400, CLK_M |-> 38400, PLLP_OUT0 |-> 408000]
FirstRate(c, started) == IF c \in AtBoot THEN BootRate[c] ELSE IF c \in started THEN 800000 ELSE 0
AllClocks ==
    AtBoot \cup ClockAndReset \cup ClockOnly \cup Pllc4Outs \cup DOMAIN Renamed \cup SameName
    \cup {Renamed[src] : src \in DOMAIN Renamed}
    \cup {"PLLC4_VCO", "PLLU", "PLLP", "PLLD", "PLLE", "PLLAON", "PLL_U_48M", "XUSB_FS"}
    \cup {UfsClocks[i].id : i \in DOMAIN UfsClocks} \cup {TrackingClocks[i].id : i \in DOMAIN TrackingClocks}

Init ==
    /\ \E started \in SUBSET {"PLLC4_VCO", "PLLU"} :
          clk = [c \in AllClocks |->
                    [on |-> c \in AtBoot \cup started,
                     parent |-> IF c \in Pllc4Outs THEN "PLLC4_VCO" ELSE "OSC",
                     rate |-> FirstRate(c, started)]]
    /\ released = {} /\ powered = {} /\ device = {} /\ muxed = 0
    /\ menu \in Menus
    /\ call = [fn |-> "none"] /\ todo = << >> /\ got = -1 /\ result = "ok"
    /\ before = {} /\ unheard = {} /\ unsure = {} /\ calls = 0 /\ lost = 0

Next ==
    \/ \E c \in menu : Call(c)
    \/ Answered \/ Unanswered
    \/ ChooseParent \/ DeriveRate \/ Refuse \/ WriteDevice

Spec == Init /\ [][Next]_vars

---------------------------------------------------------------------------
(* Properties.                                                             *)

TypeOK ==
    /\ \A c \in Clocks : clk[c].on \in BOOLEAN /\ clk[c].parent \in Clocks /\ clk[c].rate \in Nat
    /\ result \in {"ok", "error"} /\ got \in Nat \cup {-1} /\ muxed \in Nat
    /\ device \subseteq {"joined", "clocked", "released"}
    /\ calls \in 0 .. MaxCalls /\ lost \in 0 .. MaxLost

Unheard(cmd) == \E id \in Clocks \cup released \cup {call.id} : << cmd, id >> \in unheard
AsInTable(rows) ==
    \A i \in DOMAIN rows :
        /\ clk[rows[i].id].on
        /\ rows[i].parent # CLK_MAX => clk[rows[i].id].parent = rows[i].parent
        /\ rows[i].rate # 0 => clk[rows[i].id].rate = rows[i].rate

\* What a function that reported success has done.  Where the driver goes on
\* after a message that was not answered, nothing is claimed if there was one.
Done ==
    LET id == call.id IN
    CASE call.fn = "clk_enable"       -> clk[id].on
      [] call.fn = "clk_disable"      -> HasClock(id) => ~clk[id].on \/ Unheard("IS_ENABLED")
      [] call.fn = "set_clk_src"      -> SourceOfId(clk[id].parent) = call.arg
      [] call.fn = "set_clk_rate"     -> clk[id].rate = call.arg /\ (clk[id].on \/ Unheard("ENABLE"))
      [] call.fn = "set_clk_src_rate" -> IF id = "PLLC4_MUXED" THEN muxed = call.arg
                                         ELSE clk[IdOfSource(id)].rate = call.arg
      [] call.fn = "enable_qspi"      ->
            /\ clk["QSPI"].on
            /\ SourceOfId(clk["QSPI"].parent) = id
            /\ clk["QSPI"].rate = RateOf(clk["QSPI"].parent) \div ((call.arg + 1) \div 2 + 1)
      [] call.fn = "init_pll"         ->
            clk[PllId(id)].on /\ (PllId(id) \in before \/ clk[PllId(id)].rate = call.arg)
      [] call.fn = "rst_set"          -> id \notin released \/ unheard # {}
      [] call.fn = "rst_clear"        -> id \in released \/ unheard # {}
      [] call.fn = "tracking"         ->
            unheard = {} => IF call.arg THEN AsInTable(TrackingClocks)
                            ELSE \A i \in DOMAIN TrackingClocks : ~clk[TrackingClocks[i].id].on
      [] call.fn = "ufs_clock_init"   ->
            /\ unheard = {} => AsInTable(UfsClocks) /\ ToSet(UfsResets) \subseteq released
            /\ device = {"joined", "clocked", "released"}
      [] call.fn = "ufs_clock_deinit" ->
            unheard = {} => \A i \in 4 .. Len(UfsClocks) : ~clk[UfsClocks[i].id].on
      [] call.fn = "display_unpowergate" -> unheard = {} => ToSet(DisplayDomains) \subseteq powered
      [] call.fn = "display_powergate"   -> unheard = {} => powered = {}
      [] OTHER -> TRUE

\* Success means that the BPMP has done what was asked, also for a call that is
\* repeated after one that was lost half-way, and whatever other functions did
\* in between: no rate is undone by a parent that is set after it.
SuccessMeansDone == TypeOK /\ (~Running /\ result = "ok" => Done)

\* A clock of UFS never runs without its parent, and no reset of UFS is released
\* before its clocks run, but for clocks that may not have heard the last order.
UfsInOrder ==
    /\ \A i \in DOMAIN UfsClocks :
          LET c == UfsClocks[i].id
              p == UfsClocks[i].parent
          IN  clk[c].on /\ p # CLK_MAX /\ clk[c].parent = p
                => clk[p].on \/ {c, p} \cap unsure # {}
    /\ Running /\ call.fn = "ufs_clock_init" /\ m0.cmd = "DEASSERT" =>
          \A i \in DOMAIN UfsClocks : clk[UfsClocks[i].id].on \/ UfsClocks[i].id \in unsure

\* A clock runs if all it is derived from is on.
Runs(id) == \A c \in Above(id) : clk[c].on

\* Bringing up a PLL never changes the rate of a clock that runs, as PLLs are
\* shared and may have been started by an earlier stage or another driver; but
\* for an unanswered question, which is taken as a no.
InitPllDisturbsNone ==
    [][call.fn = "init_pll" /\ Running /\ ~Unheard("IS_ENABLED")
          => \A id \in Clocks : Runs(id) => clk'[id].rate = clk[id].rate]_vars
=============================================================================
