----------------------------- MODULE ClockState -----------------------------
(***************************************************************************)
(* The clock and reset driver of the stages that write the CAR registers   *)
(* themselves (tegrabl_clk_rst.c, tegrabl_clk_rst_priv.c).                 *)
(*                                                                         *)
(* For every module the driver remembers the source, the rate, the rate to *)
(* resume at and whether the module is out of reset, and never reads the   *)
(* registers back to learn them.  The registers outlive a stage of the     *)
(* boot; what the driver remembers starts again from its table.  Modules   *)
(* share registers (SATA, its OOB and cold reset; the XUSB clocks) and     *)
(* PLLs.  Rates are in units of 100 kHz; one instance stands for those of  *)
(* its module.                                                             *)
(***************************************************************************)
EXTENDS Integers, Sequences

CONSTANTS
    SourceRate,     \* rate of each source the driver can tell the rate of
    DivValues,      \* how many values the divisor field has
    Rates,          \* rates a caller may ask for
    Groups,         \* sets of modules that may be driven in one behaviour
    MaxCalls        \* bound on the calls of a behaviour

Listed == { "CLK_M", "PLLP_OUT0", "PLLM_OUT0", "PLLC4_OUT0_LJ", "PLLE" }
Plls == { "PLLP", "PLLM", "PLLC4", "PLLE" }

ASSUME ClockAssumption ==
    /\ DOMAIN SourceRate = Listed \ {"PLLE"}
    /\ DivValues \in Nat \ {0}
    /\ \A s \in DOMAIN SourceRate : SourceRate[s] \in Nat /\ SourceRate[s] > DivValues
    /\ Rates \subseteq Nat \ {0} /\ MaxCalls \in Nat

---------------------------------------------------------------------------
(* The table of modules: reset register, enable register, bit in both,     *)
(* sources of the multiplexer in the order of its eight values, table      *)
(* source and rate, kind of divider, and whether the source may change.    *)

None == "none"
NO_SRC == << >>

\* SRC_ID_LIST is given the eight sources and keeps seven of them.
SRC_ID_LIST(eight) == SubSeq(eight, 1, 7)

sdmmc == << "PLLP_OUT0", "PLLC4_OUT2_LJ", "PLLC4_OUT0_LJ", "PLLC4_OUT2", "PLLC4_OUT1",
            "PLLC4_OUT1_LJ", "CLK_M", "PLLC4_VCO" >>
qspi == << "PLLP_OUT0", "DUMMY", "DUMMY", "DUMMY", "PLLC4_MUXED", "DUMMY", "CLK_M", "DUMMY" >>
sata == << "PLLP_OUT0", "DUMMY", "DUMMY", "DUMMY", "DUMMY", "DUMMY", "CLK_M", "DUMMY" >>
i2c == << "PLLP_OUT0", "DUMMY", "DUMMY", "DUMMY", "DUMMY", "DUMMY", "CLK_S", "CLK_M" >>
fixed == << "PLLP_OUT0", "DUMMY", "DUMMY", "DUMMY", "DUMMY", "DUMMY", "DUMMY", "DUMMY" >>

Row(rstReg, enbReg, bit, mux, rate, div, switch) ==
    [rstReg |-> rstReg, enbReg |-> enbReg, bit |-> bit, mux |-> mux,
     src |-> "PLLP_OUT0",
     rate |-> rate, div |-> div, switch |-> switch]

CLK_RST_ARRAY(reg, rate) == Row(reg, reg, 0, fixed, rate, "FRACTIONAL", FALSE)
CLK_RST_ARRAY_ALLOW_SWITCH(reg, mux, rate, div) == Row(reg, reg, 0, mux, rate, div, TRUE)
CLK_RST_NO_SRC_ARRAY(reg, bit) == Row(reg, reg, bit, NO_SRC, 0, "INVALID", FALSE)
CLK_RST_NO_CLK_ARRAY(reg, bit) == Row(reg, None, bit, NO_SRC, 0, "INVALID", FALSE)
CLK_RST_NO_RST_ARRAY_ALLOW_SWITCH(reg, bit, mux, rate, div) ==
    Row(None, reg, bit, mux, rate, div, TRUE)
CLK_RST_NO_SRC_NO_RST_ARRAY(reg, bit) == Row(None, reg, bit, NO_SRC, 0, "INVALID", FALSE)

Table ==
    [ SDMMC     |-> CLK_RST_ARRAY_ALLOW_SWITCH("SDMMC4", sdmmc, 1020, "FRACTIONAL"),
      QSPI      |-> CLK_RST_ARRAY_ALLOW_SWITCH("QSPI", qspi, 1660, "FRACTIONAL"),
      SATA      |-> CLK_RST_ARRAY_ALLOW_SWITCH("SATA", sata, 1020, "FRACTIONAL"),
      SATA_OOB  |-> CLK_RST_NO_RST_ARRAY_ALLOW_SWITCH("SATA", 1, sata, 2040, "FRACTIONAL"),
      SATACOLD  |-> CLK_RST_NO_CLK_ARRAY("SATA", 1),
      SE        |-> CLK_RST_ARRAY("SE", 2040),
      I2C       |-> CLK_RST_ARRAY_ALLOW_SWITCH("I2C1", i2c, 200, "REGULAR"),
      XUSB_HOST |-> CLK_RST_NO_SRC_ARRAY("XUSB", 0),
      XUSB_DEV  |-> CLK_RST_NO_SRC_ARRAY("XUSB", 1),
      XUSB_PADCTL |-> CLK_RST_NO_SRC_ARRAY("XUSB", 2),
      XUSB_SS   |-> CLK_RST_NO_SRC_ARRAY("XUSB", 3),
      XUSBF     |-> CLK_RST_NO_SRC_ARRAY("XUSB", 4),
      SOC_THERM |-> CLK_RST_NO_SRC_ARRAY("SOC_THERM", 0),
      APB2APE   |-> CLK_RST_NO_SRC_NO_RST_ARRAY("APB2APE", 0) ]

\* MEM has no row: its instance count is 0 and module_support refuses it.
Modules == DOMAIN Table \cup {"MEM"}
module_support(m) == m \in DOMAIN Table

\* The modules with a clock source register, and those with a reset.
Sourced == { "SDMMC", "QSPI", "SATA", "SATA_OOB", "SE", "I2C" }
WithReset == DOMAIN Table \ { "SATA_OOB", "APB2APE" }

ASSUME TableAssumption ==
    /\ Sourced = {m \in DOMAIN Table : Table[m].mux # NO_SRC}
    /\ WithReset = {m \in DOMAIN Table : Table[m].rstReg # None}

VARIABLES
    clk_src, clk_src_idx, clk_rate, resume_rate, ON,    \* struct clk_info of the modules that
                    \* have a source (a reset, for ON); the others' never change
    enb, rst,       \* bits set in the enable and the reset registers
    mux, divisor,   \* fields of the clock source registers
    running, iddq,  \* PLLs enabled, PLLs powered down
    driven,         \* the modules of this behaviour
    calls,          \* calls made
    last,           \* history: the last call that did something
    left            \* history: the rate a module was disabled at, or 0

info == << clk_src, clk_src_idx, clk_rate, resume_rate, ON >>
source == << mux, divisor, iddq >>
vars == << info, enb, rst, mux, divisor, running, iddq, driven, calls, last, left >>

ClockBit(m) == << Table[m].enbReg, Table[m].bit >>
ResetBit(m) == << Table[m].rstReg, Table[m].bit >>

---------------------------------------------------------------------------
(* Rates and dividers.                                                     *)

\* get_clk_rate_khz
Divided(rate, div, type) ==
    IF type = "FRACTIONAL" THEN (2 * rate) \div (div + 2) ELSE rate \div (div + 1)

Distance(a, b) == IF a < b THEN b - a ELSE a - b

\* From the whole quotient on, the first divider that is slow enough or the one
\* before it, whichever is nearer; a regular divider is rounded up.  Two steps
\* of the loop are enough: they reach the next whole quotient.
get_divider(src, rate, type) ==
    IF type = "FRACTIONAL" THEN
        IF src < rate THEN 0
        ELSE LET from == 2 * (src \div rate - 1)
                 div1 == CHOOSE d \in from .. from + 2 :
                             /\ Divided(src, d, type) <= rate
                             /\ \A e \in from .. d - 1 : Divided(src, e, type) > rate
                 div2 == IF div1 = from THEN from ELSE div1 - 1
             IN  IF Distance(Divided(src, div1, type), rate)
                       < Distance(Divided(src, div2, type), rate)
                 THEN div1 ELSE div2
    ELSE (src + rate - 1) \div rate - 1

\* The place of a source in the list, or -1.  The loop reads an eighth entry,
\* past the seven: whether that word is the source or not, 7 or -1 is found,
\* and shifted into the three bits of the multiplexer either is 7.
get_src_idx(m, s) ==
    LET list == SRC_ID_LIST(Table[m].mux)
    IN  IF \E i \in 1 .. Len(list) : list[i] = s
        THEN (CHOOSE i \in 1 .. Len(list) :
                  list[i] = s /\ \A j \in 1 .. i - 1 : list[j] # s) - 1
        ELSE -1

PllOf == [CLK_M |-> None, PLLP_OUT0 |-> "PLLP", PLLM_OUT0 |-> "PLLM",
          PLLC4_OUT0_LJ |-> "PLLC4", PLLE |-> "PLLE"]

\* Mutant of check_clk_src_enable: every source is taken to run.
check_clk_src_enable_always(s) == TRUE

check_clk_src_enable(s) == s \in {"CLK_M"} \cup {t \in Listed : PllOf[t] \in running}

---------------------------------------------------------------------------
(* What the register writes do.                                            *)

\* Mutant of update_clk_src_reg: the divider is written, the source is not.
update_clk_src_reg_div(m, div, idx) ==
    /\ divisor' = [divisor EXCEPT ![m] = div % DivValues]
    /\ UNCHANGED << mux, iddq >>

\* The divider is not masked to its field; the bits above it are not modelled.
\* For SDMMC a PLLC4 that is off leaves its power-down mode first.
update_clk_src_reg(m, div, idx) ==
    /\ divisor' = [divisor EXCEPT ![m] = div % DivValues]
    /\ mux' = [mux EXCEPT ![m] = idx % 8]
    /\ iddq' = IF m = "SDMMC" /\ "PLLC4" \notin running THEN iddq \ {"PLLC4"} ELSE iddq

\* tegrabl_car_set_clk_rate once the rate of the source is known.
SetsRate(m, rate) ==
    LET src == SourceRate[clk_src[m]]
        div == get_divider(src, rate, Table[m].div)
    IN  /\ update_clk_src_reg(m, div, clk_src_idx[m])
        /\ clk_rate' = [clk_rate EXCEPT ![m] = Divided(src, div, Table[m].div)]

\* A clock thought to be off is enabled with the word 0x1, whatever its bit.
EnablesFirst(m) == IF clk_rate[m] = 0 THEN {<< Table[m].enbReg, 0 >>} ELSE {}

\* One more call that was not refused.
Note(op, m, arg) ==
    /\ calls < MaxCalls /\ calls' = calls + 1
    /\ last' = [op |-> op, module |-> m, arg |-> arg]
Done(m) == Note("other", m, 0)

---------------------------------------------------------------------------
(* tegrabl_clk_enb_set                                                     *)

XusbBit == [XUSB_HOST |-> 2, XUSB_DEV |-> 1, XUSB_SS |-> 3, XUSBF |-> 0]
EmcBits == {"EMC", "EMCSB"} \X {0}
ClockBits(m) ==
    IF m = "MEM" THEN EmcBits
    ELSE IF m \in DOMAIN Table /\ Table[m].enbReg # None THEN {ClockBit(m)} ELSE {}
Generic == Modules \ (DOMAIN XusbBit \cup {"MEM", "QSPI", "XUSB_PADCTL"})

\* Enabling MEM starts PLLM when the memory runs from it, and enables no clock.
EnableMem(onPllm) ==
    /\ Done("MEM")
    /\ "MEM" \in driven
    /\ running' = IF onPllm THEN running \cup {"PLLM"} ELSE running
    /\ iddq' = IF onPllm THEN iddq \ {"PLLM"} ELSE iddq
    /\ UNCHANGED << info, enb, rst, mux, divisor, driven, left >>

DisableMem ==
    /\ Done("MEM")
    /\ "MEM" \in driven
    /\ enb' = enb \ EmcBits
    /\ UNCHANGED << info, rst, source, running, driven, left >>

\* The XUSB bits are or-ed into the register: disabling ors nothing.
EnableXusb(m) ==
    /\ Done(m)
    /\ m \in DOMAIN XusbBit
    /\ enb' = enb \cup {<< "XUSB", XusbBit[m] >>}
    /\ UNCHANGED << info, rst, source, running, driven, left >>

DisableXusb(m) ==
    /\ Done(m)
    /\ m \in DOMAIN XusbBit
    /\ UNCHANGED << info, enb, rst, source, running, driven, left >>

\* QSPI is enabled with a source and a divider of its own driver, which the
\* table of this one does not learn; disabling it passes no data and is refused.
EnableQspi(s, div) ==
    /\ Done("QSPI")
    /\ "QSPI" \in driven
    /\ enb' = enb \cup {ClockBit("QSPI")}
    /\ mux' = [mux EXCEPT !["QSPI"] = CHOOSE i \in 0 .. 7 : qspi[i + 1] = s]
    /\ divisor' = [divisor EXCEPT !["QSPI"] = div % DivValues]
    /\ running' = IF s = "PLLC4_MUXED" THEN running \cup {"PLLC4"} ELSE running
    /\ iddq' = IF s = "PLLC4_MUXED" THEN iddq \ {"PLLC4"} ELSE iddq
    /\ UNCHANGED << info, rst, driven, left >>

EnableRefused(m) ==
    /\ m = "XUSB_PADCTL" \/ (m \in Generic /\ Table[m].enbReg = None)
    /\ UNCHANGED vars

DisableRefused(m) ==
    /\ m \in {"QSPI", "XUSB_PADCTL"} \/ (m \in Generic /\ Table[m].enbReg = None)
    /\ UNCHANGED vars

\* A module with a source is set to its resume rate, also when it runs already.
EnableSourced(m) ==
    /\ Note("enable", m, 0)
    /\ m \in Generic /\ m \in Sourced
    /\ enb' = enb \cup {ClockBit(m)} \cup EnablesFirst(m)
    /\ SetsRate(m, resume_rate[m])
    /\ left' = [left EXCEPT ![m] = 0]
    /\ UNCHANGED << clk_src, clk_src_idx, resume_rate, ON, rst, running, driven >>

EnableUnsourced(m) ==
    /\ Done(m)
    /\ m \in Generic /\ m \notin Sourced /\ Table[m].enbReg # None
    /\ enb' = enb \cup {ClockBit(m)}
    /\ UNCHANGED << info, rst, source, running, driven, left >>

\* Mutant of Disable: the rate to resume at is not kept.
DisableForgets(m) ==
    /\ Done(m)
    /\ m \in Generic \cap Sourced /\ Table[m].enbReg # None
    /\ enb' = enb \ {ClockBit(m)}
    /\ clk_rate' = [clk_rate EXCEPT ![m] = 0]
    /\ left' = [left EXCEPT ![m] = clk_rate[m]]
    /\ UNCHANGED << clk_src, clk_src_idx, resume_rate, ON, rst, source, running,
                    driven >>

\* Mutant of Disable: a clock that is off already is not told apart.
DisableUnguarded(m) ==
    /\ Done(m)
    /\ m \in Generic \cap Sourced /\ Table[m].enbReg # None
    /\ enb' = enb \ {ClockBit(m)}
    /\ resume_rate' = [resume_rate EXCEPT ![m] = clk_rate[m]]
    /\ clk_rate' = [clk_rate EXCEPT ![m] = 0]
    /\ left' = [left EXCEPT ![m] = clk_rate[m]]
    /\ UNCHANGED << clk_src, clk_src_idx, ON, rst, source, running, driven >>

Disable(m) ==
    /\ Done(m)
    /\ m \in Generic /\ Table[m].enbReg # None
    /\ enb' = enb \ {ClockBit(m)}
    /\ IF m \in Sourced /\ clk_rate[m] # 0
       THEN /\ resume_rate' = [resume_rate EXCEPT ![m] = clk_rate[m]]
            /\ clk_rate' = [clk_rate EXCEPT ![m] = 0]
            /\ left' = [left EXCEPT ![m] = clk_rate[m]]
       ELSE UNCHANGED << resume_rate, clk_rate, left >>
    /\ UNCHANGED << clk_src, clk_src_idx, ON, rst, source, running, driven >>

---------------------------------------------------------------------------
(* tegrabl_rst_set                                                         *)

\* The memory's own reset is never reached: module_support refuses MEM before.
RstBits(m) == IF m \in WithReset THEN {ResetBit(m)} ELSE {}

RstSet(m) ==
    /\ Done(m)
    /\ m \in WithReset
    /\ rst' = rst \cup RstBits(m)
    /\ ON' = [ON EXCEPT ![m] = FALSE]
    /\ UNCHANGED << clk_src, clk_src_idx, clk_rate, resume_rate, enb, source, running,
                    driven, left >>

RstClear(m) ==
    /\ Done(m)
    /\ m \in WithReset
    /\ rst' = rst \ RstBits(m)
    /\ ON' = [ON EXCEPT ![m] = TRUE]
    /\ UNCHANGED << clk_src, clk_src_idx, clk_rate, resume_rate, enb, source, running,
                    driven, left >>

RstRefused(m) ==
    /\ m \notin WithReset
    /\ UNCHANGED vars

---------------------------------------------------------------------------
(* tegrabl_car_set_clk_src                                                 *)

\* Whether the call has something to do: the source runs, the module may switch,
\* it is another source and its rate is known.
SrcAccepted(m, s) ==
    /\ module_support(m) /\ s \in Listed /\ check_clk_src_enable(s)
    /\ Table[m].switch /\ s # clk_src[m] /\ s \in DOMAIN SourceRate

SetSrcRefused(m, s) ==
    /\ ~SrcAccepted(m, s)
    /\ UNCHANGED vars

\* A clock thought to be off keeps its register: the new source is written when
\* its rate is set next.
SetSrc(m, s) ==
    /\ Done(m)
    /\ SrcAccepted(m, s)
    /\ LET rate == Divided(SourceRate[s], divisor[m], Table[m].div)
       IN  IF clk_rate[m] # 0
           THEN /\ update_clk_src_reg(m, divisor[m], get_src_idx(m, s))
                /\ clk_rate' = [clk_rate EXCEPT ![m] = rate]
                /\ UNCHANGED resume_rate
           ELSE /\ resume_rate' = [resume_rate EXCEPT ![m] = rate]
                /\ UNCHANGED << clk_rate, source >>
    /\ clk_src' = [clk_src EXCEPT ![m] = s]
    /\ clk_src_idx' = [clk_src_idx EXCEPT ![m] = get_src_idx(m, s)]
    /\ left' = [left EXCEPT ![m] = 0]
    /\ UNCHANGED << ON, enb, rst, running, driven >>

---------------------------------------------------------------------------
(* tegrabl_car_set_clk_rate, tegrabl_car_get_clk_rate                      *)

SetRate(m, rate) ==
    /\ Note("rate", m, rate)
    /\ m \in Sourced
    /\ enb' = enb \cup EnablesFirst(m)
    /\ SetsRate(m, rate)
    /\ left' = [left EXCEPT ![m] = 0]
    /\ UNCHANGED << clk_src, clk_src_idx, resume_rate, ON, rst, running, driven >>

SetRateRefused(m, rate) ==
    /\ m \notin Sourced
    /\ UNCHANGED vars

GetRate(m) == IF m \in WithReset /\ ON[m] THEN clk_rate[m] ELSE 0

---------------------------------------------------------------------------
(* PLLs that are sources, and the stages of the boot.                      *)

\* tegrabl_init_pllc4 and tegrabl_init_plle: nothing to do for one that runs.
InitPll(p) ==
    /\ Done(None)
    /\ p \in {"PLLC4", "PLLE"}
    /\ running' = running \cup {p} /\ iddq' = iddq \ {p}
    /\ UNCHANGED << info, enb, rst, mux, divisor, driven, left >>

DisablePlle ==
    /\ Done(None)
    /\ running' = running \ {"PLLE"} /\ iddq' = iddq \cup {"PLLE"}
    /\ UNCHANGED << info, enb, rst, mux, divisor, driven, left >>

TableSource == [m \in Sourced |-> Table[m].src]
TableIdx == [m \in Sourced |-> 0]
NoRate == [m \in Sourced |-> 0]
TableRate == [m \in Sourced |-> Table[m].rate]
AllOff == [m \in WithReset |-> FALSE]

Init ==
    /\ clk_src = TableSource /\ clk_src_idx = TableIdx
    /\ clk_rate = NoRate /\ resume_rate = TableRate /\ ON = AllOff
    /\ enb = EmcBits
    /\ rst = {ResetBit(m) : m \in WithReset}
    /\ mux = [m \in Sourced |-> 0] /\ divisor = [m \in Sourced |-> 0]
    /\ running \in { {"PLLP"}, {"PLLP", "PLLC4"} } /\ iddq = Plls \ running
    /\ driven \in Groups
    /\ calls = 0
    /\ last = [op |-> "other", module |-> None, arg |-> 0]
    /\ left = NoRate

\* The next stage has a table of its own and the registers as they are.
NextStage ==
    /\ Done(None)
    /\ clk_src' = TableSource /\ clk_src_idx' = TableIdx
    /\ clk_rate' = NoRate /\ resume_rate' = TableRate /\ ON' = AllOff
    /\ left' = NoRate
    /\ UNCHANGED << enb, rst, source, running, driven >>

\* Refused calls are not counted: there may be any number of them.
Next ==
    \/ \E onPllm \in BOOLEAN : EnableMem(onPllm)
    \/ DisableMem
    \/ \E s \in {"PLLP_OUT0", "PLLC4_MUXED", "CLK_M"}, div \in {0, 4} : EnableQspi(s, div)
    \/ \E m \in driven : EnableXusb(m)
    \/ \E m \in driven : DisableXusb(m)
    \/ \E m \in driven : EnableSourced(m)
    \/ \E m \in driven : EnableUnsourced(m)
    \/ \E m \in driven : EnableRefused(m)
    \/ \E m \in driven : Disable(m)
    \/ \E m \in driven : DisableRefused(m)
    \/ \E m \in driven : RstSet(m)
    \/ \E m \in driven : RstClear(m)
    \/ \E m \in driven : RstRefused(m)
    \/ \E m \in driven, s \in Listed : SetSrc(m, s)
    \/ \E m \in driven, s \in Listed : SetSrcRefused(m, s)
    \/ \E m \in driven, rate \in Rates : SetRate(m, rate)
    \/ \E m \in driven, rate \in Rates : SetRateRefused(m, rate)
    \/ \E p \in Plls : InitPll(p)
    \/ DisablePlle
    \/ NextStage

Spec == Init /\ [][Next]_vars

---------------------------------------------------------------------------
(* Properties.                                                             *)

TypeOK ==
    /\ clk_src \in [Sourced -> DOMAIN SourceRate] /\ clk_src_idx \in [Sourced -> -1 .. 6]
    /\ clk_rate \in [Sourced -> Nat] /\ resume_rate \in [Sourced -> Nat]
    /\ left \in [Sourced -> Nat] /\ ON \in [WithReset -> BOOLEAN]
    /\ mux \in [Sourced -> 0 .. 7] /\ divisor \in [Sourced -> 0 .. DivValues - 1]
    /\ running \subseteq Plls /\ iddq \subseteq Plls /\ running \cap iddq = {}
    /\ driven \in Groups /\ calls \in 0 .. MaxCalls
    /\ last.op \in {"enable", "rate", "other"} /\ last.module \in Modules \cup {None}

\* The source remembered is one that the multiplexer of the module has.  Nothing
\* in the driver refuses another: its index is -1, and 7 is written.
OwnSource(m) == \E i \in 1 .. 8 : Table[m].mux[i] = clk_src[m]

\* What the register of a module selects, and the inputs that toggle.  All
\* outputs of PLLC4 do when it runs.
Selected(m) == Table[m].mux[mux[m] + 1]
Outputs == { "PLLC4_MUXED", "PLLC4_VCO", "PLLC4_OUT1", "PLLC4_OUT1_LJ", "PLLC4_OUT2",
             "PLLC4_OUT2_LJ", "PLLC4_OUT0_LJ" }
Toggles(input) ==
    \/ input = "CLK_M" \/ (input \in Listed /\ PllOf[input] \in running)
    \/ input \in Outputs /\ "PLLC4" \in running

\* The source is one of the module's, and its rate above that of the first
\* divider too large for the field: nothing in the driver refuses others.
Expressible(m) ==
    /\ OwnSource(m)
    /\ clk_rate[m] > Divided(SourceRate[clk_src[m]], DivValues, Table[m].div)

\* After any calls, what the driver remembers of a clock it has set is what the
\* registers make of it: the source, the divided rate, and for a rate it reports
\* that the module is out of reset.  (QSPI's registers are set behind its back.)
RegistersAsCached ==
    /\ TypeOK
    /\ \A m \in Sourced \ {"QSPI"} :
          clk_rate[m] # 0 /\ Expressible(m) =>
            /\ Selected(m) = clk_src[m]
            /\ Divided(SourceRate[clk_src[m]], divisor[m], Table[m].div) = clk_rate[m]
            /\ GetRate(m) # 0 => ResetBit(m) \notin rst

\* The rate to resume at is never 0, by which the next enable would divide,
\* however often a clock is disabled and its source switched while it is off.
CanResume == \A m \in Sourced : resume_rate[m] # 0

\* A clock with a rate runs, however clocks and sources were switched, started
\* and stopped: the input that its register selects is one of the multiplexer's
\* that toggles, no PLL that is off and no dummy, "The source has to be running",
\* and it is not gated, "If the clock is currently disabled, enable it".  The former
\* holds as long as the source chosen is one the module has: another is accepted,
\* and the clock hangs on the eighth input, whatever that is.  The latter holds for
\* the clocks at bit 0, which is the bit the driver sets.
RatedRuns ==
    \A m \in Sourced :
        clk_rate[m] # 0 =>
            /\ OwnSource(m) => Toggles(Selected(m))
            /\ Table[m].bit = 0 => ClockBit(m) \in enb

\* A clock that was disabled at some rate is enabled at that rate again, which
\* asks for it anew of the divider: "rate at which clock will be resumed after
\* enable/re-enable".  A regular divider loses rate each time.
ResumesAsLeft ==
    [][LET m == last'.module
       IN  last'.op = "enable" /\ left[m] # 0 /\ Table[m].div = "FRACTIONAL" =>
              clk_rate'[m] = left[m]]_vars

===============================================================================
