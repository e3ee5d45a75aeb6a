---------------------------- MODULE MCClockState ----------------------------
(* Instances of ClockState: the sources at their rates, and groups of      *)
(* modules that share a register or a PLL.                                 *)
EXTENDS ClockState

MCSourceRate ==
    [CLK_M |-> 192, PLLP_OUT0 |-> 4080, PLLM_OUT0 |-> 6000, PLLC4_OUT0_LJ |-> 3840]

MCGroups ==
    { {"SDMMC", "MEM"}, {"SATA", "SATA_OOB"}, {"SATACOLD"}, {"QSPI"}, {"SE"}, {"I2C"},
      {"SOC_THERM", "APB2APE"}, {"XUSB_HOST", "XUSBF"}, {"XUSB_PADCTL"} }
===============================================================================
