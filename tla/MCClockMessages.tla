--------------------------- MODULE MCClockMessages ---------------------------
(* Instances of ClockMessages, by the part of the interface that is called.*)
EXTENDS ClockMessages

Fn(fn, id, arg) == [fn |-> fn, id |-> id, arg |-> arg]

Sources ==
    SameName \cup DOMAIN Renamed \cup {"PLLC4_MUXED", "PLLM_OUT0"}

UfsMenu ==
    {Fn("ufs_clock_init", "none", 0), Fn("ufs_clock_deinit", "none", 0),
     Fn("ufs_disable_device", "none", 0), Fn("init_pll", "UTMI_PLL", 480000)}
UsbMenu ==
    {Fn("tracking", "none", on) : on \in BOOLEAN}
    \cup {Fn("usbf_clock_init", "none", 0), Fn("init_pll", "UTMI_PLL", 480000)}
PllMenu ==
    {Fn("init_pll", "PLLE", rate) : rate \in {50000, 100000}}
    \cup {Fn("init_pll", "XUSB_PLL", 480000), Fn("init_pll", "PLLM", 800000), Fn("disable_plle", "none", 0)}
    \cup {Fn("set_clk_src", "SE", "PLLP_OUT0"), Fn("set_clk_rate", "SE", 102000),
          Fn("clk_enable", "SE", 0), Fn("clk_disable", "SE", 0)}
QspiMenu ==
    {Fn("set_clk_src_rate", "PLLC4_MUXED", rate) : rate \in {160000, 270000, 400000}}
    \cup {Fn("enable_qspi", "PLLC4_MUXED", divisor) : divisor \in {2, 3}}
    \cup {Fn("enable_qspi", src, 2) : src \in {"PLLP_OUT0", "CLK_M"}}
    \cup {Fn("init_pll", "PLLC4", 800000), Fn("set_clk_src", "QSPI", "PLLP_OUT0"),
          Fn("set_clk_rate", "QSPI", 51000), Fn("clk_disable", "QSPI", 0)}
ModuleMenu ==
    {Fn("set_clk_src", "SOR0", src) : src \in Sources}
    \cup {Fn("set_clk_rate", id, 27000) : id \in {"SOR0", "SATACOLD"}}
    \cup {Fn("set_clk_src_rate", src, 54000) : src \in {"PLLD2_OUT0", "PLLM_OUT0"}}
    \cup {Fn(fn, id, 0) : fn \in {"clk_enable", "clk_disable", "rst_set", "rst_clear"},
                          id \in {"SOR0", "SATACOLD", "SATA_OOB", "I2C11"}}
DisplayMenu ==
    {Fn(fn, "none", 0) : fn \in {"display_unpowergate", "display_powergate"}}
    \cup {Fn(fn, "HOST1X", 0) : fn \in {"rst_set", "rst_clear"}}
MCMenus == {UfsMenu, UsbMenu, PllMenu, QspiMenu, ModuleMenu, DisplayMenu}
=============================================================================
