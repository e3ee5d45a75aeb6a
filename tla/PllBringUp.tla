----------------------------- MODULE PllBringUp -----------------------------
(***************************************************************************)
(* The PLLs of the SoC (tegrabl_clk_soc_priv.c) and the clocks of UFS      *)
(* (tegrabl_clk_ufs.c): how each is powered, programmed, enabled and       *)
(* awaited, by calls that any boot stage may repeat in any order, while    *)
(* the hardware locks when it will, or never.                              *)
(*                                                                         *)
(* A function of the driver is the list of its register writes and polls   *)
(* (ToDo below), of which CpuStep does one.  A write that the properties   *)
(* cannot tell from another (spread spectrum, loop filters, delays) is     *)
(* left out.                                                               *)
(***************************************************************************)
EXTENDS Naturals, Sequences

CONSTANTS
    Polls,              \* polls of a wait with a bound (100, 300 and 1000)
    ChannelChoices,     \* sets of PLLs that feed the channels of the memory
    MaxCalls            \* bound on the calls

ASSUME BoundsAssumption == Polls \in Nat \ {0} /\ MaxCalls \in Nat
ASSUME ChannelsAssumption == ChannelChoices \subseteq SUBSET {"PLLM", "PLLMSB"}

Plls == {"PLLC4", "PLLE", "PLLREFE", "PLLAON", "UTMIPLL", "PLLM", "PLLMSB"}

VARIABLES
    pll,            \* [Plls -> on, power (out of IDDQ), div, lock]
    fractional,     \* bit 14 of PLLAON_SETUP: frequency lock only
    ufs,            \* what of UFS is clocked or out of reset
    channels,       \* McEmemAdrCfgChannelEnable
    call, todo,     \* the function in progress and what it has left to do
    polls,          \* polls left of the wait in progress
    result,         \* what the last function returned
    up, late,       \* ghosts: PLLs reported up; PLLs whose polls ran out
    calls
vars == << pll, fractional, ufs, channels, call, todo, polls, result, up, late, calls >>

---------------------------------------------------------------------------
(* One register write or wait, as an element of todo.                      *)

Op(op, p, arg) == [op |-> op, pll |-> p, arg |-> arg]
Power(p) == Op("power", p, TRUE)            \* DISABLE_IDDQ and a delay
PowerDown(p) == Op("power", p, FALSE)
Divide(p, div) == Op("divide", p, div)
Enable(p) == Op("enable", p, TRUE)          \* ENABLE_PLL
Disable(p) == Op("enable", p, FALSE)        \* DISABLE_PLL
\* WAIT_PLL_LOCK, and the poll of init_plle: without a bound.
Await(p) == Op("await", p, "full")
\* aon_pll_lock, which fails when its polls run out, and the polls of UTMIPLL
\* and PLLREFE, after which the function goes on in any case.
LockOrFail(p, bit) == Op("lockOrFail", p, bit)
LockOrGoOn(p) == Op("lockOrGoOn", p, "full")
Ufs(part) == Op("ufs", "none", part)

\* UPDATE_PLL_BASE writes the whole register, the enable bit included.
UpdateBase(p, div) == << Disable(p), Divide(p, div) >>

---------------------------------------------------------------------------
(* The functions.                                                          *)

\* Mutant of InitPllc4: the PLL stays in its power-down mode.
InitPllc4InIddq == << Divide("PLLC4", "C4"), Enable("PLLC4"), Await("PLLC4") >>

InitPllc4 == << Power("PLLC4"), Divide("PLLC4", "C4"), Enable("PLLC4"), Await("PLLC4") >>

InitPllaon ==
    << Op("fractional", "PLLAON", TRUE), PowerDown("PLLAON") >>
    \o UpdateBase("PLLAON", "AON")
    \o << Power("PLLAON"), Enable("PLLAON"), LockOrFail("PLLAON", "freq"),
          Op("fractional", "PLLAON", FALSE), LockOrFail("PLLAON", "full") >>

\* The reference of PLLE is the crystal; PLLREFE is programmed all the same.
InitPlle ==
    << Disable("PLLE"), PowerDown("PLLE"), Divide("PLLREFE", "by1"), Power("PLLE"),
       Divide("PLLE", "E"), Enable("PLLE"), Await("PLLE") >>
DisablePlle == << Disable("PLLE"), PowerDown("PLLE") >>

InitUtmipll ==
    << Power("UTMIPLL"), Divide("UTMIPLL", "UTMI"), Enable("UTMIPLL"), LockOrGoOn("UTMIPLL") >>

\* Mutant of StartPll: the case of PLLMSB waits for PLLM.
StartPllCopied(p) == UpdateBase(p, "M") \o << Enable(p), Await("PLLM") >>

\* tegrabl_clk_start_pll.
StartPll(p) == UpdateBase(p, "M") \o << Enable(p), Await(p) >>

InitPllm ==
    (IF "PLLM" \in channels THEN << Power("PLLM") >> \o StartPll("PLLM") ELSE << >>)
    \o (IF "PLLMSB" \in channels THEN << Power("PLLMSB") >> \o StartPll("PLLMSB") ELSE << >>)

\* tegrabl_ufs_xusb_device_setup_sw_control_utmi_pll, the bring-up once more.
UfsUtmipll == IF pll["UTMIPLL"].lock = "full" THEN << >> ELSE InitUtmipll

\* tegrabl_ufs_clock_init: tegrabl_ufs_clock_enable, then the resets.  PLLREFE
\* is not looked at before it is programmed.
UfsClockInit ==
    UfsUtmipll
    \o << Power("PLLREFE"), Divide("PLLREFE", "by2"), Enable("PLLREFE"), LockOrGoOn("PLLREFE"),
          Ufs("clocks"), Ufs("outOfReset"), Ufs("deviceClock"), Ufs("deviceOutOfReset") >>
UfsDisableDevice == << Ufs("deviceClockOff"), Ufs("deviceReset") >>

\* What each function checks before it does anything.
IsUp(f) ==
    CASE f = "pllc4"   -> pll["PLLC4"].on
      [] f = "pllaon"  -> pll["PLLAON"].on
      [] f = "plle"    -> pll["PLLE"].on /\ pll["PLLE"].lock = "full"
      [] f = "utmipll" -> pll["UTMIPLL"].lock = "full"
      [] f = "pllm"    -> pll["PLLM"].on
      [] OTHER         -> FALSE

ToDo(f) ==
    CASE f = "pllc4" -> InitPllc4 [] f = "pllaon" -> InitPllaon [] f = "plle" -> InitPlle
      [] f = "utmipll" -> InitUtmipll [] f = "pllm" -> InitPllm [] f = "ufs" -> UfsClockInit
      [] f = "disablePlle" -> DisablePlle [] f = "disableUfs" -> UfsDisableDevice

Functions == { "pllc4", "pllaon", "plle", "utmipll", "pllm", "ufs", "disablePlle", "disableUfs" }

\* The PLLs a caller takes to be up when the function reports success.
Target(f) ==
    CASE f = "pllc4" -> {"PLLC4"} [] f = "pllaon" -> {"PLLAON"} [] f = "plle" -> {"PLLE"}
      [] f = "utmipll" -> {"UTMIPLL"} [] f = "pllm" -> channels
      [] f = "ufs" -> {"UTMIPLL", "PLLREFE"} [] OTHER -> {}

---------------------------------------------------------------------------
(* Calls and returns.                                                      *)

Hardware == << pll, fractional, ufs, channels >>

Return(f, r) ==
    /\ call' = "none" /\ todo' = << >> /\ polls' = Polls /\ result' = r
    /\ up' = IF r = "ok" THEN up \cup Target(f) ELSE up

Call(f) ==
    /\ call = "none" /\ calls < MaxCalls /\ calls' = calls + 1
    /\ ~IsUp(f)
    /\ call' = f /\ todo' = ToDo(f) /\ result' = "none"
    /\ up' = IF f = "disablePlle" THEN up \ {"PLLE"} ELSE up
    /\ UNCHANGED << polls, late >> /\ UNCHANGED Hardware

AlreadyUp(f) ==
    /\ call = "none" /\ calls < MaxCalls /\ calls' = calls + 1
    /\ IsUp(f)
    /\ Return(f, "ok")
    /\ UNCHANGED late /\ UNCHANGED Hardware

\* tegrabl_car_init_pll_with_rate of a PLL that is set up elsewhere or not
\* known, and tegrabl_init_pllm without its parameters.
CallWithoutWork(r) ==
    /\ call = "none" /\ calls < MaxCalls /\ calls' = calls + 1
    /\ r = "BAD_PARAMETER" => ~pll["PLLM"].on
    /\ Return("none", r)
    /\ UNCHANGED late /\ UNCHANGED Hardware

ReturnOk ==
    /\ call # "none" /\ todo = << >>
    /\ Return(call, "ok")
    /\ UNCHANGED << late, calls >> /\ UNCHANGED Hardware

---------------------------------------------------------------------------
(* The steps of a function.                                                *)

First == Head(todo)
At(op) == todo # << >> /\ First.op = op
GoOn == todo' = Tail(todo) /\ polls' = Polls
Driver == << call, result, up, calls >>

SetPower ==
    /\ At("power") /\ GoOn
    /\ pll' = [pll EXCEPT ![First.pll].power = First.arg]
    /\ UNCHANGED << fractional, ufs, channels, late >> /\ UNCHANGED Driver

\* Another divider takes the lock away; the same one does not.
SetDividers ==
    /\ At("divide") /\ GoOn
    /\ pll' = [pll EXCEPT ![First.pll] =
                 [@ EXCEPT !.div = First.arg,
                           !.lock = IF pll[First.pll].div = First.arg THEN pll[First.pll].lock ELSE "none"]]
    /\ UNCHANGED << fractional, ufs, channels, late >> /\ UNCHANGED Driver

SetEnable ==
    /\ At("enable") /\ GoOn
    /\ pll' = [pll EXCEPT ![First.pll] =
                 [@ EXCEPT !.on = First.arg,
                           !.lock = IF First.arg THEN pll[First.pll].lock ELSE "none"]]
    /\ UNCHANGED << fractional, ufs, channels, late >> /\ UNCHANGED Driver

SetFractional ==
    /\ At("fractional") /\ GoOn
    /\ fractional' = First.arg
    /\ UNCHANGED << pll, ufs, channels, late >> /\ UNCHANGED Driver

SetUfs ==
    /\ At("ufs") /\ GoOn
    /\ ufs' = CASE First.arg = "deviceClockOff" -> ufs \ {"deviceClock"}
                [] First.arg = "deviceReset"    -> ufs \ {"deviceOutOfReset"}
                [] OTHER                        -> ufs \cup {First.arg}
    /\ UNCHANGED << pll, fractional, channels, late >> /\ UNCHANGED Driver

\* The lock bit of the PLL, or for PLLAON that of its frequency.
Seen == pll[First.pll].lock = "full" \/ (First.arg = "freq" /\ pll[First.pll].lock = "freq")
Waiting == At("await") \/ At("lockOrFail") \/ At("lockOrGoOn")

LockSeen ==
    /\ Waiting /\ polls > 0 /\ Seen
    /\ GoOn
    /\ UNCHANGED late /\ UNCHANGED Driver /\ UNCHANGED Hardware

\* Mutant of PollAgain: the polls are not counted.
PollAgainUncounted ==
    /\ At("lockOrFail") \/ At("lockOrGoOn")
    /\ polls > 0 /\ ~Seen
    /\ UNCHANGED vars

PollAgain ==
    /\ At("lockOrFail") \/ At("lockOrGoOn")
    /\ polls > 0 /\ ~Seen
    /\ polls' = polls - 1
    /\ UNCHANGED << todo, late >> /\ UNCHANGED Driver /\ UNCHANGED Hardware

\* aon_pll_lock fails when the count is zero, also when the last poll has seen
\* the lock; the PLL stays enabled.
LockFailed ==
    /\ At("lockOrFail") /\ polls = 0
    /\ late' = late \cup {First.pll}
    /\ Return(call, "LOCK_FAILED")
    /\ UNCHANGED calls /\ UNCHANGED Hardware

GivenUp ==
    /\ At("lockOrGoOn") /\ polls = 0
    /\ late' = late \cup {First.pll}
    /\ GoOn
    /\ UNCHANGED Driver /\ UNCHANGED Hardware

CpuStep ==
    \/ SetPower \/ SetDividers \/ SetEnable \/ SetFractional \/ SetUfs
    \/ LockSeen \/ PollAgain \/ LockFailed \/ GivenUp \/ ReturnOk

\* The hardware (external): a PLL that is powered, programmed and enabled locks
\* in its own time, PLLAON first its frequency.
Locks(p) ==
    /\ pll[p].on /\ pll[p].power /\ pll[p].div # "blank" /\ pll[p].lock # "full"
    /\ p = "PLLAON" /\ pll[p].lock = "freq" => ~fractional
    /\ pll' = [pll EXCEPT ![p].lock = IF p = "PLLAON" /\ @ = "none" THEN "freq" ELSE "full"]
    /\ UNCHANGED << fractional, ufs, channels, todo, polls, late >> /\ UNCHANGED Driver

---------------------------------------------------------------------------
\* The boot ROM may have brought UTMIPLL up to boot from USB.
Init ==
    /\ \E booted \in SUBSET {"UTMIPLL"} :
          pll = [p \in Plls |->
                   IF p \in booted THEN [on |-> TRUE, power |-> TRUE, div |-> "UTMI", lock |-> "full"]
                   ELSE [on |-> FALSE, power |-> FALSE, div |-> "blank", lock |-> "none"]]
    /\ fractional = FALSE /\ ufs = {} /\ channels \in ChannelChoices
    /\ call = "none" /\ todo = << >> /\ polls = Polls /\ result = "none"
    /\ up = {} /\ late = {} /\ calls = 0

Next ==
    \/ \E f \in Functions : Call(f) \/ AlreadyUp(f)
    \/ \E r \in {"ok", "NOT_SUPPORTED", "BAD_PARAMETER"} : CallWithoutWork(r)
    \/ CpuStep
    \/ \E p \in Plls : Locks(p)

\* The driver goes on, and the PLLs that are polled without a bound lock in the
\* end.  Those whose polls are counted need not.
Fairness ==
    /\ WF_vars(CpuStep)
    /\ \A p \in {"PLLC4", "PLLE", "PLLM", "PLLMSB"} : WF_vars(Locks(p))

Spec == Init /\ [][Next]_vars /\ Fairness

---------------------------------------------------------------------------
(* Properties.                                                             *)

TypeOK ==
    /\ pll \in [Plls -> [on : BOOLEAN, power : BOOLEAN,
                         div : {"blank", "C4", "AON", "E", "UTMI", "M", "by1", "by2"},
                         lock : {"none", "freq", "full"}]]
    /\ fractional \in BOOLEAN
    /\ ufs \subseteq {"clocks", "outOfReset", "deviceClock", "deviceOutOfReset"}
    /\ channels \in ChannelChoices
    /\ call \in Functions \cup {"none"} /\ (call = "none" => todo = << >>)
    /\ polls \in 0 .. Polls
    /\ result \in {"none", "ok", "LOCK_FAILED", "NOT_SUPPORTED", "BAD_PARAMETER"}
    /\ up \subseteq Plls /\ late \subseteq Plls /\ calls \in 0 .. MaxCalls

\* Two functions program a PLL that may be running: tegrabl_init_plle, which
\* sets PLLREFE to another rate than UFS needs, and tegrabl_init_pllm, which
\* looks at PLLM only and starts PLLMSB anew where PLLM is not used.
Reprogrammed(p) ==
    \/ p = "PLLREFE" /\ (pll[p].div = "by1" \/ call = "ufs")
    \/ p = "PLLMSB" /\ call = "pllm" /\ "PLLM" \notin channels

\* A PLL that a function has reported as up is locked, and stays so whatever is
\* called after it until it is switched off, unless its polls had run out or
\* one of two other functions programs it anew.
StaysUp ==
    /\ TypeOK
    /\ \A p \in up \ late :
          Reprogrammed(p) \/
              /\ pll[p].on /\ pll[p].power /\ pll[p].lock = "full"
              /\ p = "PLLAON" => ~fractional

\* However functions are repeated and whichever of them failed, a PLL is enabled
\* only out of its power-down mode and with its dividers set, and neither changes
\* while it is enabled (but for PLLREFE); what hangs on PLLREFE is clocked after
\* it was awaited, and leaves its reset with its clocks on.
EnabledInOrder ==
    [][/\ \A p \in Plls :
             /\ ~pll[p].on /\ pll'[p].on => pll[p].power /\ pll[p].div # "blank"
             /\ pll[p].on /\ pll'[p].on /\ p # "PLLREFE" =>
                    pll'[p].power = pll[p].power /\ pll'[p].div = pll[p].div
       /\ "clocks" \in ufs' \ ufs => pll["PLLREFE"].lock = "full" \/ "PLLREFE" \in late
       /\ "outOfReset" \in ufs' \ ufs => "clocks" \in ufs
       /\ "deviceOutOfReset" \in ufs' \ ufs => {"deviceClock", "outOfReset"} \subseteq ufs]_vars

\* Every function returns, those with a bound on their polls also when the PLL
\* never locks.
CallsReturn == call # "none" ~> call = "none"
=============================================================================
