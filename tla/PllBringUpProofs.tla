--------------------------- MODULE PllBringUpProofs ---------------------------
(***************************************************************************)
(* What holds of the PLLs for every number of polls, every use of the      *)
(* memory channels and any sequence of calls, whenever a PLL locks or not. *)
(*                                                                         *)
(* What a function has left to do is a list of register writes and waits.  *)
(* The invariant speaks of the places of that list: what an entry needs is *)
(* so already, or an entry before it brings it about.                      *)
(***************************************************************************)
EXTENDS PllBringUp, SequenceTheorems, TLAPS

(* The entries of the lists.                                               *)

\* The dividers that the functions give each PLL.
DivsOf(p) ==
    CASE p = "PLLC4" -> {"C4"} [] p = "PLLAON" -> {"AON"} [] p = "PLLE" -> {"E"}
      [] p = "UTMIPLL" -> {"UTMI"} [] p \in {"PLLM", "PLLMSB"} -> {"M"}
      [] p = "PLLREFE" -> {"by1", "by2"}

Unfractional == Op("fractional", "PLLAON", FALSE)
Fractional == Op("fractional", "PLLAON", TRUE)

Powers == {Power(p) : p \in Plls} \cup {PowerDown(p) : p \in {"PLLAON", "PLLE"}}
Divisions == UNION {{Divide(p, d) : d \in DivsOf(p)} : p \in Plls}
Enables == {Enable(p) : p \in Plls} \cup {Disable(p) : p \in Plls \ {"PLLREFE"}}
Modes == {Fractional, Unfractional}
UfsParts == { "clocks", "outOfReset", "deviceClock", "deviceOutOfReset" }
UfsWrites == {Ufs(part) : part \in UfsParts \cup {"deviceClockOff", "deviceReset"}}
Waits(p) == {Await(p), LockOrFail(p, "full"), LockOrGoOn(p)}
Awaits ==
    {Await(p) : p \in Plls} \cup {LockOrFail("PLLAON", "freq"), LockOrFail("PLLAON", "full")}
    \cup {LockOrGoOn(p) : p \in {"UTMIPLL", "PLLREFE"}}
Ops == Powers \cup Divisions \cup Enables \cup Modes \cup UfsWrites \cup Awaits

\* What the entries of a function are about.
Owned(f) ==
    CASE f = "pllc4" -> {"PLLC4"} [] f = "pllaon" -> {"PLLAON"} [] f = "plle" -> {"PLLE", "PLLREFE"}
      [] f = "utmipll" -> {"UTMIPLL"} [] f = "pllm" -> {"PLLM", "PLLMSB"}
      [] f = "ufs" -> {"UTMIPLL", "PLLREFE", "none"} [] f = "disablePlle" -> {"PLLE"}
      [] OTHER -> {"none"}

---------------------------------------------------------------------------
(* The parts of the inductive invariant.                                   *)

\* o is to be done before entry i.
Before(i, o) == \E j \in 1 .. i - 1 : todo[j] = o

Lists ==
    /\ TypeOK
    /\ todo \in Seq(Ops)
    /\ \A i \in DOMAIN todo : todo[i].pll \in Owned(call)
    /\ call # "plle" => \A i \in DOMAIN todo : todo[i] # Divide("PLLREFE", "by1")
    /\ call = "plle" => \A i \in DOMAIN todo :
                            todo[i].pll = "PLLREFE" => todo[i] = Divide("PLLREFE", "by1")

\* A PLL that is locked is enabled, and one that is enabled is powered and divided.
PllState ==
    /\ \A p \in Plls :
          /\ pll[p].lock # "none" => pll[p].on
          /\ pll[p].on => pll[p].power /\ pll[p].div # "blank"
          /\ pll[p].div # "blank" => pll[p].div \in DivsOf(p)
    /\ pll["PLLAON"].lock = "full" => ~fractional

\* What is to be enabled is, or will be, out of its power-down mode and divided.
EnableReady ==
    \A p \in Plls, i \in DOMAIN todo :
        todo[i] = Enable(p) =>
            /\ pll[p].power \/ Before(i, Power(p))
            /\ \A j \in 1 .. i - 1 :
                  todo[j] = PowerDown(p) => \E k \in j + 1 .. i - 1 : todo[k] = Power(p)
            /\ pll[p].div # "blank" \/ \E d \in DivsOf(p) : Before(i, Divide(p, d))

\* What is to be powered down or put to its fractional mode is, or will be, off.
OffBefore ==
    \A p \in Plls, i \in DOMAIN todo :
        \/ todo[i] = PowerDown(p)
        \/ p = "PLLAON" /\ todo[i] = Fractional
        => (~pll[p].on \/ Before(i, Disable(p))) /\ ~Before(i, Enable(p))

\* The steps of UFS come in their order.
UfsInTurn ==
    \A i \in DOMAIN todo :
        /\ todo[i] = Ufs("clocks") =>
              \/ "PLLREFE" \in late
              \/ pll["PLLREFE"].lock = "full" /\ \A j \in 1 .. i - 1 : todo[j].pll # "PLLREFE"
              \/ \E j \in 1 .. i - 1 : /\ todo[j] = LockOrGoOn("PLLREFE")
                                       /\ \A k \in j + 1 .. i - 1 : todo[k].pll # "PLLREFE"
        /\ todo[i] = Ufs("outOfReset") => "clocks" \in ufs \/ Before(i, Ufs("clocks"))
        /\ todo[i] = Ufs("deviceOutOfReset") =>
              /\ "outOfReset" \in ufs \/ Before(i, Ufs("outOfReset"))
              /\ "deviceClock" \in ufs \/ Before(i, Ufs("deviceClock"))
              /\ ~Before(i, Ufs("deviceClockOff"))

\* A PLL that is up, or whose polls ran out.
Good(p) == p \in late \/ (pll[p].on /\ pll[p].power /\ pll[p].lock = "full")

\* What a function is to bring up is up, or it will wait for it last.
Promised ==
    call # "none" =>
        \A p \in Target(call) :
            \/ Good(p) /\ \A j \in DOMAIN todo : todo[j].pll # p
            \/ \E j \in DOMAIN todo : /\ todo[j] \in Waits(p)
                                      /\ \A k \in DOMAIN todo : k > j => todo[k].pll # p

\* What the functions take for a PLL that is up, when no bring-up of it is under way.
Settled ==
    /\ pll["PLLC4"].on => call = "pllc4" \/ Good("PLLC4")
    /\ pll["PLLAON"].on => call = "pllaon" \/ Good("PLLAON")
    /\ pll["PLLM"].on => call = "pllm" \/ \A p \in channels : Good(p)

\* A PLL reported up is up, and no entry is about it.
UpKept ==
    /\ \A p \in up :
          \/ Good(p) \/ Reprogrammed(p)
    /\ \A p \in up \ late : \A j \in DOMAIN todo :
          todo[j].pll = p => Reprogrammed(p) \/ todo[j] = Divide("PLLREFE", "by1")
    /\ "PLLMSB" \in up => "PLLMSB" \in channels /\ channels \subseteq up
    /\ late \subseteq {"PLLAON", "UTMIPLL", "PLLREFE"}

IInv ==
    /\ Lists
    /\ PllState
    /\ EnableReady
    /\ OffBefore
    /\ UfsInTurn
    /\ Promised
    /\ Settled
    /\ UpKept

---------------------------------------------------------------------------
(* Lemmas: the entries.                                                    *)

\* What the fields of an entry are: two entries of different kinds differ.
LEMMA Fields ==
    /\ \A p : /\ Power(p).op = "power" /\ Power(p).pll = p /\ Power(p).arg = TRUE
              /\ PowerDown(p).op = "power" /\ PowerDown(p).pll = p /\ PowerDown(p).arg = FALSE
              /\ Enable(p).op = "enable" /\ Enable(p).pll = p /\ Enable(p).arg = TRUE
              /\ Disable(p).op = "enable" /\ Disable(p).pll = p /\ Disable(p).arg = FALSE
              /\ Await(p).op = "await" /\ Await(p).pll = p /\ Await(p).arg = "full"
              /\ LockOrGoOn(p).op = "lockOrGoOn" /\ LockOrGoOn(p).pll = p /\ LockOrGoOn(p).arg = "full"
    /\ \A p, d : /\ Divide(p, d).op = "divide" /\ Divide(p, d).pll = p /\ Divide(p, d).arg = d
                 /\ LockOrFail(p, d).op = "lockOrFail" /\ LockOrFail(p, d).pll = p /\ LockOrFail(p, d).arg = d
    /\ \A part : Ufs(part).op = "ufs" /\ Ufs(part).pll = "none" /\ Ufs(part).arg = part
    /\ Fractional.op = "fractional" /\ Fractional.pll = "PLLAON" /\ Fractional.arg = TRUE
    /\ Unfractional.op = "fractional" /\ Unfractional.pll = "PLLAON" /\ Unfractional.arg = FALSE
    BY DEF Power, PowerDown, Enable, Disable, Await, LockOrGoOn, Divide, LockOrFail, Ufs, Fractional,
           Unfractional, Op

LEMMA ByOne ==
    LET o == Divide("PLLREFE", "by1") IN o.op = "divide" /\ o.pll = "PLLREFE" /\ o.arg = "by1"
    BY DEF Divide, Op

\* Every entry is one of these.
LEMMA OpCases ==
    ASSUME NEW o \in Ops
    PROVE  \/ \E p \in Plls : o \in {Power(p), Enable(p), Await(p)}
           \/ \E p \in {"PLLAON", "PLLE"} : o = PowerDown(p)
           \/ \E p \in Plls \ {"PLLREFE"} : o = Disable(p)
           \/ \E p \in Plls : \E d \in DivsOf(p) : o = Divide(p, d)
           \/ o \in {Fractional, Unfractional}
           \/ \E p \in {"UTMIPLL", "PLLREFE"} : o = LockOrGoOn(p)
           \/ o \in {LockOrFail("PLLAON", "freq"), LockOrFail("PLLAON", "full")}
           \/ \E part \in UfsParts \cup {"deviceClockOff", "deviceReset"} : o = Ufs(part)
    <1>1. CASE o \in Powers
        BY <1>1 DEF Powers
    <1>2. CASE o \in Divisions
        BY <1>2 DEF Divisions
    <1>3. CASE o \in Enables
        BY <1>3 DEF Enables
    <1>4. CASE o \in Modes
        BY <1>4 DEF Modes
    <1>5. CASE o \in UfsWrites
        BY <1>5 DEF UfsWrites
    <1>6. CASE o \in Awaits
        BY <1>6 DEF Awaits
    <1>. QED  BY <1>1, <1>2, <1>3, <1>4, <1>5, <1>6 DEF Ops

\* The registers of a PLL.
Registers == [on : BOOLEAN, power : BOOLEAN,
              div : {"blank", "C4", "AON", "E", "UTMI", "M", "by1", "by2"},
              lock : {"none", "freq", "full"}]

LEMMA Typed ==
    ASSUME TypeOK
    PROVE  /\ pll \in [Plls -> Registers] /\ fractional \in BOOLEAN
           /\ ufs \subseteq UfsParts /\ late \subseteq Plls /\ up \subseteq Plls
           /\ polls \in 0 .. Polls /\ Polls \in 0 .. Polls
           /\ channels \subseteq {"PLLM", "PLLMSB"}
    <1>1. Polls \in 0 .. Polls
        BY BoundsAssumption
    <1>2. pll \in [Plls -> Registers] /\ fractional \in BOOLEAN
        BY Zenon DEF TypeOK, Registers
    <1>3. ufs \subseteq UfsParts /\ late \subseteq Plls /\ up \subseteq Plls
        BY Zenon DEF TypeOK, UfsParts
    <1>4. polls \in 0 .. Polls
        BY DEF TypeOK
    <1>5. channels \subseteq {"PLLM", "PLLMSB"}
        BY ChannelsAssumption DEF TypeOK
    <1>. QED  BY <1>1, <1>2, <1>3, <1>4, <1>5

LEMMA PowerSet ==
    ASSUME NEW r \in Registers, NEW b \in BOOLEAN
    PROVE  /\ [r EXCEPT !.power = b] \in Registers
           /\ [r EXCEPT !.power = b].power = b
           /\ [r EXCEPT !.power = b].on = r.on
           /\ [r EXCEPT !.power = b].div = r.div
           /\ [r EXCEPT !.power = b].lock = r.lock
    BY DEF Registers

\* The list moves on by one entry.
LEMMA Moved ==
    ASSUME todo \in Seq(Ops), todo # << >>, todo' = Tail(todo)
    PROVE  /\ todo' \in Seq(Ops)
           /\ Len(todo) \in Nat /\ Len(todo) >= 1
           /\ DOMAIN todo = 1 .. Len(todo) /\ DOMAIN todo' = 1 .. Len(todo) - 1
           /\ First = todo[1] /\ todo[1] \in Ops
           /\ \A i \in DOMAIN todo' : todo'[i] = todo[i + 1]
    BY HeadTailProperties DEF First


---------------------------------------------------------------------------
(* Lemmas: a step that does the first entry.                               *)

Going == SetPower \/ SetDividers \/ SetEnable \/ SetFractional \/ SetUfs \/ LockSeen \/ GivenUp

\* What doing entry o changes, and nothing else.
Effect(o) ==
    /\ pll' \in [Plls -> Registers]
    /\ \A p \in Plls :
          /\ o.pll # p => pll'[p] = pll[p]
          /\ pll'[p].power <=> o = Power(p) \/ (pll[p].power /\ o # PowerDown(p))
          /\ pll'[p].on <=> o = Enable(p) \/ (pll[p].on /\ o # Disable(p))
          /\ pll'[p].div = IF o.op = "divide" /\ o.pll = p THEN o.arg ELSE pll[p].div
          /\ pll'[p].lock = IF o = Disable(p) \/ (o.op = "divide" /\ o.pll = p /\ o.arg # pll[p].div)
                            THEN "none" ELSE pll[p].lock
    /\ fractional' <=> o = Fractional \/ (fractional /\ o # Unfractional)
    /\ \A part : part \in ufs' <=>
          \/ part \in UfsParts /\ o = Ufs(part)
          \/ /\ part \in ufs
             /\ part = "deviceClock" => o # Ufs("deviceClockOff")
             /\ part = "deviceOutOfReset" => o # Ufs("deviceReset")
    /\ late \subseteq late'
    /\ \A p \in late' \ late : p \in {"UTMIPLL", "PLLREFE"} /\ o = LockOrGoOn(p)
    /\ \A p \in Plls : o \in Waits(p) => pll[p].lock = "full" \/ p \in late'
    /\ fractional' \in BOOLEAN /\ ufs' \subseteq UfsParts /\ late' \subseteq Plls
    /\ polls' \in 0 .. Polls
    /\ UNCHANGED << channels, call, result, up, calls >>

\* The first entry is what its operation says.
LEMMA HeadCases ==
    ASSUME todo \in Seq(Ops), todo # << >>
    PROVE  /\ First.op = "power" => \E p \in Plls : First = Power(p) \/ First = PowerDown(p)
           /\ First.op = "enable" => \E p \in Plls : First = Enable(p) \/ First = Disable(p)
           /\ First.op = "divide" => \E p \in Plls : \E d \in DivsOf(p) : First = Divide(p, d)
           /\ First.op = "fractional" => First \in {Fractional, Unfractional}
           /\ First.op = "ufs" => \E part \in UfsParts \cup {"deviceClockOff", "deviceReset"} : First = Ufs(part)
           /\ First.op = "await" => \E p \in Plls : First = Await(p)
           /\ First.op = "lockOrFail" => First \in {LockOrFail("PLLAON", "freq"), LockOrFail("PLLAON", "full")}
           /\ First.op = "lockOrGoOn" => \E p \in {"UTMIPLL", "PLLREFE"} : First = LockOrGoOn(p)
    <1>1. First \in Ops
        BY HeadTailProperties DEF First
    <1>. QED  BY <1>1, OpCases, Fields DEF Plls

LEMMA DivsTyped ==
    \A p \in Plls : DivsOf(p) \subseteq {"C4", "AON", "E", "UTMI", "M", "by1", "by2"}
    BY DEF Plls, DivsOf

LEMMA Effects ==
    ASSUME IInv, Going
    PROVE  todo # << >> /\ todo' = Tail(todo) /\ Effect(First)
    <1>. USE DEF Driver, GoOn
    <1>0. /\ todo \in Seq(Ops) /\ pll \in [Plls -> Registers] /\ fractional \in BOOLEAN
          /\ ufs \subseteq UfsParts /\ late \subseteq Plls /\ polls \in 0 .. Polls
          /\ Polls \in 0 .. Polls
        BY Typed DEF IInv, Lists
    <1>1. todo # << >> /\ todo' = Tail(todo)
        BY DEF Going, SetPower, SetDividers, SetEnable, SetFractional, SetUfs, LockSeen, GivenUp, At, Waiting
    <1>2. CASE SetPower
        <2>1. PICK p \in Plls : First = Power(p) \/ First = PowerDown(p)
            BY <1>0, <1>2, HeadCases DEF SetPower, At
        <2>2. First.pll = p /\ First.op = "power" /\ (First = Power(p) => First.arg = TRUE)
              /\ (First = PowerDown(p) => First.arg = FALSE)
            BY <2>1, Fields
        <2>3. pll' = [pll EXCEPT ![p].power = First.arg]
            BY <1>2, <2>2 DEF SetPower
        <2>. DEFINE r == [pll[p] EXCEPT !.power = First.arg]
        <2>4. First.arg \in BOOLEAN /\ pll[p] \in Registers
            BY <1>0, <2>1, <2>2
        <2>5. /\ r \in Registers /\ r.power = First.arg /\ r.on = pll[p].on
              /\ r.div = pll[p].div /\ r.lock = pll[p].lock
            BY <2>4, PowerSet
        <2>5a. pll' = [pll EXCEPT ![p] = r]
            BY <2>3
        <2>. HIDE DEF r
        <2>5b. pll' \in [Plls -> Registers] /\ pll'[p] = r /\ \A q \in Plls \ {p} : pll'[q] = pll[q]
            BY <1>0, <2>5, <2>5a
        <2>6. \A q \in Plls : /\ First # Enable(q) /\ First # Disable(q)
                              /\ First = Power(q) => q = p
                              /\ First = PowerDown(q) => q = p
                              /\ First \notin Waits(q)
            BY <2>2, Fields DEF Waits
        <2>7. First \notin {Fractional, Unfractional} /\ \A part : First # Ufs(part)
            BY <2>2, Fields
        <2>8. \A q \in Plls :
                  /\ First.pll # q => pll'[q] = pll[q]
                  /\ pll'[q].power <=> First = Power(q) \/ (pll[q].power /\ First # PowerDown(q))
            <3>1. Power(p) # PowerDown(p)
                BY Fields
            <3>. QED  BY <2>1, <2>2, <2>4, <2>5, <2>5b, <2>6, <3>1
        <2>. QED  BY <1>0, <1>1, <1>2, <2>2, <2>5, <2>5b, <2>6, <2>7, <2>8 DEF SetPower, Effect
    <1>3. CASE SetEnable
        <2>1. PICK p \in Plls : First = Enable(p) \/ First = Disable(p)
            BY <1>0, <1>1, <1>3, HeadCases DEF SetEnable, At
        <2>2. First.pll = p /\ First.op = "enable" /\ (First = Enable(p) => First.arg = TRUE)
              /\ (First = Disable(p) => First.arg = FALSE)
            BY <2>1, Fields
        <2>. DEFINE l == IF First.arg THEN pll[p].lock ELSE "none"
                    r == [pll[p] EXCEPT !.on = First.arg, !.lock = l]
        <2>3. pll' = [pll EXCEPT ![p] = r]
            BY <1>3, <2>2 DEF SetEnable
        <2>4. First.arg \in BOOLEAN /\ pll[p] \in Registers /\ pll[p].lock \in {"none", "freq", "full"}
            BY <1>0, <2>1, <2>2 DEF Registers
        <2>5. l \in {"none", "freq", "full"} /\ (First = Enable(p) => l = pll[p].lock)
              /\ (First = Disable(p) => l = "none")
            BY <2>2, <2>4
        <2>. HIDE DEF l
        <2>6a. r = [pll[p] EXCEPT !.on = First.arg, !.lock = l]
            OBVIOUS
        <2>6. /\ r \in Registers /\ r.on = First.arg /\ r.power = pll[p].power
              /\ r.div = pll[p].div /\ r.lock = l
            <3>. HIDE DEF r
            <3>. QED  BY <2>4, <2>5, <2>6a DEF Registers
        <2>. HIDE DEF r
        <2>7. pll' \in [Plls -> Registers] /\ pll'[p] = r /\ \A q \in Plls \ {p} : pll'[q] = pll[q]
            BY <1>0, <2>3, <2>6
        <2>8. \A q \in Plls : /\ First # Power(q) /\ First # PowerDown(q)
                              /\ First = Enable(q) => q = p
                              /\ First = Disable(q) => q = p
                              /\ First \notin Waits(q)
            BY <2>2, Fields DEF Waits
        <2>9. First \notin {Fractional, Unfractional} /\ \A part : First # Ufs(part)
            BY <2>2, Fields
        <2>10. \A q \in Plls :
                  /\ First.pll # q => pll'[q] = pll[q]
                  /\ pll'[q].on <=> First = Enable(q) \/ (pll[q].on /\ First # Disable(q))
            <3>1. Enable(p) # Disable(p)
                BY Fields
            <3>. QED  BY <2>1, <2>2, <2>4, <2>6, <2>7, <2>8, <3>1
        <2>11. \A q \in Plls :
                  pll'[q].lock = IF First = Disable(q) THEN "none" ELSE pll[q].lock
            <3>1. Enable(p) # Disable(p)
                BY Fields
            <3>. QED  BY <2>1, <2>5, <2>6, <2>7, <2>8, <3>1
        <2>. QED  BY <1>0, <1>1, <1>3, <2>2, <2>6, <2>7, <2>8, <2>9, <2>10, <2>11 DEF SetEnable, Effect
    <1>4. CASE SetDividers
        <2>1. PICK p \in Plls : \E d \in DivsOf(p) : First = Divide(p, d)
            BY <1>0, <1>1, <1>4, HeadCases DEF SetDividers, At
        <2>2. First.pll = p /\ First.op = "divide"
              /\ First.arg \in {"C4", "AON", "E", "UTMI", "M", "by1", "by2"}
            <3>1. PICK d \in DivsOf(p) : First = Divide(p, d)
                BY <2>1
            <3>2. First.pll = p /\ First.op = "divide" /\ First.arg = d
                BY <3>1, Fields
            <3>. QED  BY <3>1, <3>2, DivsTyped
        <2>. DEFINE l == IF pll[p].div = First.arg THEN pll[p].lock ELSE "none"
                    r == [pll[p] EXCEPT !.div = First.arg, !.lock = l]
        <2>3. pll' = [pll EXCEPT ![p] = r]
            BY <1>4, <2>2 DEF SetDividers
        <2>4. pll[p] \in Registers /\ pll[p].lock \in {"none", "freq", "full"}
            BY <1>0, <2>1, <2>2 DEF Registers
        <2>5. l \in {"none", "freq", "full"}
            BY <2>4
        <2>6. /\ r \in Registers /\ r.on = pll[p].on /\ r.power = pll[p].power
              /\ r.div = First.arg /\ r.lock = l
            <3>. HIDE DEF l
            <3>1. r = [pll[p] EXCEPT !.div = First.arg, !.lock = l]
                OBVIOUS
            <3>. HIDE DEF r
            <3>2. First.arg \in {"C4", "AON", "E", "UTMI", "M", "by1", "by2"}
                BY <2>2
            <3>. QED  BY ONLY <2>4, <2>5, <3>1, <3>2 DEF Registers
        <2>. HIDE DEF r
        <2>7. pll' \in [Plls -> Registers] /\ pll'[p] = r /\ \A q \in Plls \ {p} : pll'[q] = pll[q]
            BY <1>0, <2>3, <2>6
        <2>2a. First.op = "divide"
            BY <2>2
        <2>8. \A q \in Plls : /\ First # Power(q) /\ First # PowerDown(q)
                              /\ First # Enable(q) /\ First # Disable(q)
                              /\ First \notin Waits(q)
            BY <2>2a, Fields DEF Waits
        <2>9. First \notin {Fractional, Unfractional} /\ \A part : First # Ufs(part)
            BY <2>2, Fields
        <2>10. \A q \in Plls :
                  /\ pll'[q].div = IF First.pll = q THEN First.arg ELSE pll[q].div
                  /\ pll'[q].lock = IF First.pll = q /\ First.arg # pll[q].div THEN "none" ELSE pll[q].lock
            BY <2>2, <2>6, <2>7
        <2>. QED  BY <1>0, <1>1, <1>4, <2>2, <2>6, <2>7, <2>8, <2>9, <2>10 DEF SetDividers, Effect
    <1>5. CASE SetFractional
        <2>1. First \in {Fractional, Unfractional} /\ First.op = "fractional"
            BY <1>0, <1>1, <1>5, HeadCases DEF SetFractional, At
        <2>2. (First = Fractional => First.arg = TRUE) /\ (First = Unfractional => First.arg = FALSE)
            BY Fields
        <2>3. Fractional # Unfractional
            BY Fields
        <2>4. \A q \in Plls : /\ First # Power(q) /\ First # PowerDown(q)
                              /\ First # Enable(q) /\ First # Disable(q)
                              /\ First \notin Waits(q)
            BY <2>1, Fields DEF Waits
        <2>5. \A part : First # Ufs(part)
            BY <2>1, Fields
        <2>6. fractional' \in BOOLEAN /\ (fractional' <=> First = Fractional)
            BY <1>5, <2>1, <2>2, <2>3 DEF SetFractional
        <2>. QED  BY <1>0, <1>1, <1>5, <2>1, <2>3, <2>4, <2>5, <2>6 DEF SetFractional, Effect
    <1>6. CASE SetUfs
        <2>1. PICK part \in UfsParts \cup {"deviceClockOff", "deviceReset"} : First = Ufs(part)
            BY <1>0, <1>1, <1>6, HeadCases DEF SetUfs, At
        <2>2. First.op = "ufs" /\ First.pll = "none" /\ First.arg = part
            BY <2>1, Fields
        <2>3. \A q \in Plls : /\ First # Power(q) /\ First # PowerDown(q)
                              /\ First # Enable(q) /\ First # Disable(q)
                              /\ First \notin Waits(q)
            BY <2>2, Fields DEF Waits
        <2>4. First \notin {Fractional, Unfractional} /\ \A x : First = Ufs(x) <=> x = part
            BY <2>1, <2>2, Fields
        <2>5. ufs' = CASE part = "deviceClockOff" -> ufs \ {"deviceClock"}
                        [] part = "deviceReset"    -> ufs \ {"deviceOutOfReset"}
                        [] OTHER                   -> ufs \cup {part}
            BY <1>6, <2>2 DEF SetUfs
        <2>6. ufs' \subseteq UfsParts
              /\ \A x : x \in ufs' <=>
                    \/ x \in UfsParts /\ x = part
                    \/ /\ x \in ufs
                       /\ x = "deviceClock" => part # "deviceClockOff"
                       /\ x = "deviceOutOfReset" => part # "deviceReset"
            BY <1>0, <2>1, <2>5 DEF UfsParts
        <2>7. \A x : x \in ufs' <=>
                    \/ x \in UfsParts /\ First = Ufs(x)
                    \/ /\ x \in ufs
                       /\ x = "deviceClock" => First # Ufs("deviceClockOff")
                       /\ x = "deviceOutOfReset" => First # Ufs("deviceReset")
            BY <2>4, <2>6
        <2>. QED  BY <1>0, <1>1, <1>6, <2>2, <2>3, <2>4, <2>6, <2>7 DEF SetUfs, Effect
    <1>7. CASE LockSeen \/ GivenUp
        <2>1. First.op \in {"await", "lockOrFail", "lockOrGoOn"}
            BY <1>7 DEF LockSeen, GivenUp, Waiting, At
        <2>2. \A q \in Plls : /\ First # Power(q) /\ First # PowerDown(q)
                              /\ First # Enable(q) /\ First # Disable(q)
            BY <2>1, Fields
        <2>3. First \notin {Fractional, Unfractional} /\ \A x : First # Ufs(x)
            BY <2>1, Fields
        <2>4. UNCHANGED << pll, fractional, ufs, channels, call, result, up, calls >> /\ polls' = Polls
            BY <1>7 DEF LockSeen, GivenUp, Hardware
        <2>5. \A p \in Plls : First \in Waits(p) => First.pll = p /\ First.arg = "full"
            BY Fields DEF Waits
        <2>6. CASE LockSeen
            <3>1. late' = late /\ \A p \in Plls : First \in Waits(p) => pll[p].lock = "full"
                BY <2>5, <2>6 DEF LockSeen, Seen
            <3>. QED  BY <1>0, <1>1, <2>1, <2>2, <2>3, <2>4, <3>1 DEF Effect
        <2>7. CASE GivenUp
            <3>1. PICK p \in {"UTMIPLL", "PLLREFE"} : First = LockOrGoOn(p)
                BY <1>0, <1>1, <2>7, HeadCases DEF GivenUp, At
            <3>2. p \in Plls /\ First.pll = p
                BY <3>1, Fields DEF Plls
            <3>3. late' = late \cup {p}
                BY <2>7, <3>2 DEF GivenUp
            <3>. QED  BY <1>0, <1>1, <2>1, <2>2, <2>3, <2>4, <2>5, <3>1, <3>2, <3>3 DEF Effect
        <2>. QED  BY <1>7, <2>6, <2>7
    <1>. QED  BY <1>2, <1>3, <1>4, <1>5, <1>6, <1>7 DEF Going

\* The two together, with the first entry as todo[1].
LEMMA Move ==
    ASSUME IInv, Going
    PROVE  /\ Effect(todo[1])
           /\ todo \in Seq(Ops) /\ todo' \in Seq(Ops)
           /\ Len(todo) \in Nat /\ Len(todo) >= 1
           /\ DOMAIN todo = 1 .. Len(todo) /\ DOMAIN todo' = 1 .. Len(todo) - 1
           /\ 1 \in DOMAIN todo /\ todo[1] \in Ops
           /\ \A i \in DOMAIN todo' : i + 1 \in DOMAIN todo /\ todo'[i] = todo[i + 1]
    <1>1. todo \in Seq(Ops)
        BY DEF IInv, Lists
    <1>2. todo # << >> /\ todo' = Tail(todo) /\ Effect(First)
        BY Effects
    <1>3. /\ todo' \in Seq(Ops) /\ Len(todo) \in Nat /\ Len(todo) >= 1
          /\ DOMAIN todo = 1 .. Len(todo) /\ DOMAIN todo' = 1 .. Len(todo) - 1
          /\ First = todo[1] /\ todo[1] \in Ops
          /\ \A i \in DOMAIN todo' : todo'[i] = todo[i + 1]
        BY <1>1, <1>2, Moved
    <1>. QED  BY <1>1, <1>2, <1>3

\* What is before an entry is the first entry or still before it.
LEMMA BeforeMoves ==
    ASSUME IInv, Going, NEW i \in DOMAIN todo', NEW o
    PROVE  /\ Before(i + 1, o) => todo[1] = o \/ Before(i, o)'
           /\ todo[1] = o \/ Before(i, o)' => Before(i + 1, o)
           /\ ~Before(1, o)
    <1>1. /\ Len(todo) \in Nat /\ Len(todo) >= 1
          /\ DOMAIN todo = 1 .. Len(todo) /\ DOMAIN todo' = 1 .. Len(todo) - 1
          /\ \A j \in DOMAIN todo' : j + 1 \in DOMAIN todo /\ todo'[j] = todo[j + 1]
        BY Move
    <1>2. ASSUME Before(i + 1, o), todo[1] # o
          PROVE  Before(i, o)'
        <2>1. PICK j \in 1 .. i : todo[j] = o
            BY <1>1, <1>2 DEF Before
        <2>2. j - 1 \in 1 .. i - 1 /\ j - 1 \in DOMAIN todo' /\ (j - 1) + 1 = j
            BY <1>1, <1>2, <2>1
        <2>. QED  BY <1>1, <2>1, <2>2 DEF Before
    <1>3. ASSUME Before(i, o)'
          PROVE  Before(i + 1, o)
        <2>1. PICK j \in 1 .. i - 1 : todo'[j] = o
            BY <1>3 DEF Before
        <2>2. j + 1 \in 1 .. i /\ todo[j + 1] = o
            BY <1>1, <2>1
        <2>. QED  BY <1>1, <2>2 DEF Before
    <1>4. todo[1] = o => Before(i + 1, o)
        BY <1>1 DEF Before
    <1>5. ~Before(1, o)
        BY DEF Before
    <1>. QED  BY <1>2, <1>3, <1>4, <1>5

LEMMA ListsGoing ==
    ASSUME IInv, Going
    PROVE  Lists'
    <1>1. /\ Effect(todo[1]) /\ todo' \in Seq(Ops)
          /\ \A i \in DOMAIN todo' : i + 1 \in DOMAIN todo /\ todo'[i] = todo[i + 1]
        BY Move
    <1>2. Lists /\ TypeOK
        BY DEF IInv, Lists
    <1>3. call' = call /\ channels' = channels /\ result' = result /\ up' = up /\ calls' = calls
        BY <1>1 DEF Effect
    <1>4. TypeOK'
        <2>1. pll' \in [Plls -> Registers] /\ fractional' \in BOOLEAN /\ ufs' \subseteq UfsParts
              /\ polls' \in 0 .. Polls /\ late' \subseteq Plls
            BY <1>1 DEF Effect
        <2>2. call' # "none"
            BY <1>2, <1>3, Effects DEF TypeOK
        <2>. QED  BY <1>2, <1>3, <2>1, <2>2 DEF TypeOK, Registers, UfsParts
    <1>5. /\ \A i \in DOMAIN todo' : todo'[i].pll \in Owned(call')
          /\ call' # "plle" => \A i \in DOMAIN todo' : todo'[i] # Divide("PLLREFE", "by1")
          /\ call' = "plle" => \A i \in DOMAIN todo' :
                                 todo'[i].pll = "PLLREFE" => todo'[i] = Divide("PLLREFE", "by1")
        BY <1>1, <1>2, <1>3 DEF Lists
    <1>. QED  BY <1>1, <1>4, <1>5 DEF Lists

LEMMA PllStateGoing ==
    ASSUME IInv, Going
    PROVE  PllState'
    <1>1. Effect(todo[1]) /\ todo[1] \in Ops /\ 1 \in DOMAIN todo /\ DOMAIN todo = 1 .. Len(todo)
        BY Move
    <1>2. PllState /\ EnableReady /\ OffBefore /\ TypeOK
        BY DEF IInv, Lists
    <1>3. \A o : ~Before(1, o)
        BY DEF Before
    <1>4. \A p \in Plls :
             /\ todo[1] = Enable(p) => pll[p].power /\ pll[p].div # "blank"
             /\ todo[1] = PowerDown(p) => ~pll[p].on
             /\ todo[1] = Fractional => ~pll["PLLAON"].on
        BY <1>1, <1>2, <1>3 DEF EnableReady, OffBefore, Plls
    <1>5. \A p \in Plls : todo[1].op = "divide" /\ todo[1].pll = p => todo[1].arg \in DivsOf(p)
        BY <1>1, OpCases, Fields
    <1>6. \A p \in Plls : "blank" \notin DivsOf(p)
        BY DivsTyped
    <1>7. ASSUME NEW p \in Plls
          PROVE  /\ (pll'[p].lock # "none" => pll'[p].on)
                 /\ (pll'[p].on => pll'[p].power /\ pll'[p].div # "blank")
                 /\ (pll'[p].div # "blank" => pll'[p].div \in DivsOf(p))
        <2>1. /\ pll[p].lock # "none" => pll[p].on
              /\ pll[p].on => pll[p].power /\ pll[p].div # "blank"
              /\ pll[p].div # "blank" => pll[p].div \in DivsOf(p)
            BY <1>2 DEF PllState
        <2>2. /\ pll'[p].power <=> todo[1] = Power(p) \/ (pll[p].power /\ todo[1] # PowerDown(p))
              /\ pll'[p].on <=> todo[1] = Enable(p) \/ (pll[p].on /\ todo[1] # Disable(p))
              /\ pll'[p].div = IF todo[1].op = "divide" /\ todo[1].pll = p THEN todo[1].arg ELSE pll[p].div
              /\ pll'[p].lock = "none" \/ (todo[1] # Disable(p) /\ pll'[p].lock = pll[p].lock)
            BY <1>1 DEF Effect
        <2>3. Enable(p) # PowerDown(p)
            BY Fields
        <2>. QED  BY <1>4, <1>5, <1>6, <2>1, <2>2, <2>3
    <1>8. pll'["PLLAON"].lock = "full" => ~fractional'
        <2>1. /\ fractional' <=> todo[1] = Fractional \/ (fractional /\ todo[1] # Unfractional)
              /\ pll'["PLLAON"].lock = "none" \/ pll'["PLLAON"].lock = pll["PLLAON"].lock
            BY <1>1 DEF Effect, Plls
        <2>2. pll["PLLAON"].lock # "none" => pll["PLLAON"].on
            BY <1>2 DEF PllState, Plls
        <2>3. "PLLAON" \in Plls /\ (pll["PLLAON"].lock = "full" => ~fractional)
            BY <1>2 DEF PllState, Plls
        <2>. QED  BY <1>4, <2>1, <2>2, <2>3
    <1>. QED  BY <1>7, <1>8 DEF PllState

LEMMA EnableReadyGoing ==
    ASSUME IInv, Going
    PROVE  EnableReady'
    <1>1. /\ Effect(todo[1]) /\ todo[1] \in Ops
          /\ Len(todo) \in Nat /\ DOMAIN todo = 1 .. Len(todo) /\ DOMAIN todo' = 1 .. Len(todo) - 1
          /\ \A i \in DOMAIN todo' : i + 1 \in DOMAIN todo /\ todo'[i] = todo[i + 1]
        BY Move
    <1>. SUFFICES ASSUME NEW p \in Plls, NEW i \in DOMAIN todo', todo'[i] = Enable(p)
                  PROVE  /\ pll'[p].power \/ Before(i, Power(p))'
                         /\ \A j \in 1 .. i - 1 :
                               todo'[j] = PowerDown(p) => \E k \in j + 1 .. i - 1 : todo'[k] = Power(p)
                         /\ pll'[p].div # "blank" \/ \E d \in DivsOf(p) : Before(i, Divide(p, d))'
        BY DEF EnableReady
    <1>2. /\ pll[p].power \/ Before(i + 1, Power(p))
          /\ \A j \in 1 .. i : todo[j] = PowerDown(p) => \E k \in j + 1 .. i : todo[k] = Power(p)
          /\ pll[p].div # "blank" \/ \E d \in DivsOf(p) : Before(i + 1, Divide(p, d))
        <2>1. EnableReady /\ i + 1 \in DOMAIN todo /\ todo[i + 1] = Enable(p) /\ (i + 1) - 1 = i
            BY <1>1 DEF IInv
        <2>. QED  BY <2>1 DEF EnableReady
    <1>3. /\ pll'[p].power <=> todo[1] = Power(p) \/ (pll[p].power /\ todo[1] # PowerDown(p))
          /\ pll'[p].div = IF todo[1].op = "divide" /\ todo[1].pll = p THEN todo[1].arg ELSE pll[p].div
        BY <1>1 DEF Effect
    <1>4. \A o : Before(i + 1, o) => todo[1] = o \/ Before(i, o)'
        BY BeforeMoves
    <1>5. ASSUME NEW j \in 1 .. i - 1, todo'[j] = PowerDown(p)
          PROVE  \E k \in j + 1 .. i - 1 : todo'[k] = Power(p)
        <2>1. j + 1 \in 1 .. i /\ todo[j + 1] = PowerDown(p)
            BY <1>1, <1>5
        <2>2. PICK k \in j + 2 .. i : todo[k] = Power(p)
            BY <1>2, <2>1
        <2>3. k - 1 \in j + 1 .. i - 1 /\ k - 1 \in DOMAIN todo' /\ (k - 1) + 1 = k
            BY <1>1, <2>2
        <2>. QED  BY <1>1, <2>2, <2>3
    <1>6. todo[1] = PowerDown(p) => Before(i, Power(p))'
        <2>1. ASSUME todo[1] = PowerDown(p)
              PROVE  Before(i, Power(p))'
            <3>1. PICK k \in 2 .. i : todo[k] = Power(p)
                BY <1>1, <1>2, <2>1
            <3>2. k - 1 \in 1 .. i - 1 /\ k - 1 \in DOMAIN todo' /\ (k - 1) + 1 = k
                BY <1>1, <3>1
            <3>. QED  BY <1>1, <3>1, <3>2 DEF Before
        <2>. QED  BY <2>1
    <1>7. pll'[p].power \/ Before(i, Power(p))'
        BY <1>2, <1>3, <1>4, <1>6
    <1>8. pll'[p].div # "blank" \/ \E d \in DivsOf(p) : Before(i, Divide(p, d))'
        <2>1. todo[1].op = "divide" /\ todo[1].pll = p => todo[1].arg \in DivsOf(p)
            BY <1>1, OpCases, Fields
        <2>2. \A d : todo[1] = Divide(p, d) => todo[1].op = "divide" /\ todo[1].pll = p
            BY Fields
        <2>3. "blank" \notin DivsOf(p)
            BY DivsTyped
        <2>. QED  BY <1>2, <1>3, <1>4, <2>1, <2>2, <2>3
    <1>. QED  BY <1>5, <1>7, <1>8

LEMMA OffBeforeGoing ==
    ASSUME IInv, Going
    PROVE  OffBefore'
    <1>1. /\ Effect(todo[1]) /\ todo[1] \in Ops
          /\ Len(todo) \in Nat /\ DOMAIN todo = 1 .. Len(todo) /\ DOMAIN todo' = 1 .. Len(todo) - 1
          /\ \A i \in DOMAIN todo' : i + 1 \in DOMAIN todo /\ todo'[i] = todo[i + 1]
        BY Move
    <1>. SUFFICES ASSUME NEW p \in Plls, NEW i \in DOMAIN todo',
                         todo'[i] = PowerDown(p) \/ (p = "PLLAON" /\ todo'[i] = Fractional)
                  PROVE  (~pll'[p].on \/ Before(i, Disable(p))') /\ ~Before(i, Enable(p))'
        BY DEF OffBefore
    <1>2. (~pll[p].on \/ Before(i + 1, Disable(p))) /\ ~Before(i + 1, Enable(p))
        BY <1>1 DEF IInv, OffBefore
    <1>3. pll'[p].on <=> todo[1] = Enable(p) \/ (pll[p].on /\ todo[1] # Disable(p))
        BY <1>1 DEF Effect
    <1>4. \A o : (Before(i + 1, o) => todo[1] = o \/ Before(i, o)')
                 /\ (todo[1] = o \/ Before(i, o)' => Before(i + 1, o))
        BY BeforeMoves
    <1>5. Enable(p) # Disable(p)
        BY Fields
    <1>. QED  BY <1>2, <1>3, <1>4, <1>5

LEMMA UfsInTurnGoing ==
    ASSUME IInv, Going
    PROVE  UfsInTurn'
    <1>1. /\ Effect(todo[1]) /\ todo[1] \in Ops
          /\ Len(todo) \in Nat /\ DOMAIN todo = 1 .. Len(todo) /\ DOMAIN todo' = 1 .. Len(todo) - 1
          /\ \A i \in DOMAIN todo' : i + 1 \in DOMAIN todo /\ todo'[i] = todo[i + 1]
        BY Move
    <1>. SUFFICES ASSUME NEW i \in DOMAIN todo'
                  PROVE  /\ todo'[i] = Ufs("clocks") =>
                               \/ "PLLREFE" \in late'
                               \/ /\ pll'["PLLREFE"].lock = "full"
                                  /\ \A j \in 1 .. i - 1 : todo'[j].pll # "PLLREFE"
                               \/ \E j \in 1 .. i - 1 : /\ todo'[j] = LockOrGoOn("PLLREFE")
                                                        /\ \A k \in j + 1 .. i - 1 : todo'[k].pll # "PLLREFE"
                         /\ todo'[i] = Ufs("outOfReset") => "clocks" \in ufs' \/ Before(i, Ufs("clocks"))'
                         /\ todo'[i] = Ufs("deviceOutOfReset") =>
                               /\ "outOfReset" \in ufs' \/ Before(i, Ufs("outOfReset"))'
                               /\ "deviceClock" \in ufs' \/ Before(i, Ufs("deviceClock"))'
                               /\ ~Before(i, Ufs("deviceClockOff"))'
        BY DEF UfsInTurn
    <1>2. i + 1 \in DOMAIN todo /\ todo[i + 1] = todo'[i] /\ (i + 1) - 1 = i /\ UfsInTurn
        BY <1>1 DEF IInv
    <1>3. \A o : (Before(i + 1, o) => todo[1] = o \/ Before(i, o)')
                 /\ (todo[1] = o \/ Before(i, o)' => Before(i + 1, o))
        BY BeforeMoves
    <1>4. \A part : part \in ufs' <=>
              \/ part \in UfsParts /\ todo[1] = Ufs(part)
              \/ /\ part \in ufs
                 /\ part = "deviceClock" => todo[1] # Ufs("deviceClockOff")
                 /\ part = "deviceOutOfReset" => todo[1] # Ufs("deviceReset")
        BY <1>1 DEF Effect
    <1>5. todo'[i] = Ufs("outOfReset") => "clocks" \in ufs' \/ Before(i, Ufs("clocks"))'
        BY <1>2, <1>3, <1>4 DEF UfsInTurn, UfsParts
    <1>6. todo'[i] = Ufs("deviceOutOfReset") =>
              /\ "outOfReset" \in ufs' \/ Before(i, Ufs("outOfReset"))'
              /\ "deviceClock" \in ufs' \/ Before(i, Ufs("deviceClock"))'
              /\ ~Before(i, Ufs("deviceClockOff"))'
        BY <1>2, <1>3, <1>4 DEF UfsInTurn, UfsParts
    <1>7. ASSUME todo'[i] = Ufs("clocks")
          PROVE  \/ "PLLREFE" \in late'
                 \/ /\ pll'["PLLREFE"].lock = "full"
                    /\ \A j \in 1 .. i - 1 : todo'[j].pll # "PLLREFE"
                 \/ \E j \in 1 .. i - 1 : /\ todo'[j] = LockOrGoOn("PLLREFE")
                                          /\ \A k \in j + 1 .. i - 1 : todo'[k].pll # "PLLREFE"
        <2>1. \/ "PLLREFE" \in late
              \/ pll["PLLREFE"].lock = "full" /\ \A j \in 1 .. i : todo[j].pll # "PLLREFE"
              \/ \E j \in 1 .. i : /\ todo[j] = LockOrGoOn("PLLREFE")
                                   /\ \A k \in j + 1 .. i : todo[k].pll # "PLLREFE"
            BY <1>2, <1>7 DEF UfsInTurn
        <2>2. CASE "PLLREFE" \in late
            BY <1>1, <2>2 DEF Effect
        <2>3. CASE pll["PLLREFE"].lock = "full" /\ \A j \in 1 .. i : todo[j].pll # "PLLREFE"
            <3>1. pll'["PLLREFE"] = pll["PLLREFE"]
                BY <1>1, <2>3 DEF Effect, Plls
            <3>2. \A j \in 1 .. i - 1 : j + 1 \in 1 .. i /\ todo'[j] = todo[j + 1]
                BY <1>1
            <3>. QED  BY <2>3, <3>1, <3>2
        <2>4. ASSUME NEW j \in 1 .. i, todo[j] = LockOrGoOn("PLLREFE"),
                     \A k \in j + 1 .. i : todo[k].pll # "PLLREFE"
              PROVE  \/ "PLLREFE" \in late'
                     \/ /\ pll'["PLLREFE"].lock = "full"
                        /\ \A k \in 1 .. i - 1 : todo'[k].pll # "PLLREFE"
                     \/ \E k \in 1 .. i - 1 : /\ todo'[k] = LockOrGoOn("PLLREFE")
                                              /\ \A m \in k + 1 .. i - 1 : todo'[m].pll # "PLLREFE"
            <3>1. \A k \in 1 .. i - 1 : k + 1 \in 1 .. i /\ todo'[k] = todo[k + 1]
                BY <1>1
            <3>2. CASE j = 1
                <4>1. todo[1] = LockOrGoOn("PLLREFE") /\ todo[1] \in Waits("PLLREFE") /\ "PLLREFE" \in Plls
                    BY <2>4, <3>2 DEF Waits, Plls
                <4>2. pll["PLLREFE"].lock = "full" \/ "PLLREFE" \in late'
                    BY <1>1, <4>1 DEF Effect
                <4>3. todo[1] # Disable("PLLREFE") /\ todo[1].op # "divide"
                    BY <4>1, Fields
                <4>4. pll'["PLLREFE"].lock = pll["PLLREFE"].lock
                    BY <1>1, <4>1, <4>3 DEF Effect
                <4>5. \A k \in 1 .. i - 1 : todo'[k].pll # "PLLREFE"
                    BY <2>4, <3>1, <3>2
                <4>. QED  BY <4>2, <4>4, <4>5
            <3>3. CASE j # 1
                <4>1. j - 1 \in 1 .. i - 1 /\ todo'[j - 1] = LockOrGoOn("PLLREFE")
                    <5>1. j - 1 \in 1 .. i - 1 /\ (j - 1) + 1 = j
                        BY <3>3, <1>1
                    <5>. QED  BY <2>4, <3>1, <5>1
                <4>2. \A m \in (j - 1) + 1 .. i - 1 : todo'[m].pll # "PLLREFE"
                    <5>1. \A m \in (j - 1) + 1 .. i - 1 : m \in 1 .. i - 1 /\ m + 1 \in j + 1 .. i
                        BY <1>1
                    <5>. QED  BY <2>4, <3>1, <5>1
                <4>. QED  BY <4>1, <4>2
            <3>. QED  BY <3>2, <3>3
        <2>. QED  BY <2>1, <2>2, <2>3, <2>4
    <1>. QED  BY <1>5, <1>6, <1>7

\* Doing an entry leaves a PLL good that it is not about, and makes the one good
\* that it waits for.
LEMMA GoodMoves ==
    ASSUME IInv, Going, NEW p \in Plls
    PROVE  /\ Good(p) /\ todo[1].pll # p => Good(p)'
           /\ todo[1] \in Waits(p) => Good(p)'
    <1>1. Effect(todo[1])
        BY Move
    <1>2. Good(p) /\ todo[1].pll # p => Good(p)'
        BY <1>1 DEF Effect, Good
    <1>3. ASSUME todo[1] \in Waits(p)
          PROVE  Good(p)'
        <2>1. /\ pll[p].lock # "none" => pll[p].on
              /\ pll[p].on => pll[p].power
            BY DEF IInv, PllState
        <2>2. todo[1].op \in {"await", "lockOrFail", "lockOrGoOn"}
            BY <1>3, Fields DEF Waits
        <2>3. todo[1] # PowerDown(p) /\ todo[1] # Disable(p) /\ todo[1].op # "divide"
            BY <2>2, Fields
        <2>4. /\ pll'[p].power <=> todo[1] = Power(p) \/ (pll[p].power /\ todo[1] # PowerDown(p))
              /\ pll'[p].on <=> todo[1] = Enable(p) \/ (pll[p].on /\ todo[1] # Disable(p))
              /\ pll'[p].lock = pll[p].lock
              /\ pll[p].lock = "full" \/ p \in late'
            BY <1>1, <1>3, <2>3 DEF Effect
        <2>. QED  BY <2>1, <2>3, <2>4 DEF Good
    <1>. QED  BY <1>2, <1>3

LEMMA TargetIsPll ==
    ASSUME TypeOK, NEW f
    PROVE  Target(f) \subseteq Plls
    BY Typed DEF Target, Plls

LEMMA PromisedGoing ==
    ASSUME IInv, Going
    PROVE  Promised'
    <1>1. /\ Effect(todo[1])
          /\ Len(todo) \in Nat /\ DOMAIN todo = 1 .. Len(todo) /\ DOMAIN todo' = 1 .. Len(todo) - 1
          /\ 1 \in DOMAIN todo
          /\ \A i \in DOMAIN todo' : i + 1 \in DOMAIN todo /\ todo'[i] = todo[i + 1]
        BY Move
    <1>2. call' = call /\ channels' = channels
        BY <1>1 DEF Effect
    <1>3. TypeOK /\ Promised
        BY DEF IInv, Lists
    <1>4. Target(call)' = Target(call)
        BY <1>2 DEF Target
    <1>. SUFFICES ASSUME call # "none", NEW p \in Target(call)
                  PROVE  \/ Good(p)' /\ \A j \in DOMAIN todo' : todo'[j].pll # p
                         \/ \E j \in DOMAIN todo' : /\ todo'[j] \in Waits(p)
                                                    /\ \A k \in DOMAIN todo' : k > j => todo'[k].pll # p
        BY <1>2, <1>4 DEF Promised, Waits
    <1>5. p \in Plls
        BY <1>3, TargetIsPll
    <1>6. CASE Good(p) /\ \A j \in DOMAIN todo : todo[j].pll # p
        BY <1>1, <1>5, <1>6, GoodMoves
    <1>7. ASSUME NEW j \in DOMAIN todo, todo[j] \in Waits(p), \A k \in DOMAIN todo : k > j => todo[k].pll # p
          PROVE  \/ Good(p)' /\ \A k \in DOMAIN todo' : todo'[k].pll # p
                 \/ \E k \in DOMAIN todo' : /\ todo'[k] \in Waits(p)
                                            /\ \A m \in DOMAIN todo' : m > k => todo'[m].pll # p
        <2>1. CASE j = 1
            <3>1. Good(p)'
                BY <1>5, <1>7, <2>1, GoodMoves
            <3>2. \A k \in DOMAIN todo' : todo'[k].pll # p
                BY <1>1, <1>7, <2>1
            <3>. QED  BY <3>1, <3>2
        <2>2. CASE j # 1
            <3>1. j - 1 \in DOMAIN todo' /\ todo'[j - 1] \in Waits(p)
                <4>1. j - 1 \in DOMAIN todo' /\ (j - 1) + 1 = j
                    BY <1>1, <2>2
                <4>. QED  BY <1>1, <1>7, <4>1
            <3>2. \A m \in DOMAIN todo' : m > j - 1 => todo'[m].pll # p
                BY <1>1, <1>7
            <3>. QED  BY <3>1, <3>2
        <2>. QED  BY <2>1, <2>2
    <1>. QED  BY <1>3, <1>6, <1>7 DEF Promised

LEMMA SettledGoing ==
    ASSUME IInv, Going
    PROVE  Settled'
    <1>1. Effect(todo[1]) /\ 1 \in DOMAIN todo
        BY Move
    <1>2. call' = call /\ channels' = channels
        BY <1>1 DEF Effect
    <1>3. TypeOK /\ Lists /\ Settled
        BY DEF IInv, Lists
    <1>4. todo[1].pll \in Owned(call) /\ call \in Functions
        BY <1>1, <1>3, Effects DEF Lists, TypeOK
    <1>5. /\ call # "pllc4" => todo[1].pll # "PLLC4"
          /\ call # "pllaon" => todo[1].pll # "PLLAON"
          /\ call # "pllm" => todo[1].pll \notin {"PLLM", "PLLMSB"}
        BY <1>4 DEF Owned, Functions
    <1>6. \A p \in Plls : todo[1].pll # p => pll'[p] = pll[p]
        BY <1>1 DEF Effect
    <1>7. \A p \in Plls : todo[1].pll # p /\ Good(p) => Good(p)'
        BY GoodMoves
    <1>8. channels \subseteq {"PLLM", "PLLMSB"} /\ {"PLLC4", "PLLAON", "PLLM", "PLLMSB"} \subseteq Plls
        BY <1>3, Typed DEF Plls
    <1>9. pll'["PLLC4"].on => call' = "pllc4" \/ Good("PLLC4")'
        BY <1>2, <1>3, <1>5, <1>6, <1>7, <1>8 DEF Settled
    <1>10. pll'["PLLAON"].on => call' = "pllaon" \/ Good("PLLAON")'
        BY <1>2, <1>3, <1>5, <1>6, <1>7, <1>8 DEF Settled
    <1>11. pll'["PLLM"].on => call' = "pllm" \/ \A p \in channels' : Good(p)'
        BY <1>2, <1>3, <1>5, <1>6, <1>7, <1>8 DEF Settled
    <1>. QED  BY <1>9, <1>10, <1>11 DEF Settled

LEMMA UpKeptGoing ==
    ASSUME IInv, Going
    PROVE  UpKept'
    <1>1. /\ Effect(todo[1]) /\ 1 \in DOMAIN todo /\ todo[1] \in Ops
          /\ \A i \in DOMAIN todo' : i + 1 \in DOMAIN todo /\ todo'[i] = todo[i + 1]
        BY Move
    <1>2. call' = call /\ channels' = channels /\ up' = up
        BY <1>1 DEF Effect
    <1>3. TypeOK /\ Lists /\ UpKept
        BY DEF IInv, Lists
    <1>4. up \subseteq Plls
        BY <1>3, Typed
    <1>5. call # "plle" => todo[1] # Divide("PLLREFE", "by1")
        BY <1>1, <1>3 DEF Lists
    <1>6. todo[1].pll = "PLLREFE" =>
              call = "ufs" \/ (call = "plle" /\ todo[1] = Divide("PLLREFE", "by1"))
        <2>1. todo[1].pll \in Owned(call) /\ call \in Functions
            BY <1>1, <1>3, Effects DEF Lists, TypeOK
        <2>2. call = "plle" => (todo[1].pll = "PLLREFE" => todo[1] = Divide("PLLREFE", "by1"))
            BY <1>1, <1>3 DEF Lists
        <2>. QED  BY <2>1, <2>2 DEF Owned, Functions
    <1>7. todo[1] = Divide("PLLREFE", "by1") => pll'["PLLREFE"].div = "by1"
        <2>1. "PLLREFE" \in Plls
            BY DEF Plls
        <2>2. \A p \in Plls : pll'[p].div = IF todo[1].op = "divide" /\ todo[1].pll = p
                                          THEN todo[1].arg ELSE pll[p].div
            BY <1>1 DEF Effect
        <2>. QED  BY ByOne, <2>1, <2>2
    <1>8. "PLLREFE" \in Plls /\ (todo[1].pll # "PLLREFE" => pll'["PLLREFE"] = pll["PLLREFE"])
        BY <1>1 DEF Effect, Plls
    <1>9. \A p \in Plls : Reprogrammed(p) => Reprogrammed(p)'
        BY <1>2, <1>6, <1>7, <1>8 DEF Reprogrammed
    <1>10. ASSUME NEW p \in up
           PROVE  Good(p)' \/ Reprogrammed(p)'
        <2>1. p \in Plls /\ (Good(p) \/ Reprogrammed(p))
            BY <1>3, <1>4 DEF UpKept
        <2>2. CASE Reprogrammed(p)
            BY <1>9, <2>1, <2>2
        <2>3. CASE Good(p) /\ todo[1].pll # p
            BY <2>1, <2>3, GoodMoves
        <2>4. CASE todo[1].pll = p /\ p \notin late
            <3>1. Reprogrammed(p) \/ todo[1] = Divide("PLLREFE", "by1")
                BY <1>1, <1>3, <2>4 DEF UpKept
            <3>2. todo[1] = Divide("PLLREFE", "by1") => p = "PLLREFE"
                BY ByOne, <2>4
            <3>3. todo[1] = Divide("PLLREFE", "by1") => Reprogrammed(p)'
                BY <1>7, <3>2 DEF Reprogrammed
            <3>. QED  BY <1>9, <2>1, <3>1, <3>3
        <2>5. CASE p \in late
            BY <1>1, <2>5 DEF Good, Effect
        <2>. QED  BY <2>1, <2>2, <2>3, <2>4, <2>5
    <1>11. ASSUME NEW p \in up' \ late', NEW j \in DOMAIN todo', todo'[j].pll = p
           PROVE  Reprogrammed(p)' \/ todo'[j] = Divide("PLLREFE", "by1")
        <2>1. p \in up \ late /\ p \in Plls
            BY <1>1, <1>2, <1>4 DEF Effect
        <2>2. Reprogrammed(p) \/ todo[j + 1] = Divide("PLLREFE", "by1")
            BY <1>1, <1>3, <1>11, <2>1 DEF UpKept
        <2>. QED  BY <1>1, <1>9, <2>1, <2>2
    <1>12. "PLLMSB" \in up' => "PLLMSB" \in channels' /\ channels' \subseteq up'
        BY <1>2, <1>3 DEF UpKept
    <1>13. late' \subseteq {"PLLAON", "UTMIPLL", "PLLREFE"}
        BY <1>1, <1>3 DEF UpKept, Effect
    <1>. QED  BY <1>2, <1>10, <1>11, <1>12, <1>13 DEF UpKept

LEMMA GoingStep ==
    ASSUME IInv, Going
    PROVE  IInv'
    BY ListsGoing, PllStateGoing, EnableReadyGoing, OffBeforeGoing, UfsInTurnGoing, PromisedGoing,
       SettledGoing, UpKeptGoing DEF IInv

---------------------------------------------------------------------------
(* Lemmas: the steps that leave the list as it is.                         *)

\* A poll changes its count only.
LEMMA PollStep ==
    ASSUME IInv, PollAgain \/ UNCHANGED vars
    PROVE  IInv'
    <1>1. UNCHANGED << pll, fractional, ufs, channels, call, todo, result, up, late, calls >>
        BY DEF PollAgain, Driver, Hardware, vars
    <1>2. polls' \in 0 .. Polls
        <2>1. polls \in 0 .. Polls /\ Polls \in Nat
            BY Typed, BoundsAssumption DEF IInv, Lists
        <2>2. CASE PollAgain
            BY <2>1, <2>2 DEF PollAgain
        <2>3. CASE UNCHANGED vars
            BY <2>1, <2>3 DEF vars
        <2>. QED  BY <2>2, <2>3
    <1>3. Lists'
        <2>1. TypeOK'
            BY <1>1, <1>2 DEF IInv, Lists, TypeOK
        <2>. QED  BY <1>1, <2>1 DEF IInv, Lists
    <1>4. PllState' /\ Settled'
        BY <1>1 DEF IInv, PllState, Settled, Good
    <1>5. EnableReady' /\ OffBefore' /\ UfsInTurn'
        BY <1>1 DEF IInv, EnableReady, OffBefore, UfsInTurn, Before
    <1>6. Promised' /\ UpKept'
        <2>1. Target(call)' = Target(call)
            BY <1>1 DEF Target
        <2>2. \A p : (Reprogrammed(p)' <=> Reprogrammed(p)) /\ (Good(p)' <=> Good(p))
            BY <1>1 DEF Reprogrammed, Good
        <2>3. Promised'
            BY <1>1, <2>1, <2>2 DEF IInv, Promised, Waits
        <2>4. UpKept'
            BY <1>1, <2>2 DEF IInv, UpKept
        <2>. QED  BY <2>3, <2>4
    <1>. QED  BY <1>3, <1>4, <1>5, <1>6 DEF IInv

\* The hardware locks a PLL: nothing else changes, and a lock is only gained.
LEMMA LocksFacts ==
    ASSUME IInv, NEW q \in Plls, Locks(q)
    PROVE  /\ pll' \in [Plls -> Registers]
           /\ \A p \in Plls : /\ p # q => pll'[p] = pll[p]
                              /\ pll'[p].on = pll[p].on /\ pll'[p].power = pll[p].power
                              /\ pll'[p].div = pll[p].div
                              /\ pll[p].lock = "full" => pll'[p].lock = "full"
           /\ pll'[q].lock = IF q = "PLLAON" /\ pll[q].lock = "none" THEN "freq" ELSE "full"
           /\ UNCHANGED << fractional, ufs, channels, todo, polls, late, call, result, up, calls >>
    <1>. DEFINE l == IF q = "PLLAON" /\ pll[q].lock = "none" THEN "freq" ELSE "full"
                r == [pll[q] EXCEPT !.lock = l]
    <1>1. pll \in [Plls -> Registers]
        BY Typed DEF IInv, Lists
    <1>2. pll' = [pll EXCEPT ![q] = r]
        BY <1>1 DEF Locks, Registers
    <1>3. l \in {"none", "freq", "full"} /\ pll[q] \in Registers
        BY <1>1
    <1>4. pll[q].lock = "full" => l = "full"
        OBVIOUS
    <1>. HIDE DEF l
    <1>5. r \in Registers /\ r.on = pll[q].on /\ r.power = pll[q].power /\ r.div = pll[q].div /\ r.lock = l
        BY <1>3 DEF Registers
    <1>. HIDE DEF r
    <1>6. pll' \in [Plls -> Registers] /\ pll'[q] = r /\ \A p \in Plls \ {q} : pll'[p] = pll[p]
        BY <1>1, <1>2, <1>5
    <1>7. UNCHANGED << fractional, ufs, channels, todo, polls, late, call, result, up, calls >>
        BY DEF Locks, Driver
    <1>. QED  BY <1>4, <1>5, <1>6, <1>7 DEF l

LEMMA LocksStep ==
    ASSUME IInv, NEW q \in Plls, Locks(q)
    PROVE  IInv'
    <1>1. /\ pll' \in [Plls -> Registers]
          /\ \A p \in Plls : /\ p # q => pll'[p] = pll[p]
                             /\ pll'[p].on = pll[p].on /\ pll'[p].power = pll[p].power
                             /\ pll'[p].div = pll[p].div
                             /\ pll[p].lock = "full" => pll'[p].lock = "full"
          /\ pll'[q].lock = IF q = "PLLAON" /\ pll[q].lock = "none" THEN "freq" ELSE "full"
        BY LocksFacts
    <1>2. UNCHANGED << fractional, ufs, channels, todo, polls, late, call, result, up, calls >>
        BY LocksFacts
    <1>3. TypeOK /\ up \subseteq Plls /\ channels \subseteq Plls
        BY Typed DEF IInv, Lists, Plls
    <1>4. \A p \in Plls : (Good(p) => Good(p)') /\ (Reprogrammed(p) => Reprogrammed(p)')
        <2>1. \A p \in Plls : Good(p) => Good(p)'
            BY <1>1, <1>2 DEF Good
        <2>2. "PLLREFE" \in Plls
            BY DEF Plls
        <2>. QED  BY <1>1, <1>2, <2>1, <2>2 DEF Reprogrammed
    <1>5. Lists'
        <2>1. TypeOK'
            BY <1>1, <1>2, <1>3 DEF TypeOK, Registers
        <2>. QED  BY <1>2, <2>1 DEF IInv, Lists
    <1>6. PllState'
        <2>1. pll[q].on /\ ("PLLAON" = q /\ pll[q].lock = "freq" => ~fractional) /\ pll[q].lock # "full"
            BY DEF Locks
        <2>2. ASSUME NEW p \in Plls
              PROVE  /\ (pll'[p].lock # "none" => pll'[p].on)
                     /\ (pll'[p].on => pll'[p].power /\ pll'[p].div # "blank")
                     /\ (pll'[p].div # "blank" => pll'[p].div \in DivsOf(p))
            BY <1>1, <2>1 DEF IInv, PllState
        <2>3. pll'["PLLAON"].lock = "full" => ~fractional'
            <3>1. pll["PLLAON"].lock \in {"none", "freq", "full"} /\ "PLLAON" \in Plls
                BY <1>3, Typed DEF Registers, Plls
            <3>2. pll["PLLAON"].lock = "full" => ~fractional
                BY DEF IInv, PllState
            <3>. QED  BY <1>1, <1>2, <2>1, <3>1, <3>2
        <2>. QED  BY <2>2, <2>3 DEF PllState
    <1>7. EnableReady' /\ OffBefore'
        BY <1>1, <1>2 DEF IInv, EnableReady, OffBefore, Before
    <1>8. UfsInTurn'
        <2>1. pll["PLLREFE"].lock = "full" => pll'["PLLREFE"].lock = "full"
            BY <1>1 DEF Plls
        <2>. QED  BY <1>2, <2>1 DEF IInv, UfsInTurn, Before
    <1>9. Promised'
        <2>1. Target(call)' = Target(call) /\ Target(call) \subseteq Plls
            BY <1>2, <1>3, TargetIsPll DEF Target
        <2>. QED  BY <1>2, <1>4, <2>1 DEF IInv, Promised, Waits
    <1>10. Settled'
        BY <1>1, <1>2, <1>3, <1>4 DEF IInv, Settled, Plls
    <1>11. UpKept'
        BY <1>2, <1>3, <1>4 DEF IInv, UpKept
    <1>. QED  BY <1>5, <1>6, <1>7, <1>8, <1>9, <1>10, <1>11 DEF IInv

---------------------------------------------------------------------------
(* Lemmas: the steps that return.                                          *)

LEMMA Counted ==
    ASSUME TypeOK, calls < MaxCalls, calls' = calls + 1
    PROVE  calls' \in 0 .. MaxCalls
    <1>1. calls \in 0 .. MaxCalls /\ MaxCalls \in Nat
        BY BoundsAssumption DEF TypeOK
    <1>. QED  BY <1>1

\* A function that returns leaves nothing to do: what is to be shown is that the
\* PLLs it is taken to have brought up are, and that the others are settled.
LEMMA ReturnStep ==
    ASSUME IInv, NEW f \in Functions \cup {"none"}, NEW r, Return(f, r),
           r \in {"ok", "LOCK_FAILED", "NOT_SUPPORTED", "BAD_PARAMETER"},
           UNCHANGED Hardware,
           late \subseteq late', late' \subseteq {"PLLAON", "UTMIPLL", "PLLREFE"},
           calls' \in 0 .. MaxCalls,
           call \in {f, "none"},
           r = "ok" => \A p \in Target(f) : Good(p)',
           (pll["PLLC4"].on => Good("PLLC4")') /\ (pll["PLLAON"].on => Good("PLLAON")')
               /\ (pll["PLLM"].on => \A p \in channels : Good(p)'),
           r # "ok" => call \notin {"ufs", "pllm"}
    PROVE  IInv'
    <1>1. /\ pll' = pll /\ fractional' = fractional /\ ufs' = ufs /\ channels' = channels
          /\ call' = "none" /\ todo' = << >> /\ polls' = Polls /\ result' = r
          /\ up' = IF r = "ok" THEN up \cup Target(f) ELSE up
        BY DEF Return, Hardware
    <1>2. TypeOK /\ Lists /\ UpKept
        BY DEF IInv, Lists
    <1>3. up' \subseteq Plls
        BY <1>1, <1>2, TargetIsPll, Typed
    <1>4. TypeOK'
        <2>1. late' \subseteq Plls /\ polls' \in 0 .. Polls
            BY <1>1, <1>2, Typed DEF Plls
        <2>. QED  BY <1>1, <1>2, <1>3, <2>1 DEF TypeOK
    <1>5. DOMAIN todo' = {} /\ todo' \in Seq(Ops)
        BY <1>1
    <1>6. Lists'
        BY <1>4, <1>5 DEF Lists
    <1>7. PllState'
        BY <1>1 DEF IInv, PllState
    <1>8. EnableReady' /\ OffBefore' /\ UfsInTurn'
        BY <1>5 DEF EnableReady, OffBefore, UfsInTurn
    <1>9. Promised'
        BY <1>1 DEF Promised
    <1>10. Settled'
        BY <1>1 DEF Settled
    <1>11. \A p : Good(p) => Good(p)'
        BY <1>1 DEF Good
    <1>12. \A p \in up' : Good(p)' \/ Reprogrammed(p)'
        <2>1. SUFFICES ASSUME NEW p \in up', p \in up, r = "ok" => p \notin Target(f)
                       PROVE  Good(p)' \/ Reprogrammed(p)'
            BY <1>1
        <2>2. Good(p) \/ Reprogrammed(p)
            BY <1>2, <2>1 DEF UpKept
        <2>3. CASE Good(p)
            BY <1>11, <2>3
        <2>4. CASE p = "PLLREFE" /\ pll[p].div = "by1"
            BY <1>1, <2>4 DEF Reprogrammed
        <2>5. CASE p = "PLLREFE" /\ call = "ufs"
            <3>1. r = "ok" /\ f = "ufs"
                BY <2>5
            <3>. QED  BY <2>1, <2>5, <3>1 DEF Target
        <2>6. CASE p = "PLLMSB" /\ call = "pllm"
            <3>1. r = "ok" /\ f = "pllm" /\ "PLLMSB" \in channels
                BY <1>2, <2>1, <2>6 DEF UpKept
            <3>. QED  BY <2>1, <2>6, <3>1 DEF Target
        <2>. QED  BY <2>2, <2>3, <2>4, <2>5, <2>6 DEF Reprogrammed
    <1>13. "PLLMSB" \in up' => "PLLMSB" \in channels' /\ channels' \subseteq up'
        <2>1. "PLLMSB" \in up => "PLLMSB" \in channels /\ channels \subseteq up
            BY <1>2 DEF UpKept
        <2>2. "PLLMSB" \in Target(f) => f = "pllm" /\ Target(f) = channels
            BY DEF Target, Functions
        <2>. QED  BY <1>1, <2>1, <2>2
    <1>14. UpKept'
        BY <1>5, <1>12, <1>13 DEF UpKept
    <1>. QED  BY <1>6, <1>7, <1>8, <1>9, <1>10, <1>14 DEF IInv

LEMMA ReturnOkStep ==
    ASSUME IInv, ReturnOk
    PROVE  IInv'
    <1>1. call # "none" /\ todo = << >> /\ Return(call, "ok") /\ late' = late /\ calls' = calls
          /\ UNCHANGED Hardware
        BY DEF ReturnOk
    <1>2. TypeOK /\ Promised /\ Settled /\ UpKept
        BY DEF IInv, Lists
    <1>3. call \in Functions /\ calls' \in 0 .. MaxCalls
        BY <1>1, <1>2 DEF TypeOK
    <1>4. \A p : Good(p)' <=> Good(p)
        BY <1>1 DEF Good, Hardware
    <1>5. \A p \in Target(call) : Good(p)
        BY <1>1, <1>2 DEF Promised
    <1>6. /\ pll["PLLC4"].on => Good("PLLC4")
          /\ pll["PLLAON"].on => Good("PLLAON")
          /\ pll["PLLM"].on => \A p \in channels : Good(p)
        BY <1>2, <1>5 DEF Settled, Target
    <1>. QED  BY <1>1, <1>2, <1>3, <1>4, <1>5, <1>6, ReturnStep DEF UpKept

LEMMA LockFailedStep ==
    ASSUME IInv, LockFailed
    PROVE  IInv'
    <1>1. /\ todo # << >> /\ First.op = "lockOrFail" /\ late' = late \cup {First.pll}
          /\ Return(call, "LOCK_FAILED") /\ calls' = calls /\ UNCHANGED Hardware
        BY DEF LockFailed, At
    <1>2. TypeOK /\ Lists /\ Settled /\ UpKept
        BY DEF IInv, Lists
    <1>3. First.pll = "PLLAON" /\ First = todo[1] /\ 1 \in DOMAIN todo
        <2>1. First \in {LockOrFail("PLLAON", "freq"), LockOrFail("PLLAON", "full")}
            BY <1>1, <1>2, HeadCases DEF Lists
        <2>2. First.pll = "PLLAON"
            BY <2>1 DEF LockOrFail, Op
        <2>3. First = todo[1] /\ 1 \in DOMAIN todo
            <3>1. todo \in Seq(Ops) /\ todo # << >>
                BY <1>1, <1>2 DEF Lists
            <3>. QED  BY <3>1, HeadTailProperties DEF First
        <2>. QED  BY <2>2, <2>3
    <1>4. call = "pllaon" /\ calls' \in 0 .. MaxCalls
        <2>1. call \in Functions /\ "PLLAON" \in Owned(call) /\ calls \in 0 .. MaxCalls
            BY <1>1, <1>2, <1>3 DEF Lists, TypeOK
        <2>. QED  BY <1>1, <2>1 DEF Owned, Functions
    <1>5. \A p : Good(p) => Good(p)'
        BY <1>1 DEF Good, Hardware
    <1>6. Good("PLLAON")'
        BY <1>1, <1>3 DEF Good
    <1>7. /\ pll["PLLC4"].on => Good("PLLC4")'
          /\ pll["PLLM"].on => \A p \in channels : Good(p)'
        BY <1>2, <1>4, <1>5 DEF Settled
    <1>8. late \subseteq late' /\ late' \subseteq {"PLLAON", "UTMIPLL", "PLLREFE"}
        BY <1>1, <1>2, <1>3 DEF UpKept
    <1>. QED  BY <1>1, <1>4, <1>6, <1>7, <1>8, ReturnStep DEF Functions

LEMMA AlreadyUpStep ==
    ASSUME IInv, NEW f \in Functions, AlreadyUp(f)
    PROVE  IInv'
    <1>1. /\ call = "none" /\ calls < MaxCalls /\ calls' = calls + 1 /\ IsUp(f)
          /\ Return(f, "ok") /\ late' = late /\ UNCHANGED Hardware
        BY DEF AlreadyUp
    <1>2. TypeOK /\ Settled /\ UpKept /\ PllState
        BY DEF IInv, Lists
    <1>3. calls' \in 0 .. MaxCalls
        BY <1>1, <1>2, Counted
    <1>4. \A p : Good(p) => Good(p)'
        BY <1>1 DEF Good, Hardware
    <1>5. /\ pll["PLLC4"].on => Good("PLLC4")
          /\ pll["PLLAON"].on => Good("PLLAON")
          /\ pll["PLLM"].on => \A p \in channels : Good(p)
        BY <1>1, <1>2 DEF Settled
    <1>6. \A p \in Plls : pll[p].lock = "full" => Good(p)
        BY <1>2 DEF PllState, Good
    <1>7. \A p \in Target(f) : Good(p)
        BY <1>1, <1>5, <1>6 DEF IsUp, Target, Functions, Plls
    <1>. QED  BY <1>1, <1>2, <1>3, <1>4, <1>5, <1>7, ReturnStep DEF UpKept

LEMMA CallWithoutWorkStep ==
    ASSUME IInv, NEW r \in {"ok", "NOT_SUPPORTED", "BAD_PARAMETER"}, CallWithoutWork(r)
    PROVE  IInv'
    <1>1. /\ call = "none" /\ calls < MaxCalls /\ calls' = calls + 1
          /\ Return("none", r) /\ late' = late /\ UNCHANGED Hardware
        BY DEF CallWithoutWork
    <1>2. TypeOK /\ Settled /\ UpKept
        BY DEF IInv, Lists
    <1>3. calls' \in 0 .. MaxCalls
        BY <1>1, <1>2, Counted
    <1>4. \A p : Good(p) => Good(p)'
        BY <1>1 DEF Good, Hardware
    <1>5. /\ pll["PLLC4"].on => Good("PLLC4")
          /\ pll["PLLAON"].on => Good("PLLAON")
          /\ pll["PLLM"].on => \A p \in channels : Good(p)
        BY <1>1, <1>2 DEF Settled
    <1>6. Target("none") = {}
        BY DEF Target
    <1>. QED  BY <1>1, <1>2, <1>3, <1>4, <1>5, <1>6, ReturnStep DEF UpKept

---------------------------------------------------------------------------
(* Lemmas: the functions that are called.                                  *)

\* A call starts with its whole list: what is to be shown is of that list.
LEMMA CallStep ==
    ASSUME IInv, NEW f \in Functions, Call(f),
           todo' \in Seq(Ops),
           \A i \in DOMAIN todo' : todo'[i].pll \in Owned(f),
           f # "plle" => \A i \in DOMAIN todo' : todo'[i] # Divide("PLLREFE", "by1"),
           f = "plle" => \A i \in DOMAIN todo' :
                            todo'[i].pll = "PLLREFE" => todo'[i] = Divide("PLLREFE", "by1"),
           EnableReady', OffBefore', UfsInTurn', Promised',
           \A p \in up' \ late : \A j \in DOMAIN todo' :
              todo'[j].pll = p => Reprogrammed(p)' \/ todo'[j] = Divide("PLLREFE", "by1")
    PROVE  IInv'
    <1>1. /\ call = "none" /\ call' = f /\ result' = "none" /\ calls < MaxCalls /\ calls' = calls + 1
          /\ up' \subseteq up /\ (up' = up \/ up' = up \ {"PLLE"})
          /\ UNCHANGED << pll, fractional, ufs, channels, polls, late >>
        BY DEF Call, Hardware
    <1>2. TypeOK /\ Lists /\ UpKept /\ Settled
        BY DEF IInv, Lists
    <1>3. calls' \in 0 .. MaxCalls
        BY <1>1, <1>2, Counted
    <1>4. TypeOK'
        <2>1. call' \in Functions \cup {"none"} /\ call' # "none"
            BY <1>1 DEF Functions
        <2>. QED  BY <1>1, <1>2, <1>3, <2>1 DEF TypeOK
    <1>5. Lists'
        BY <1>1, <1>4 DEF Lists
    <1>6. PllState' /\ Settled'
        <2>1. PllState'
            BY <1>1 DEF IInv, PllState
        <2>2. \A p : Good(p)' <=> Good(p)
            BY <1>1 DEF Good
        <2>. QED  BY <1>1, <1>2, <2>1, <2>2 DEF Settled
    <1>7. UpKept'
        <2>1. \A p \in up' : Good(p)' \/ Reprogrammed(p)'
            <3>1. \A p : Good(p) => Good(p)'
                BY <1>1 DEF Good
            <3>2. \A p : Reprogrammed(p) => Reprogrammed(p)'
                BY <1>1 DEF Reprogrammed
            <3>. QED  BY <1>1, <1>2, <3>1, <3>2 DEF UpKept
        <2>2. "PLLMSB" \in up' => "PLLMSB" \in channels' /\ channels' \subseteq up'
            <3>1. channels \subseteq {"PLLM", "PLLMSB"}
                BY <1>2, Typed
            <3>. QED  BY <1>1, <1>2, <3>1 DEF UpKept
        <2>. QED  BY <1>1, <1>2, <2>1, <2>2 DEF UpKept
    <1>. QED  BY <1>5, <1>6, <1>7 DEF IInv

\* A PLL that is taken to be up, and not just waited for in vain, is up.
LEMMA UpIsGood ==
    ASSUME IInv, call = "none", NEW p \in up \ late, p # "PLLREFE"
    PROVE  pll[p].on /\ pll[p].lock = "full"
    BY DEF IInv, UpKept, Good, Reprogrammed

LEMMA Pllc4Called ==
    ASSUME IInv, Call("pllc4")
    PROVE  IInv'
    <1>1. /\ call = "none" /\ call' = "pllc4" /\ ~pll["PLLC4"].on /\ up' = up
          /\ UNCHANGED << pll, fractional, ufs, channels, polls, late >>
        BY DEF Call, Hardware, IsUp
    <1>2. todo' = << Power("PLLC4"), Divide("PLLC4", "C4"), Enable("PLLC4"), Await("PLLC4") >>
        BY DEF Call, ToDo, InitPllc4
    <1>3. /\ Len(todo') = 4 /\ DOMAIN todo' = 1 .. 4
          /\ todo'[1] = Power("PLLC4") /\ todo'[2] = Divide("PLLC4", "C4")
          /\ todo'[3] = Enable("PLLC4") /\ todo'[4] = Await("PLLC4")
        BY <1>2
    <1>4. todo' \in Seq(Ops)
        BY <1>2 DEF Ops, Powers, Divisions, Enables, Awaits, Plls, DivsOf
    <1>5. \A i \in DOMAIN todo' : todo'[i].pll = "PLLC4"
        BY <1>3, Fields
    <1>6. EnableReady'
        <2>1. \A p \in Plls, i \in 1 .. 4 : todo'[i] = Enable(p) => i = 3 /\ p = "PLLC4"
            BY <1>3, Fields
        <2>2. Before(3, Power("PLLC4"))' /\ Before(3, Divide("PLLC4", "C4"))' /\ "C4" \in DivsOf("PLLC4")
            BY <1>3 DEF Before, DivsOf
        <2>3. \A j \in 1 .. 2 : todo'[j] # PowerDown("PLLC4")
            BY <1>3, Fields
        <2>. QED  BY <1>3, <2>1, <2>2, <2>3 DEF EnableReady
    <1>7. OffBefore'
        BY <1>3, Fields DEF OffBefore
    <1>8. UfsInTurn'
        BY <1>3, Fields DEF UfsInTurn
    <1>9. Promised'
        BY <1>1, <1>3 DEF Promised, Target, Waits
    <1>10. "PLLC4" \notin up \ late
        BY <1>1, UpIsGood
    <1>11. \A i \in DOMAIN todo' : todo'[i].pll \in Owned("pllc4") /\ todo'[i] # Divide("PLLREFE", "by1")
        BY <1>5, ByOne DEF Owned
    <1>. QED  BY <1>1, <1>4, <1>5, <1>6, <1>7, <1>8, <1>9, <1>10, <1>11, CallStep DEF Functions

\* Two lists, one after the other.
LEMMA Joined ==
    ASSUME NEW s \in Seq(Ops), NEW t \in Seq(Ops), NEW st, st = s \o t
    PROVE  /\ st \in Seq(Ops) /\ Len(s) \in Nat /\ Len(t) \in Nat
           /\ Len(st) = Len(s) + Len(t) /\ DOMAIN st = 1 .. Len(s) + Len(t)
           /\ \A i \in 1 .. Len(s) : st[i] = s[i]
           /\ \A i \in 1 .. Len(t) : st[Len(s) + i] = t[i]
    <1>1. /\ st \in Seq(Ops)
          /\ Len(st) = Len(s) + Len(t)
          /\ \A i \in 1 .. Len(s) + Len(t) : st[i] = IF i <= Len(s) THEN s[i] ELSE t[i - Len(s)]
        BY ConcatProperties
    <1>2. Len(s) \in Nat /\ Len(t) \in Nat /\ DOMAIN st = 1 .. Len(st)
        BY <1>1
    <1>3. \A i \in 1 .. Len(s) : st[i] = s[i]
        BY <1>1, <1>2
    <1>4. ASSUME NEW i \in 1 .. Len(t)
          PROVE  st[Len(s) + i] = t[i]
        <2>1. /\ Len(s) + i \in 1 .. Len(s) + Len(t) /\ ~(Len(s) + i <= Len(s))
              /\ (Len(s) + i) - Len(s) = i
            BY <1>2
        <2>. QED  BY <1>1, <2>1
    <1>. QED  BY <1>1, <1>2, <1>3, <1>4

LEMMA PllaonCalled ==
    ASSUME IInv, Call("pllaon")
    PROVE  IInv'
    <1>1. /\ call = "none" /\ call' = "pllaon" /\ ~pll["PLLAON"].on /\ up' = up
          /\ UNCHANGED << pll, fractional, ufs, channels, polls, late >>
        BY DEF Call, Hardware, IsUp
    <1>. DEFINE u == << Fractional, PowerDown("PLLAON") >>
                v == << Disable("PLLAON"), Divide("PLLAON", "AON") >>
                w == << Power("PLLAON"), Enable("PLLAON"), LockOrFail("PLLAON", "freq"), Unfractional,
                        LockOrFail("PLLAON", "full") >>
    <1>2. todo' = (u \o v) \o w
        BY DEF Call, ToDo, InitPllaon, UpdateBase, Fractional, Unfractional
    <1>2a. u \in Seq(Ops) /\ v \in Seq(Ops) /\ w \in Seq(Ops)
        <2>1. {Power("PLLAON"), PowerDown("PLLAON"), Enable("PLLAON"), Disable("PLLAON"), Fractional,
               Unfractional, LockOrFail("PLLAON", "freq"), LockOrFail("PLLAON", "full")} \subseteq Ops
            BY DEF Ops, Powers, Enables, Modes, Awaits, Plls
        <2>2. Divide("PLLAON", "AON") \in Ops
            BY DEF Ops, Divisions, Plls, DivsOf
        <2>. QED  BY <2>1, <2>2
    <1>2b. /\ Len(u) = 2 /\ u[1] = Fractional /\ u[2] = PowerDown("PLLAON")
           /\ Len(v) = 2 /\ v[1] = Disable("PLLAON") /\ v[2] = Divide("PLLAON", "AON")
           /\ Len(w) = 5 /\ w[1] = Power("PLLAON") /\ w[2] = Enable("PLLAON")
           /\ w[3] = LockOrFail("PLLAON", "freq") /\ w[4] = Unfractional
           /\ w[5] = LockOrFail("PLLAON", "full")
        OBVIOUS
    <1>. DEFINE x == u \o v
    <1>. HIDE DEF u, v, w
    <1>2c. /\ x \in Seq(Ops) /\ Len(x) = 4
           /\ x[1] = u[1] /\ x[2] = u[2] /\ x[3] = v[1] /\ x[4] = v[2]
        <2>1. x \in Seq(Ops) /\ Len(x) = Len(u) + Len(v)
              /\ (\A i \in 1 .. Len(u) : x[i] = u[i]) /\ (\A i \in 1 .. Len(v) : x[Len(u) + i] = v[i])
            BY <1>2a, Joined
        <2>. HIDE DEF x
        <2>2. x[2 + 1] = v[1] /\ x[2 + 2] = v[2]
            BY <1>2b, <2>1
        <2>. QED  BY <1>2b, <2>1, <2>2
    <1>2d. todo' = x \o w
        BY <1>2
    <1>. HIDE DEF x
    <1>2e. /\ todo' \in Seq(Ops) /\ Len(todo') = 4 + 5 /\ DOMAIN todo' = 1 .. 4 + 5
           /\ (\A i \in 1 .. 4 : todo'[i] = x[i]) /\ (\A i \in 1 .. 5 : todo'[4 + i] = w[i])
        <2>1. /\ todo' \in Seq(Ops) /\ Len(todo') = Len(x) + Len(w) /\ DOMAIN todo' = 1 .. Len(x) + Len(w)
              /\ (\A i \in 1 .. Len(x) : todo'[i] = x[i])
              /\ (\A i \in 1 .. Len(w) : todo'[Len(x) + i] = w[i])
            <3>1. x \in Seq(Ops) /\ w \in Seq(Ops)
                BY <1>2a, <1>2c
            <3>. QED  BY <1>2d, <3>1, Joined
        <2>. QED  BY <1>2b, <1>2c, <2>1
    <1>3. /\ Len(todo') = 9 /\ DOMAIN todo' = 1 .. 9
          /\ todo'[1] = Fractional /\ todo'[2] = PowerDown("PLLAON") /\ todo'[3] = Disable("PLLAON")
          /\ todo'[4] = Divide("PLLAON", "AON") /\ todo'[5] = Power("PLLAON")
          /\ todo'[6] = Enable("PLLAON") /\ todo'[7] = LockOrFail("PLLAON", "freq")
          /\ todo'[8] = Unfractional /\ todo'[9] = LockOrFail("PLLAON", "full")
        <2>1. todo'[4 + 1] = w[1] /\ todo'[4 + 2] = w[2] /\ todo'[4 + 3] = w[3] /\ todo'[4 + 4] = w[4]
              /\ todo'[4 + 5] = w[5]
            BY <1>2e
        <2>. QED  BY <1>2b, <1>2c, <1>2e, <2>1
    <1>4. todo' \in Seq(Ops)
        BY <1>2e
    <1>5. \A i \in DOMAIN todo' : todo'[i].pll = "PLLAON"
        BY <1>3, Fields
    <1>6. EnableReady'
        <2>1. \A p \in Plls, i \in 1 .. 9 : todo'[i] = Enable(p) => i = 6 /\ p = "PLLAON"
            BY <1>3, Fields
        <2>2. Before(6, Power("PLLAON"))' /\ Before(6, Divide("PLLAON", "AON"))' /\ "AON" \in DivsOf("PLLAON")
            BY <1>3 DEF Before, DivsOf
        <2>3. \A j \in 1 .. 5 : todo'[j] = PowerDown("PLLAON") => j = 2
            BY <1>3, Fields
        <2>4. \A j \in 1 .. 5 : todo'[j] = PowerDown("PLLAON") =>
                                    \E k \in j + 1 .. 5 : todo'[k] = Power("PLLAON")
            BY <1>3, <2>3
        <2>. QED  BY <1>3, <2>1, <2>2, <2>4 DEF EnableReady
    <1>7. OffBefore'
        <2>1. \A p \in Plls, i \in 1 .. 9 : todo'[i] \in {PowerDown(p), Fractional} => i \in 1 .. 2
            BY <1>3, Fields
        <2>2. \A p \in Plls, i \in 1 .. 9 : todo'[i] = PowerDown(p) => p = "PLLAON"
            BY <1>3, Fields
        <2>3. \A p \in Plls, i \in 1 .. 2 : ~Before(i, Enable(p))'
            BY <1>3, Fields DEF Before
        <2>. QED  BY <1>1, <1>3, <2>1, <2>2, <2>3 DEF OffBefore
    <1>8. UfsInTurn'
        BY <1>3, Fields DEF UfsInTurn
    <1>9. Promised'
        <2>1. Target("pllaon")' = {"PLLAON"}
            BY DEF Target
        <2>. QED  BY <1>1, <1>3, <2>1 DEF Promised, Waits
    <1>10. "PLLAON" \notin up \ late
        BY <1>1, UpIsGood
    <1>11. \A i \in DOMAIN todo' : todo'[i].pll \in Owned("pllaon") /\ todo'[i] # Divide("PLLREFE", "by1")
        BY <1>5, ByOne DEF Owned
    <1>. QED  BY <1>1, <1>4, <1>5, <1>6, <1>7, <1>8, <1>9, <1>10, <1>11, CallStep DEF Functions

LEMMA PlleCalled ==
    ASSUME IInv, Call("plle")
    PROVE  IInv'
    <1>1. /\ call = "none" /\ call' = "plle" /\ ~(pll["PLLE"].on /\ pll["PLLE"].lock = "full") /\ up' = up
          /\ UNCHANGED << pll, fractional, ufs, channels, polls, late >>
        BY DEF Call, Hardware, IsUp
    <1>2. todo' = << Disable("PLLE"), PowerDown("PLLE"), Divide("PLLREFE", "by1"), Power("PLLE"),
                     Divide("PLLE", "E"), Enable("PLLE"), Await("PLLE") >>
        BY DEF Call, ToDo, InitPlle
    <1>3. /\ Len(todo') = 7 /\ DOMAIN todo' = 1 .. 7
          /\ todo'[1] = Disable("PLLE") /\ todo'[2] = PowerDown("PLLE")
          /\ todo'[3] = Divide("PLLREFE", "by1") /\ todo'[4] = Power("PLLE")
          /\ todo'[5] = Divide("PLLE", "E") /\ todo'[6] = Enable("PLLE") /\ todo'[7] = Await("PLLE")
        BY <1>2
    <1>4. todo' \in Seq(Ops)
        <2>1. {Power("PLLE"), PowerDown("PLLE"), Enable("PLLE"), Disable("PLLE"), Await("PLLE")} \subseteq Ops
            BY DEF Ops, Powers, Enables, Awaits, Plls
        <2>2. {Divide("PLLREFE", "by1"), Divide("PLLE", "E")} \subseteq Ops
            BY DEF Ops, Divisions, Plls, DivsOf
        <2>. QED  BY <1>2, <2>1, <2>2
    <1>5. \A i \in DOMAIN todo' : todo'[i].pll = "PLLE" \/ todo'[i] = Divide("PLLREFE", "by1")
        BY <1>3, Fields
    <1>6. EnableReady'
        <2>1. \A p \in Plls, i \in 1 .. 7 : todo'[i] = Enable(p) => i = 6 /\ p = "PLLE"
            BY <1>3, Fields
        <2>2. Before(6, Power("PLLE"))' /\ Before(6, Divide("PLLE", "E"))' /\ "E" \in DivsOf("PLLE")
            BY <1>3 DEF Before, DivsOf
        <2>3. \A j \in 1 .. 5 : todo'[j] = PowerDown("PLLE") => j = 2
            BY <1>3, Fields
        <2>4. \A j \in 1 .. 5 : todo'[j] = PowerDown("PLLE") => \E k \in j + 1 .. 5 : todo'[k] = Power("PLLE")
            BY <1>3, <2>3
        <2>. QED  BY <1>3, <2>1, <2>2, <2>4 DEF EnableReady
    <1>7. OffBefore'
        <2>1. \A p \in Plls, i \in 1 .. 7 : todo'[i] = PowerDown(p) => i = 2 /\ p = "PLLE"
            BY <1>3, Fields
        <2>2. \A i \in 1 .. 7 : todo'[i] # Fractional
            BY <1>3, Fields
        <2>3. Before(2, Disable("PLLE"))' /\ ~Before(2, Enable("PLLE"))'
            BY <1>3, Fields DEF Before
        <2>. QED  BY <1>1, <1>3, <2>1, <2>2, <2>3 DEF OffBefore
    <1>8. UfsInTurn'
        BY <1>3, Fields DEF UfsInTurn
    <1>9. Promised'
        <2>1. Target("plle")' = {"PLLE"}
            BY DEF Target
        <2>. QED  BY <1>1, <1>3, <2>1 DEF Promised, Waits
    <1>10. "PLLE" \notin up \ late
        BY <1>1, UpIsGood
    <1>11. \A i \in DOMAIN todo' : /\ todo'[i].pll \in Owned("plle")
                                   /\ todo'[i].pll = "PLLREFE" => todo'[i] = Divide("PLLREFE", "by1")
        BY <1>5, ByOne DEF Owned
    <1>. QED  BY <1>1, <1>4, <1>5, <1>6, <1>7, <1>8, <1>9, <1>10, <1>11, CallStep DEF Functions

LEMMA UtmipllCalled ==
    ASSUME IInv, Call("utmipll")
    PROVE  IInv'
    <1>1. /\ call = "none" /\ call' = "utmipll" /\ pll["UTMIPLL"].lock # "full" /\ up' = up
          /\ UNCHANGED << pll, fractional, ufs, channels, polls, late >>
        BY DEF Call, Hardware, IsUp
    <1>2. todo' = << Power("UTMIPLL"), Divide("UTMIPLL", "UTMI"), Enable("UTMIPLL"), LockOrGoOn("UTMIPLL") >>
        BY DEF Call, ToDo, InitUtmipll
    <1>3. /\ Len(todo') = 4 /\ DOMAIN todo' = 1 .. 4
          /\ todo'[1] = Power("UTMIPLL") /\ todo'[2] = Divide("UTMIPLL", "UTMI")
          /\ todo'[3] = Enable("UTMIPLL") /\ todo'[4] = LockOrGoOn("UTMIPLL")
        BY <1>2
    <1>4. todo' \in Seq(Ops)
        BY <1>2 DEF Ops, Powers, Divisions, Enables, Awaits, Plls, DivsOf
    <1>5. \A i \in DOMAIN todo' : todo'[i].pll = "UTMIPLL"
        BY <1>3, Fields
    <1>6. EnableReady'
        <2>1. \A p \in Plls, i \in 1 .. 4 : todo'[i] = Enable(p) => i = 3 /\ p = "UTMIPLL"
            BY <1>3, Fields
        <2>2. Before(3, Power("UTMIPLL"))' /\ Before(3, Divide("UTMIPLL", "UTMI"))' /\ "UTMI" \in DivsOf("UTMIPLL")
            BY <1>3 DEF Before, DivsOf
        <2>3. \A j \in 1 .. 2 : todo'[j] # PowerDown("UTMIPLL")
            BY <1>3, Fields
        <2>. QED  BY <1>3, <2>1, <2>2, <2>3 DEF EnableReady
    <1>7. OffBefore'
        BY <1>3, Fields DEF OffBefore
    <1>8. UfsInTurn'
        BY <1>3, Fields DEF UfsInTurn
    <1>9. Promised'
        <2>1. Target("utmipll")' = {"UTMIPLL"}
            BY DEF Target
        <2>. QED  BY <1>1, <1>3, <2>1 DEF Promised, Waits
    <1>10. "UTMIPLL" \notin up \ late
        BY <1>1, UpIsGood
    <1>11. \A i \in DOMAIN todo' : todo'[i].pll \in Owned("utmipll") /\ todo'[i] # Divide("PLLREFE", "by1")
        BY <1>5, ByOne DEF Owned
    <1>. QED  BY <1>1, <1>4, <1>5, <1>6, <1>7, <1>8, <1>9, <1>10, <1>11, CallStep DEF Functions

LEMMA PlleDisabled ==
    ASSUME IInv, Call("disablePlle")
    PROVE  IInv'
    <1>1. /\ call = "none" /\ call' = "disablePlle" /\ up' = up \ {"PLLE"}
          /\ UNCHANGED << pll, fractional, ufs, channels, polls, late >>
        BY DEF Call, Hardware
    <1>2. todo' = << Disable("PLLE"), PowerDown("PLLE") >>
        BY DEF Call, ToDo, DisablePlle
    <1>3. /\ Len(todo') = 2 /\ DOMAIN todo' = 1 .. 2
          /\ todo'[1] = Disable("PLLE") /\ todo'[2] = PowerDown("PLLE")
        BY <1>2
    <1>4. todo' \in Seq(Ops)
        BY <1>2 DEF Ops, Powers, Enables, Plls
    <1>5. \A i \in DOMAIN todo' : todo'[i].pll = "PLLE"
        BY <1>3, Fields
    <1>6. EnableReady' /\ UfsInTurn'
        BY <1>3, Fields DEF EnableReady, UfsInTurn
    <1>7. OffBefore'
        <2>1. \A p \in Plls, i \in 1 .. 2 : todo'[i] = PowerDown(p) => i = 2 /\ p = "PLLE"
            BY <1>3, Fields
        <2>2. \A i \in 1 .. 2 : todo'[i] # Fractional
            BY <1>3, Fields
        <2>3. Before(2, Disable("PLLE"))' /\ ~Before(2, Enable("PLLE"))'
            BY <1>3, Fields DEF Before
        <2>. QED  BY <1>1, <1>3, <2>1, <2>2, <2>3 DEF OffBefore
    <1>8. Promised'
        <2>1. Target("disablePlle")' = {}
            BY DEF Target
        <2>. QED  BY <1>1, <2>1 DEF Promised
    <1>9. \A i \in DOMAIN todo' : todo'[i].pll \in Owned("disablePlle") /\ todo'[i] # Divide("PLLREFE", "by1")
        BY <1>5, ByOne DEF Owned
    <1>. QED  BY <1>1, <1>4, <1>5, <1>6, <1>7, <1>8, <1>9, CallStep DEF Functions

LEMMA UfsDisabled ==
    ASSUME IInv, Call("disableUfs")
    PROVE  IInv'
    <1>1. /\ call = "none" /\ call' = "disableUfs" /\ up' = up
          /\ UNCHANGED << pll, fractional, ufs, channels, polls, late >>
        BY DEF Call, Hardware
    <1>2. todo' = << Ufs("deviceClockOff"), Ufs("deviceReset") >>
        BY DEF Call, ToDo, UfsDisableDevice
    <1>3. /\ Len(todo') = 2 /\ DOMAIN todo' = 1 .. 2
          /\ todo'[1] = Ufs("deviceClockOff") /\ todo'[2] = Ufs("deviceReset")
        BY <1>2
    <1>4. todo' \in Seq(Ops)
        BY <1>2 DEF Ops, UfsWrites
    <1>5. \A i \in DOMAIN todo' : todo'[i].pll = "none"
        BY <1>3, Fields
    <1>6. EnableReady' /\ OffBefore'
        BY <1>3, Fields DEF EnableReady, OffBefore
    <1>7. UfsInTurn'
        BY <1>3, Fields DEF UfsInTurn
    <1>8. Promised'
        <2>1. Target("disableUfs")' = {}
            BY DEF Target
        <2>. QED  BY <1>1, <2>1 DEF Promised
    <1>9. \A i \in DOMAIN todo' : todo'[i].pll \in Owned("disableUfs") /\ todo'[i] # Divide("PLLREFE", "by1")
        BY <1>5, ByOne DEF Owned
    <1>10. "none" \notin up
        BY Typed DEF IInv, Lists, Plls
    <1>. QED  BY <1>1, <1>4, <1>5, <1>6, <1>7, <1>8, <1>9, <1>10, CallStep DEF Functions

\* What tegrabl_clk_start_pll does, after the PLL is powered.
LEMMA Started ==
    ASSUME NEW p \in {"PLLM", "PLLMSB"}, NEW s, s = << Power(p) >> \o StartPll(p)
    PROVE  /\ s \in Seq(Ops) /\ Len(s) = 5
           /\ s[1] = Power(p) /\ s[2] = Disable(p) /\ s[3] = Divide(p, "M") /\ s[4] = Enable(p)
           /\ s[5] = Await(p)
    <1>. DEFINE u == << Power(p) >>
                v == << Disable(p), Divide(p, "M") >>
                w == << Enable(p), Await(p) >>
    <1>1. s = u \o (v \o w)
        BY DEF StartPll, UpdateBase
    <1>2. u \in Seq(Ops) /\ v \in Seq(Ops) /\ w \in Seq(Ops)
        <2>1. Power(p) \in Ops /\ Disable(p) \in Ops /\ Enable(p) \in Ops /\ Await(p) \in Ops
            BY DEF Ops, Powers, Enables, Awaits, Plls
        <2>2. Divide(p, "M") \in Ops
            BY DEF Ops, Divisions, Plls, DivsOf
        <2>. QED  BY <2>1, <2>2
    <1>3. /\ Len(u) = 1 /\ u[1] = Power(p)
          /\ Len(v) = 2 /\ v[1] = Disable(p) /\ v[2] = Divide(p, "M")
          /\ Len(w) = 2 /\ w[1] = Enable(p) /\ w[2] = Await(p)
        OBVIOUS
    <1>. HIDE DEF u, v, w
    <1>. DEFINE x == v \o w
    <1>4. /\ x \in Seq(Ops) /\ Len(x) = 4
          /\ x[1] = v[1] /\ x[2] = v[2] /\ x[3] = w[1] /\ x[4] = w[2]
        <2>1. x \in Seq(Ops) /\ Len(x) = Len(v) + Len(w)
              /\ (\A i \in 1 .. Len(v) : x[i] = v[i]) /\ (\A i \in 1 .. Len(w) : x[Len(v) + i] = w[i])
            BY <1>2, Joined
        <2>. HIDE DEF x
        <2>2. x[2 + 1] = w[1] /\ x[2 + 2] = w[2]
            BY <1>3, <2>1
        <2>. QED  BY <1>3, <2>1, <2>2
    <1>5. s = u \o x
        BY <1>1
    <1>. HIDE DEF x
    <1>6. /\ s \in Seq(Ops) /\ Len(s) = 1 + 4
          /\ (\A i \in 1 .. 1 : s[i] = u[i]) /\ (\A i \in 1 .. 4 : s[1 + i] = x[i])
        <2>1. /\ s \in Seq(Ops) /\ Len(s) = Len(u) + Len(x)
              /\ (\A i \in 1 .. Len(u) : s[i] = u[i]) /\ (\A i \in 1 .. Len(x) : s[Len(u) + i] = x[i])
            <3>1. u \in Seq(Ops) /\ x \in Seq(Ops)
                BY <1>2, <1>4
            <3>. QED  BY ONLY <1>5, <3>1, Joined
        <2>. QED  BY <1>3, <1>4, <2>1
    <1>7. s[1 + 1] = x[1] /\ s[1 + 2] = x[2] /\ s[1 + 3] = x[3] /\ s[1 + 4] = x[4]
        BY <1>6
    <1>. QED  BY <1>3, <1>4, <1>6, <1>7

LEMMA PllmCalled ==
    ASSUME IInv, Call("pllm")
    PROVE  IInv'
    <1>1. /\ call = "none" /\ call' = "pllm" /\ ~pll["PLLM"].on /\ up' = up
          /\ UNCHANGED << pll, fractional, ufs, channels, polls, late >>
        BY DEF Call, Hardware, IsUp
    <1>. DEFINE u == IF "PLLM" \in channels THEN << Power("PLLM") >> \o StartPll("PLLM") ELSE << >>
                v == IF "PLLMSB" \in channels THEN << Power("PLLMSB") >> \o StartPll("PLLMSB") ELSE << >>
                n == Len(u)
                m == Len(v)
    <1>2. todo' = u \o v
        BY DEF Call, ToDo, InitPllm
    <1>3. /\ u \in Seq(Ops)
          /\ \/ n = 0 /\ "PLLM" \notin channels
             \/ /\ n = 5 /\ "PLLM" \in channels
                /\ u[1] = Power("PLLM") /\ u[2] = Disable("PLLM") /\ u[3] = Divide("PLLM", "M")
                /\ u[4] = Enable("PLLM") /\ u[5] = Await("PLLM")
        <2>1. CASE "PLLM" \in channels
            <3>1. u = << Power("PLLM") >> \o StartPll("PLLM")
                BY <2>1
            <3>. HIDE DEF u
            <3>. QED  BY <2>1, <3>1, Started
        <2>2. CASE "PLLM" \notin channels
            <3>1. u = << >>
                BY <2>2
            <3>. QED  BY <2>2, <3>1
        <2>. QED  BY <2>1, <2>2
    <1>4. /\ v \in Seq(Ops)
          /\ \/ Len(v) = 0 /\ "PLLMSB" \notin channels
             \/ /\ Len(v) = 5 /\ "PLLMSB" \in channels
                /\ v[1] = Power("PLLMSB") /\ v[2] = Disable("PLLMSB") /\ v[3] = Divide("PLLMSB", "M")
                /\ v[4] = Enable("PLLMSB") /\ v[5] = Await("PLLMSB")
        <2>1. CASE "PLLMSB" \in channels
            <3>1. v = << Power("PLLMSB") >> \o StartPll("PLLMSB")
                BY <2>1
            <3>. HIDE DEF v
            <3>. QED  BY <2>1, <3>1, Started
        <2>2. CASE "PLLMSB" \notin channels
            <3>1. v = << >>
                BY <2>2
            <3>. QED  BY <2>2, <3>1
        <2>. QED  BY <2>1, <2>2
    <1>. HIDE DEF u, v
    <1>5. /\ todo' \in Seq(Ops) /\ DOMAIN todo' = 1 .. n + m
          /\ (\A i \in 1 .. n : todo'[i] = u[i]) /\ (\A i \in 1 .. m : todo'[n + i] = v[i])
        BY <1>2, <1>3, <1>4, Joined
    <1>6. /\ n \in {0, 5} /\ m \in {0, 5} /\ DOMAIN todo' = 1 .. n + m
          /\ n = 5 <=> "PLLM" \in channels
          /\ m = 5 <=> "PLLMSB" \in channels
          /\ n = 5 => /\ todo'[1] = Power("PLLM") /\ todo'[2] = Disable("PLLM")
                      /\ todo'[3] = Divide("PLLM", "M") /\ todo'[4] = Enable("PLLM")
                      /\ todo'[5] = Await("PLLM")
          /\ m = 5 => /\ todo'[n + 1] = Power("PLLMSB") /\ todo'[n + 2] = Disable("PLLMSB")
                           /\ todo'[n + 3] = Divide("PLLMSB", "M") /\ todo'[n + 4] = Enable("PLLMSB")
                           /\ todo'[n + 5] = Await("PLLMSB")
        <2>1. n \in {0, 5} /\ m \in {0, 5} /\ DOMAIN todo' = 1 .. n + m
            BY <1>3, <1>4, <1>5
        <2>2. (n = 5 <=> "PLLM" \in channels) /\ (m = 5 <=> "PLLMSB" \in channels)
            <3>1. (n = 0 /\ "PLLM" \notin channels) \/ (n = 5 /\ "PLLM" \in channels)
                BY <1>3
            <3>2. (m = 0 /\ "PLLMSB" \notin channels) \/ (m = 5 /\ "PLLMSB" \in channels)
                BY <1>4
            <3>. HIDE DEF n, m
            <3>. QED  BY <3>1, <3>2
        <2>3. n = 5 => /\ todo'[1] = u[1] /\ todo'[2] = u[2] /\ todo'[3] = u[3] /\ todo'[4] = u[4]
                       /\ todo'[5] = u[5]
            BY <1>5
        <2>4. m = 5 => /\ todo'[n + 1] = v[1] /\ todo'[n + 2] = v[2] /\ todo'[n + 3] = v[3]
                       /\ todo'[n + 4] = v[4] /\ todo'[n + 5] = v[5]
            BY <1>5
        <2>. HIDE DEF n, m
        <2>5. n = 5 => /\ u[1] = Power("PLLM") /\ u[2] = Disable("PLLM") /\ u[3] = Divide("PLLM", "M")
                       /\ u[4] = Enable("PLLM") /\ u[5] = Await("PLLM")
            BY <1>3
        <2>6. m = 5 => /\ v[1] = Power("PLLMSB") /\ v[2] = Disable("PLLMSB") /\ v[3] = Divide("PLLMSB", "M")
                       /\ v[4] = Enable("PLLMSB") /\ v[5] = Await("PLLMSB")
            BY <1>4 DEF m
        <2>. QED  BY <2>1, <2>2, <2>3, <2>4, <2>5, <2>6
    <1>. HIDE DEF n, m
    <1>7. \A i \in DOMAIN todo' : \/ n = 5 /\ i \in {1, 2, 3, 4, 5}
                                  \/ m = 5 /\ i \in {n + 1, n + 2, n + 3, n + 4, n + 5}
        <2>1. n \in {0, 5} /\ m \in {0, 5} /\ DOMAIN todo' = 1 .. n + m
            BY <1>6
        <2>2. CASE n = 0
            BY ONLY <2>1, <2>2
        <2>3. CASE n = 5
            BY ONLY <2>1, <2>3
        <2>. QED  BY <2>1, <2>2, <2>3
    <1>8. \A i \in DOMAIN todo' : /\ n = 5 /\ i \in {1, 2, 3, 4, 5} => todo'[i].pll = "PLLM"
                                  /\ m = 5 /\ i \in {n + 1, n + 2, n + 3, n + 4, n + 5} =>
                                        todo'[i].pll = "PLLMSB"
        BY <1>6, Fields
    <1>9. ASSUME NEW i \in DOMAIN todo'
          PROVE  todo'[i].op \in {"power", "enable", "divide", "await"}
        <2>1. CASE n = 5 /\ i \in {1, 2, 3, 4, 5}
            BY <1>6, <2>1, Fields
        <2>2. CASE m = 5 /\ i \in {n + 1, n + 2, n + 3, n + 4, n + 5}
            BY <1>6, <2>2, Fields
        <2>. QED  BY <1>7, <2>1, <2>2
    <1>10. ASSUME NEW p \in Plls, NEW i \in DOMAIN todo'
           PROVE  /\ todo'[i] = Enable(p) => \/ n = 5 /\ i = 4 /\ p = "PLLM"
                                             \/ m = 5 /\ i = n + 4 /\ p = "PLLMSB"
                  /\ todo'[i] # PowerDown(p)
        <2>1. CASE n = 5 /\ i \in {1, 2, 3, 4, 5}
            BY <1>6, <2>1, Fields
        <2>2. CASE m = 5 /\ i \in {n + 1, n + 2, n + 3, n + 4, n + 5}
            BY <1>6, <2>2, Fields
        <2>. QED  BY <1>7, <2>1, <2>2
    <1>11. EnableReady'
        <2>. SUFFICES ASSUME NEW p \in Plls, NEW i \in DOMAIN todo', todo'[i] = Enable(p)
                      PROVE  /\ Before(i, Power(p))'
                             /\ \A j \in 1 .. i - 1 : todo'[j] # PowerDown(p)
                             /\ \E d \in DivsOf(p) : Before(i, Divide(p, d))'
            BY DEF EnableReady
        <2>1. n = 5 => Before(4, Power("PLLM"))' /\ Before(4, Divide("PLLM", "M"))'
            BY <1>6 DEF Before
        <2>2. m = 5 /\ i = n + 4 => Before(i, Power("PLLMSB"))' /\ Before(i, Divide("PLLMSB", "M"))'
            <3>1. n \in Nat /\ n + 1 \in 1 .. (n + 4) - 1 /\ n + 3 \in 1 .. (n + 4) - 1
                BY <1>6
            <3>. QED  BY <1>6, <3>1 DEF Before
        <2>3. "M" \in DivsOf("PLLM") /\ "M" \in DivsOf("PLLMSB")
            BY DEF DivsOf
        <2>4. \A k \in DOMAIN todo' : \A j \in 1 .. k - 1 : j \in DOMAIN todo'
            BY <1>6
        <2>5. \A j \in 1 .. i - 1 : todo'[j] # PowerDown(p)
            BY <1>10, <2>4
        <2>6. (n = 5 /\ i = 4 /\ p = "PLLM") \/ (m = 5 /\ i = n + 4 /\ p = "PLLMSB")
            BY <1>10
        <2>. QED  BY <2>1, <2>2, <2>3, <2>5, <2>6
    <1>12. OffBefore'
        <2>1. \A i \in DOMAIN todo' : todo'[i] # Fractional
            BY <1>9, Fields
        <2>. QED  BY <1>10, <2>1 DEF OffBefore
    <1>13. UfsInTurn'
        <2>1. \A i \in DOMAIN todo' : \A part : todo'[i] # Ufs(part)
            BY <1>9, Fields
        <2>. QED  BY <2>1 DEF UfsInTurn
    <1>14. Promised'
        <2>1. Target("pllm")' = channels /\ channels \subseteq {"PLLM", "PLLMSB"}
            BY <1>1, Typed DEF Target, IInv, Lists
        <2>2. "PLLM" \in channels => /\ 5 \in DOMAIN todo' /\ todo'[5] \in Waits("PLLM")
                                     /\ \A k \in DOMAIN todo' : k > 5 => todo'[k].pll # "PLLM"
            <3>1. \A k \in DOMAIN todo' : k > 5 => k \notin {1, 2, 3, 4, 5}
                OBVIOUS
            <3>2. \A k \in DOMAIN todo' : k > 5 => todo'[k].pll = "PLLMSB"
                BY <1>7, <1>8, <3>1
            <3>3. "PLLM" \in channels => 5 \in DOMAIN todo' /\ todo'[5] = Await("PLLM")
                BY <1>6
            <3>. QED  BY <3>2, <3>3 DEF Waits
        <2>3. "PLLMSB" \in channels => /\ n + 5 \in DOMAIN todo' /\ todo'[n + 5] \in Waits("PLLMSB")
                                       /\ \A k \in DOMAIN todo' : k > n + 5 => todo'[k].pll # "PLLMSB"
            <3>1. m = 5 => n + 5 \in DOMAIN todo' /\ \A k \in DOMAIN todo' : ~(k > n + 5)
                BY <1>6
            <3>. QED  BY <1>6, <3>1 DEF Waits
        <2>. QED  BY <1>1, <2>1, <2>2, <2>3 DEF Promised, Waits
    <1>15. \A i \in DOMAIN todo' : todo'[i].pll \in Owned("pllm") /\ todo'[i] # Divide("PLLREFE", "by1")
        BY <1>7, <1>8, ByOne DEF Owned
    <1>16. \A p \in up' \ late : \A j \in DOMAIN todo' : todo'[j].pll = p => Reprogrammed(p)'
        <2>1. "PLLM" \notin up \ late
            BY <1>1, UpIsGood
        <2>2. late \subseteq {"PLLAON", "UTMIPLL", "PLLREFE"} /\ ("PLLMSB" \in up => channels \subseteq up)
            BY DEF IInv, UpKept
        <2>3. "PLLMSB" \in up => "PLLM" \notin channels
            BY <2>1, <2>2
        <2>4. "PLLMSB" \in up => Reprogrammed("PLLMSB")'
            BY <1>1, <2>3 DEF Reprogrammed
        <2>. QED  BY <1>1, <1>7, <1>8, <2>1, <2>4
    <1>. QED  BY <1>1, <1>5, <1>11, <1>12, <1>13, <1>14, <1>15, <1>16, CallStep DEF Functions

LEMMA UfsCalled ==
    ASSUME IInv, Call("ufs")
    PROVE  IInv'
    <1>1. /\ call = "none" /\ call' = "ufs" /\ up' = up
          /\ UNCHANGED << pll, fractional, ufs, channels, polls, late >>
        BY DEF Call, Hardware
    <1>. DEFINE u == IF pll["UTMIPLL"].lock = "full" THEN << >> ELSE InitUtmipll
                v == << Power("PLLREFE"), Divide("PLLREFE", "by2"), Enable("PLLREFE"), LockOrGoOn("PLLREFE"),
                        Ufs("clocks"), Ufs("outOfReset"), Ufs("deviceClock"), Ufs("deviceOutOfReset") >>
                n == Len(u)
    <1>2. todo' = u \o v
        BY DEF Call, ToDo, UfsClockInit, UfsUtmipll
    <1>3. /\ u \in Seq(Ops)
          /\ \/ n = 0 /\ pll["UTMIPLL"].lock = "full"
             \/ /\ n = 4 /\ pll["UTMIPLL"].lock # "full"
                /\ u[1] = Power("UTMIPLL") /\ u[2] = Divide("UTMIPLL", "UTMI")
                /\ u[3] = Enable("UTMIPLL") /\ u[4] = LockOrGoOn("UTMIPLL")
        <2>1. {Power("UTMIPLL"), Divide("UTMIPLL", "UTMI"), Enable("UTMIPLL"), LockOrGoOn("UTMIPLL")} \subseteq Ops
            BY DEF Ops, Powers, Divisions, Enables, Awaits, Plls, DivsOf
        <2>2. CASE pll["UTMIPLL"].lock = "full"
            BY <2>2
        <2>3. CASE pll["UTMIPLL"].lock # "full"
            <3>1. u = << Power("UTMIPLL"), Divide("UTMIPLL", "UTMI"), Enable("UTMIPLL"), LockOrGoOn("UTMIPLL") >>
                BY <2>3 DEF InitUtmipll
            <3>. HIDE DEF u
            <3>. QED  BY <2>1, <2>3, <3>1
        <2>. QED  BY <2>2, <2>3
    <1>4. /\ v \in Seq(Ops) /\ Len(v) = 8
          /\ v[1] = Power("PLLREFE") /\ v[2] = Divide("PLLREFE", "by2")
          /\ v[3] = Enable("PLLREFE") /\ v[4] = LockOrGoOn("PLLREFE")
          /\ v[5] = Ufs("clocks") /\ v[6] = Ufs("outOfReset")
          /\ v[7] = Ufs("deviceClock") /\ v[8] = Ufs("deviceOutOfReset")
        <2>1. {Power("PLLREFE"), Divide("PLLREFE", "by2"), Enable("PLLREFE"), LockOrGoOn("PLLREFE")} \subseteq Ops
            BY DEF Ops, Powers, Divisions, Enables, Awaits, Plls, DivsOf
        <2>2. {Ufs("clocks"), Ufs("outOfReset"), Ufs("deviceClock"), Ufs("deviceOutOfReset")} \subseteq Ops
            BY DEF Ops, UfsWrites, UfsParts
        <2>. QED  BY <2>1, <2>2
    <1>. HIDE DEF u, v
    <1>5. /\ todo' \in Seq(Ops) /\ DOMAIN todo' = 1 .. n + Len(v)
          /\ (\A i \in 1 .. n : todo'[i] = u[i]) /\ (\A i \in 1 .. Len(v) : todo'[n + i] = v[i])
        <2>1. u \in Seq(Ops) /\ v \in Seq(Ops)
            BY <1>3, <1>4
        <2>. HIDE DEF n
        <2>. QED  BY <1>2, <2>1, Joined DEF n
    <1>6. /\ n \in {0, 4} /\ DOMAIN todo' = 1 .. n + 8
          /\ n = 4 <=> pll["UTMIPLL"].lock # "full"
          /\ n = 4 => /\ todo'[1] = Power("UTMIPLL") /\ todo'[2] = Divide("UTMIPLL", "UTMI")
                      /\ todo'[3] = Enable("UTMIPLL") /\ todo'[4] = LockOrGoOn("UTMIPLL")
          /\ todo'[n + 1] = Power("PLLREFE") /\ todo'[n + 2] = Divide("PLLREFE", "by2")
          /\ todo'[n + 3] = Enable("PLLREFE") /\ todo'[n + 4] = LockOrGoOn("PLLREFE")
          /\ todo'[n + 5] = Ufs("clocks") /\ todo'[n + 6] = Ufs("outOfReset")
          /\ todo'[n + 7] = Ufs("deviceClock") /\ todo'[n + 8] = Ufs("deviceOutOfReset")
        <2>1. n \in {0, 4} /\ DOMAIN todo' = 1 .. n + 8 /\ \A i \in 1 .. 8 : todo'[n + i] = v[i]
            BY <1>3, <1>4, <1>5
        <2>2. n = 4 => /\ todo'[1] = u[1] /\ todo'[2] = u[2] /\ todo'[3] = u[3] /\ todo'[4] = u[4]
            BY <1>5
        <2>3. /\ todo'[n + 1] = v[1] /\ todo'[n + 2] = v[2] /\ todo'[n + 3] = v[3] /\ todo'[n + 4] = v[4]
              /\ todo'[n + 5] = v[5] /\ todo'[n + 6] = v[6] /\ todo'[n + 7] = v[7] /\ todo'[n + 8] = v[8]
            BY <2>1
        <2>4. (n = 0 /\ pll["UTMIPLL"].lock = "full") \/ (n = 4 /\ pll["UTMIPLL"].lock # "full")
            BY <1>3
        <2>5. n = 4 => /\ u[1] = Power("UTMIPLL") /\ u[2] = Divide("UTMIPLL", "UTMI")
                       /\ u[3] = Enable("UTMIPLL") /\ u[4] = LockOrGoOn("UTMIPLL")
            BY <1>3
        <2>. HIDE DEF n
        <2>6. n = 4 <=> pll["UTMIPLL"].lock # "full"
            BY <2>4
        <2>7. n = 4 => /\ todo'[1] = Power("UTMIPLL") /\ todo'[2] = Divide("UTMIPLL", "UTMI")
                       /\ todo'[3] = Enable("UTMIPLL") /\ todo'[4] = LockOrGoOn("UTMIPLL")
            BY <2>2, <2>5
        <2>. QED  BY <1>4, <2>1, <2>3, <2>6, <2>7
    <1>. HIDE DEF n
    <1>7a. \A i \in DOMAIN todo' : \/ n = 4 /\ i \in {1, 2, 3, 4}
                                   \/ i \in {n + 1, n + 2, n + 3, n + 4}
                                   \/ i \in {n + 5, n + 6, n + 7, n + 8}
        BY <1>6
    <1>7. \A i \in DOMAIN todo' : \/ n = 4 /\ i \in {1, 2, 3, 4} /\ todo'[i].pll = "UTMIPLL"
                                  \/ i \in {n + 1, n + 2, n + 3, n + 4} /\ todo'[i].pll = "PLLREFE"
                                  \/ i \in {n + 5, n + 6, n + 7, n + 8} /\ todo'[i].pll = "none"
        BY <1>6, <1>7a, Fields
    <1>8. ASSUME NEW p \in Plls, NEW i \in DOMAIN todo'
          PROVE  /\ todo'[i] = Enable(p) => \/ n = 4 /\ i = 3 /\ p = "UTMIPLL"
                                            \/ i = n + 3 /\ p = "PLLREFE"
                 /\ todo'[i] # PowerDown(p) /\ todo'[i] # Fractional
        <2>1. CASE n = 4 /\ i \in {1, 2, 3, 4}
            BY <1>6, <2>1, Fields
        <2>2. CASE i \in {n + 1, n + 2, n + 3, n + 4}
            BY <1>6, <2>2, Fields
        <2>3. CASE i \in {n + 5, n + 6, n + 7, n + 8}
            BY <1>6, <2>3, Fields
        <2>. QED  BY <1>7a, <2>1, <2>2, <2>3
    <1>9. EnableReady'
        <2>. SUFFICES ASSUME NEW p \in Plls, NEW i \in DOMAIN todo', todo'[i] = Enable(p)
                      PROVE  /\ Before(i, Power(p))'
                             /\ \A j \in 1 .. i - 1 : todo'[j] # PowerDown(p)
                             /\ \E d \in DivsOf(p) : Before(i, Divide(p, d))'
            BY DEF EnableReady
        <2>1. n = 4 => Before(3, Power("UTMIPLL"))' /\ Before(3, Divide("UTMIPLL", "UTMI"))'
            BY <1>6 DEF Before
        <2>2. i = n + 3 => Before(i, Power("PLLREFE"))' /\ Before(i, Divide("PLLREFE", "by2"))'
            <3>1. n \in Nat /\ n + 1 \in 1 .. (n + 3) - 1 /\ n + 2 \in 1 .. (n + 3) - 1
                BY <1>6
            <3>. QED  BY <1>6, <3>1 DEF Before
        <2>3. "UTMI" \in DivsOf("UTMIPLL") /\ "by2" \in DivsOf("PLLREFE")
            BY DEF DivsOf
        <2>4. \A k \in DOMAIN todo' : \A j \in 1 .. k - 1 : j \in DOMAIN todo'
            BY <1>6
        <2>5. \A j \in 1 .. i - 1 : todo'[j] # PowerDown(p)
            BY <1>8, <2>4
        <2>6. (n = 4 /\ i = 3 /\ p = "UTMIPLL") \/ (i = n + 3 /\ p = "PLLREFE")
            BY <1>8
        <2>. QED  BY <2>1, <2>2, <2>3, <2>5, <2>6
    <1>10. OffBefore'
        BY <1>8 DEF OffBefore
    <1>11. UfsInTurn'
        <2>1. ASSUME NEW i \in DOMAIN todo'
              PROVE  /\ todo'[i] = Ufs("clocks") => i = n + 5
                     /\ todo'[i] = Ufs("outOfReset") => i = n + 6
                     /\ todo'[i] = Ufs("deviceOutOfReset") => i = n + 8
                     /\ todo'[i] # Ufs("deviceClockOff")
            <3>1. \A part : todo'[i] = Ufs(part) => i \in {n + 5, n + 6, n + 7, n + 8}
                BY <1>7, Fields
            <3>2. CASE i \in {n + 5, n + 6, n + 7, n + 8}
                BY <1>6, <3>2, Fields
            <3>. QED  BY <3>1, <3>2
        <2>2. \E j \in 1 .. (n + 5) - 1 : /\ todo'[j] = LockOrGoOn("PLLREFE")
                                          /\ \A k \in j + 1 .. (n + 5) - 1 : todo'[k].pll # "PLLREFE"
            BY <1>6
        <2>3. ASSUME NEW i \in DOMAIN todo'
              PROVE  /\ i = n + 6 => Before(i, Ufs("clocks"))'
                     /\ i = n + 8 => Before(i, Ufs("outOfReset"))' /\ Before(i, Ufs("deviceClock"))'
                     /\ i = n + 8 => ~Before(i, Ufs("deviceClockOff"))'
            <3>1. n + 5 \in 1 .. (n + 6) - 1 /\ n + 6 \in 1 .. (n + 8) - 1 /\ n + 7 \in 1 .. (n + 8) - 1
                BY <1>6
            <3>2. \A j \in 1 .. (n + 8) - 1 : j \in DOMAIN todo'
                BY <1>6
            <3>3. \A j \in 1 .. (n + 8) - 1 : todo'[j] # Ufs("deviceClockOff")
                BY <2>1, <3>2
            <3>4. i = n + 6 => Before(i, Ufs("clocks"))'
                BY <1>6, <3>1 DEF Before
            <3>5. i = n + 8 => Before(i, Ufs("outOfReset"))' /\ Before(i, Ufs("deviceClock"))'
                BY <1>6, <3>1 DEF Before
            <3>6. i = n + 8 => ~Before(i, Ufs("deviceClockOff"))'
                BY <3>3 DEF Before
            <3>. QED  BY <3>4, <3>5, <3>6
        <2>. SUFFICES ASSUME NEW i \in DOMAIN todo'
                      PROVE  /\ todo'[i] = Ufs("clocks") =>
                                   \E j \in 1 .. i - 1 : /\ todo'[j] = LockOrGoOn("PLLREFE")
                                                         /\ \A k \in j + 1 .. i - 1 : todo'[k].pll # "PLLREFE"
                             /\ todo'[i] = Ufs("outOfReset") => Before(i, Ufs("clocks"))'
                             /\ todo'[i] = Ufs("deviceOutOfReset") =>
                                   /\ Before(i, Ufs("outOfReset"))' /\ Before(i, Ufs("deviceClock"))'
                                   /\ ~Before(i, Ufs("deviceClockOff"))'
            BY DEF UfsInTurn
        <2>. QED  BY <2>1, <2>2, <2>3
    <1>12. Promised'
        <2>1. Target("ufs")' = {"UTMIPLL", "PLLREFE"}
            BY DEF Target
        <2>2. /\ n + 4 \in DOMAIN todo' /\ todo'[n + 4] \in Waits("PLLREFE")
              /\ \A k \in DOMAIN todo' : k > n + 4 => todo'[k].pll # "PLLREFE"
            <3>1. n + 4 \in DOMAIN todo'
                BY <1>6
            <3>2. \A k \in DOMAIN todo' : k > n + 4 => /\ k \notin {n + 1, n + 2, n + 3, n + 4}
                                                     /\ k \notin {1, 2, 3, 4}
                BY <1>6
            <3>3. \A k \in DOMAIN todo' : k > n + 4 => todo'[k].pll = "none"
                BY <1>7, <3>2
            <3>4. todo'[n + 4] = LockOrGoOn("PLLREFE")
                BY <1>6
            <3>. QED  BY <3>1, <3>3, <3>4 DEF Waits
        <2>3. n = 4 => /\ 4 \in DOMAIN todo' /\ todo'[4] \in Waits("UTMIPLL")
                       /\ \A k \in DOMAIN todo' : k > 4 => todo'[k].pll # "UTMIPLL"
            <3>1. \A k \in DOMAIN todo' : k > 4 => k \notin {1, 2, 3, 4}
                OBVIOUS
            <3>2. \A k \in DOMAIN todo' : k > 4 => todo'[k].pll \in {"PLLREFE", "none"}
                BY <1>7, <3>1
            <3>3. n = 4 => 4 \in DOMAIN todo' /\ todo'[4] = LockOrGoOn("UTMIPLL")
                BY <1>6
            <3>. QED  BY <3>2, <3>3 DEF Waits
        <2>4. n = 0 => Good("UTMIPLL")' /\ \A k \in DOMAIN todo' : todo'[k].pll # "UTMIPLL"
            <3>1. pll["UTMIPLL"].lock = "full" => Good("UTMIPLL")
                BY DEF IInv, PllState, Good, Plls
            <3>2. Good("UTMIPLL") => Good("UTMIPLL")'
                BY <1>1 DEF Good
            <3>3. n = 0 => pll["UTMIPLL"].lock = "full"
                BY <1>6
            <3>. QED  BY <1>7, <3>1, <3>2, <3>3
        <2>5. n \in {0, 4}
            BY <1>6
        <2>6. ASSUME NEW p \in {"UTMIPLL", "PLLREFE"}
              PROVE  \/ Good(p)' /\ \A j \in DOMAIN todo' : todo'[j].pll # p
                     \/ \E j \in DOMAIN todo' : /\ todo'[j] \in Waits(p)
                                                /\ \A k \in DOMAIN todo' : k > j => todo'[k].pll # p
            <3>1. CASE p = "PLLREFE"
                BY <2>2, <3>1
            <3>2. CASE p = "UTMIPLL"
                BY <2>3, <2>4, <2>5, <3>2
            <3>. QED  BY <3>1, <3>2
        <2>. QED  BY <1>1, <2>1, <2>6 DEF Promised, Waits
    <1>13. \A i \in DOMAIN todo' : todo'[i].pll \in Owned("ufs") /\ todo'[i] # Divide("PLLREFE", "by1")
        <2>1. \A i \in DOMAIN todo' : todo'[i].pll \in Owned("ufs")
            BY <1>7 DEF Owned
        <2>2. Divide("PLLREFE", "by2") # Divide("PLLREFE", "by1")
            BY DEF Divide, Op
        <2>3. ASSUME NEW i \in DOMAIN todo', todo'[i].op = "divide", todo'[i].pll = "PLLREFE"
              PROVE  i = n + 2
            <3>1. i \in {n + 1, n + 2, n + 3, n + 4}
                BY <1>7, <2>3
            <3>. QED  BY <1>6, <2>3, <3>1, Fields
        <2>. QED  BY <1>6, <2>1, <2>2, <2>3, ByOne
    <1>14. \A p \in up' \ late : \A j \in DOMAIN todo' : todo'[j].pll = p => Reprogrammed(p)'
        <2>1. n = 4 => "UTMIPLL" \notin up \ late
            BY <1>1, <1>6, UpIsGood
        <2>2. Reprogrammed("PLLREFE")'
            BY <1>1 DEF Reprogrammed
        <2>3. "none" \notin up
            BY Typed DEF IInv, Lists, Plls
        <2>. QED  BY <1>1, <1>7, <2>1, <2>2, <2>3
    <1>. QED  BY <1>1, <1>5, <1>9, <1>10, <1>11, <1>12, <1>13, <1>14, CallStep DEF Functions

LEMMA CallPreserves ==
    ASSUME IInv, NEW f \in Functions, Call(f)
    PROVE  IInv'
    BY Pllc4Called, PllaonCalled, PlleCalled, UtmipllCalled, PlleDisabled, UfsDisabled, PllmCalled,
       UfsCalled DEF Functions

---------------------------------------------------------------------------
(* The invariant and what follows from it.                                 *)

LEMMA Initially ==
    ASSUME Init
    PROVE  IInv
    <1>1. /\ fractional = FALSE /\ ufs = {} /\ channels \in ChannelChoices /\ call = "none" /\ todo = << >>
          /\ polls = Polls /\ result = "none" /\ up = {} /\ late = {} /\ calls = 0
        BY DEF Init
    <1>2. PICK booted \in SUBSET {"UTMIPLL"} :
              pll = [p \in Plls |->
                       IF p \in booted THEN [on |-> TRUE, power |-> TRUE, div |-> "UTMI", lock |-> "full"]
                       ELSE [on |-> FALSE, power |-> FALSE, div |-> "blank", lock |-> "none"]]
        BY DEF Init
    <1>3. pll \in [Plls -> Registers]
        BY <1>2 DEF Registers
    <1>4. TypeOK
        <2>1. polls \in 0 .. Polls /\ calls \in 0 .. MaxCalls
            BY <1>1, BoundsAssumption
        <2>. QED  BY <1>1, <1>3, <2>1 DEF TypeOK, Registers
    <1>5. DOMAIN todo = {} /\ todo \in Seq(Ops)
        BY <1>1
    <1>6. Lists
        BY <1>4, <1>5 DEF Lists
    <1>7. \A p \in Plls : \/ ~pll[p].on /\ pll[p].lock = "none" /\ pll[p].div = "blank"
                          \/ p = "UTMIPLL" /\ pll[p].on /\ pll[p].power /\ pll[p].div = "UTMI"
        BY <1>2
    <1>8. PllState
        <2>1. "UTMI" \in DivsOf("UTMIPLL") /\ "PLLAON" \in Plls
            BY DEF DivsOf, Plls
        <2>. QED  BY <1>1, <1>7, <2>1 DEF PllState
    <1>9. EnableReady /\ OffBefore /\ UfsInTurn
        BY <1>5 DEF EnableReady, OffBefore, UfsInTurn
    <1>10. Promised
        BY <1>1 DEF Promised
    <1>11. Settled
        BY <1>7 DEF Settled, Plls
    <1>12. UpKept
        BY <1>1 DEF UpKept
    <1>. QED  BY <1>6, <1>8, <1>9, <1>10, <1>11, <1>12 DEF IInv

\* Every step, by kind.
LEMMA Steps ==
    ASSUME [Next]_vars
    PROVE  \/ Going
           \/ PollAgain \/ UNCHANGED vars
           \/ LockFailed \/ ReturnOk
           \/ \E f \in Functions : Call(f) \/ AlreadyUp(f)
           \/ \E r \in {"ok", "NOT_SUPPORTED", "BAD_PARAMETER"} : CallWithoutWork(r)
           \/ \E p \in Plls : Locks(p)
    BY DEF Next, CpuStep, Going

LEMMA Preserved ==
    ASSUME IInv, [Next]_vars
    PROVE  IInv'
    BY Steps, GoingStep, PollStep, LockFailedStep, ReturnOkStep, CallPreserves, AlreadyUpStep,
       CallWithoutWorkStep, LocksStep

\* The inductive invariant holds of every behaviour, with or without fairness.
THEOREM Invariance == Spec => []IInv
    <1>1. Init => IInv
        BY Initially
    <1>2. IInv /\ [Next]_vars => IInv'
        BY Preserved
    <1>. QED  BY <1>1, <1>2, PTL DEF Spec

\* Whatever functions are called, in whatever order and however often, a PLL that
\* one of them has reported up is locked and stays so until it is switched off:
\* tegrabl_car_init_pll_with_rate, tegrabl_ufs_clock_init and the functions of
\* tegrabl_clk_soc_priv.c do not disturb each other's PLLs, but for those that
\* Reprogrammed names and those whose polls ran out.
THEOREM ReportedStaysUp == Spec => []StaysUp
    <1>1. IInv => StaysUp
        <2>. SUFFICES ASSUME IInv, NEW p \in up \ late, ~Reprogrammed(p)
                      PROVE  /\ pll[p].on /\ pll[p].power /\ pll[p].lock = "full"
                             /\ p = "PLLAON" => ~fractional
            BY DEF IInv, Lists, StaysUp
        <2>1. Good(p)
            BY DEF IInv, UpKept
        <2>. QED  BY <2>1 DEF Good, IInv, PllState
    <1>. QED  BY <1>1, Invariance, PTL

\* What EnabledInOrder asks of a step.
InOrder ==
    /\ \A p \in Plls :
          /\ ~pll[p].on /\ pll'[p].on => pll[p].power /\ pll[p].div # "blank"
          /\ pll[p].on /\ pll'[p].on /\ p # "PLLREFE" =>
                 pll'[p].power = pll[p].power /\ pll'[p].div = pll[p].div
    /\ "clocks" \in ufs' \ ufs => pll["PLLREFE"].lock = "full" \/ "PLLREFE" \in late
    /\ "outOfReset" \in ufs' \ ufs => "clocks" \in ufs
    /\ "deviceOutOfReset" \in ufs' \ ufs => {"deviceClock", "outOfReset"} \subseteq ufs

LEMMA GoingInOrder ==
    ASSUME IInv, Going
    PROVE  InOrder
    <1>1. Effect(todo[1]) /\ 1 \in DOMAIN todo /\ todo[1] \in Ops
        BY Move
    <1>2. TypeOK /\ PllState /\ EnableReady /\ OffBefore /\ UfsInTurn
        BY DEF IInv, Lists
    <1>3. \A o : ~Before(1, o)
        BY DEF Before
    <1>4. ASSUME NEW p \in Plls
          PROVE  /\ ~pll[p].on /\ pll'[p].on => pll[p].power /\ pll[p].div # "blank"
                 /\ pll[p].on /\ pll'[p].on /\ p # "PLLREFE" =>
                        pll'[p].power = pll[p].power /\ pll'[p].div = pll[p].div
        <2>1. /\ pll'[p].power <=> todo[1] = Power(p) \/ (pll[p].power /\ todo[1] # PowerDown(p))
              /\ pll'[p].on <=> todo[1] = Enable(p) \/ (pll[p].on /\ todo[1] # Disable(p))
              /\ pll'[p].div = IF todo[1].op = "divide" /\ todo[1].pll = p THEN todo[1].arg ELSE pll[p].div
            BY <1>1 DEF Effect
        <2>2. /\ todo[1] = Enable(p) => pll[p].power /\ pll[p].div # "blank"
              /\ todo[1] = PowerDown(p) => ~pll[p].on
            BY <1>1, <1>2, <1>3 DEF EnableReady, OffBefore
        <2>3. pll[p].on => pll[p].power /\ pll[p].div \in DivsOf(p)
            BY <1>2 DEF PllState
        <2>4. pll[p].power \in BOOLEAN /\ pll'[p].power \in BOOLEAN
            <3>1. pll[p] \in Registers /\ pll'[p] \in Registers
                BY <1>1, <1>2, Typed DEF Effect
            <3>. QED  BY <3>1 DEF Registers
        <2>5. todo[1].op = "divide" /\ todo[1].pll = p => todo[1].arg \in DivsOf(p)
            BY <1>1, OpCases, Fields
        <2>6. p # "PLLREFE" => \A d, e \in DivsOf(p) : d = e
            BY DEF DivsOf, Plls
        <2>7. pll[p].on /\ pll'[p].on /\ p # "PLLREFE" => pll'[p].div = pll[p].div
            BY <2>1, <2>3, <2>5, <2>6
        <2>8. pll[p].on => pll'[p].power = pll[p].power
            BY <2>1, <2>2, <2>3, <2>4
        <2>. QED  BY <2>1, <2>2, <2>7, <2>8
    <1>5. \A part : part \in ufs' \ ufs => todo[1] = Ufs(part)
        BY <1>1 DEF Effect
    <1>6. "clocks" \in ufs' \ ufs => pll["PLLREFE"].lock = "full" \/ "PLLREFE" \in late
        BY <1>1, <1>2, <1>5 DEF UfsInTurn
    <1>7. "outOfReset" \in ufs' \ ufs => "clocks" \in ufs
        BY <1>1, <1>2, <1>3, <1>5 DEF UfsInTurn
    <1>8. "deviceOutOfReset" \in ufs' \ ufs => {"deviceClock", "outOfReset"} \subseteq ufs
        BY <1>1, <1>2, <1>3, <1>5 DEF UfsInTurn
    <1>. QED  BY <1>4, <1>6, <1>7, <1>8 DEF InOrder

\* However the functions are repeated, and whichever of them failed, a PLL is
\* enabled only with its power and dividers set, neither changes while it is
\* enabled, and the clocks and resets of UFS follow in their order.
THEOREM AlwaysInOrder == Spec => EnabledInOrder
    <1>1. IInv /\ [Next]_vars => InOrder \/ UNCHANGED vars
        <2>. SUFFICES ASSUME IInv, [Next]_vars
                      PROVE  InOrder \/ UNCHANGED vars
            OBVIOUS
        <2>1. CASE Going
            BY <2>1, GoingInOrder
        <2>2. CASE PollAgain \/ LockFailed \/ ReturnOk
            BY <2>2 DEF PollAgain, LockFailed, ReturnOk, Hardware, InOrder
        <2>3. ASSUME NEW f \in Functions, Call(f) \/ AlreadyUp(f)
              PROVE  InOrder
            BY <2>3 DEF Call, AlreadyUp, Hardware, InOrder
        <2>4. ASSUME NEW r \in {"ok", "NOT_SUPPORTED", "BAD_PARAMETER"}, CallWithoutWork(r)
              PROVE  InOrder
            BY <2>4 DEF CallWithoutWork, Hardware, InOrder
        <2>5. ASSUME NEW q \in Plls, Locks(q)
              PROVE  InOrder
            BY <2>5, LocksFacts DEF InOrder
        <2>. QED  BY <2>1, <2>2, <2>3, <2>4, <2>5, Steps
    <1>. QED  BY <1>1, Invariance, PTL DEF Spec, EnabledInOrder, InOrder
===============================================================================
