-------------------------- MODULE ClockStateProofs --------------------------
(***************************************************************************)
(* What holds of the clock and reset driver for every rate of its sources, *)
(* every width of the divider field, every set of modules driven and any   *)
(* number of calls and of stages of the boot.                              *)
(***************************************************************************)
EXTENDS ClockState, SequenceTheorems, TLAPS

(* The parts of the inductive invariant.                                   *)

\* Every source the driver remembers runs, not only those of clocks with a rate.
SourcesRun ==
    /\ "PLLP" \in running
    /\ \A m \in Sourced : clk_src[m] = "CLK_M" \/ PllOf[clk_src[m]] \in running

\* A clock with a rate is not gated, when its bit is the one the driver sets.
Ungated ==
    \A m \in Sourced : clk_rate[m] # 0 /\ Table[m].bit = 0 => ClockBit(m) \in enb

\* The index remembered is that of the source remembered.
IndexOfSource == \A m \in Sourced : clk_src_idx[m] = get_src_idx(m, clk_src[m])

\* The input selected for a clock with a rate toggles.  For QSPI it need not be the
\* source remembered.
Fed == \A m \in Sourced : clk_rate[m] # 0 /\ OwnSource(m) => Toggles(Selected(m))

\* The registers of a clock with a rate hold its index, and its divider as far as
\* the field reaches.
Programmed ==
    \A m \in Sourced \ {"QSPI"} :
        clk_rate[m] # 0 =>
            /\ mux[m] = clk_src_idx[m] % 8
            /\ \E d \in Nat :
                  /\ divisor[m] = d % DivValues
                  /\ clk_rate[m] = Divided(SourceRate[clk_src[m]], d, Table[m].div)

\* A module thought to be on is out of reset.
OutOfReset == \A m \in WithReset : ON[m] => ResetBit(m) \notin rst

\* A rate is what some divider makes of the source.
RateDivided ==
    \A m \in Sourced : \E d \in Nat :
        clk_rate[m] # 0 => clk_rate[m] = Divided(SourceRate[clk_src[m]], d, Table[m].div)

\* A clock is resumed at the rate it was left at, one that a divider gave.
LeftKept ==
    \A m \in Sourced :
        left[m] # 0 =>
            /\ resume_rate[m] = left[m]
            /\ \E d \in Nat : left[m] = Divided(SourceRate[clk_src[m]], d, Table[m].div)

\* Enabling a clock ends the time it was left.
EnabledNotLeft == last.op = "enable" => last.module \in Sourced /\ left[last.module] = 0

IInv ==
    /\ TypeOK
    /\ CanResume
    /\ SourcesRun
    /\ Ungated
    /\ IndexOfSource
    /\ Fed
    /\ Programmed
    /\ OutOfReset
    /\ RateDivided
    /\ LeftKept
    /\ EnabledNotLeft

---------------------------------------------------------------------------
(* The table.                                                              *)

\* The rows of the modules that have a source.
LEMMA SourcedRow ==
    ASSUME NEW m \in Sourced
    PROVE  /\ m \in DOMAIN Table
           /\ Table[m].src = "PLLP_OUT0"
           /\ Table[m].rate \in Nat \ {0}
           /\ Table[m].div \in {"FRACTIONAL", "REGULAR"}
           /\ Table[m].enbReg # None
BY DEF Sourced, Table, Row, CLK_RST_ARRAY, CLK_RST_ARRAY_ALLOW_SWITCH,
       CLK_RST_NO_RST_ARRAY_ALLOW_SWITCH, None

\* A source may be switched only where there is one.
LEMMA SwitchedIsSourced ==
    ASSUME NEW m \in DOMAIN Table, Table[m].switch
    PROVE  m \in Sourced
BY DEF Sourced, Table, Row, CLK_RST_ARRAY, CLK_RST_ARRAY_ALLOW_SWITCH,
       CLK_RST_NO_RST_ARRAY_ALLOW_SWITCH, CLK_RST_NO_SRC_ARRAY, CLK_RST_NO_CLK_ARRAY,
       CLK_RST_NO_SRC_NO_RST_ARRAY, None

\* The first source of every multiplexer is PLLP.
LEMMA FirstSource ==
    ASSUME NEW m \in Sourced
    PROVE  Table[m].mux[1] = "PLLP_OUT0"
BY DEF Sourced, Table, Row, CLK_RST_ARRAY, CLK_RST_ARRAY_ALLOW_SWITCH,
       CLK_RST_NO_RST_ARRAY_ALLOW_SWITCH, None, sdmmc, qspi, sata, i2c, fixed

\* No two modules share an enable bit, nor a reset bit.
LEMMA BitsApart ==
    /\ \A m, n \in DOMAIN Table :
          m # n /\ Table[m].enbReg # None => ClockBit(m) # ClockBit(n)
    /\ \A m, n \in WithReset : m # n => ResetBit(m) # ResetBit(n)
BY DEF WithReset, Table, Row, CLK_RST_ARRAY, CLK_RST_ARRAY_ALLOW_SWITCH,
       CLK_RST_NO_RST_ARRAY_ALLOW_SWITCH, CLK_RST_NO_SRC_ARRAY, CLK_RST_NO_CLK_ARRAY,
       CLK_RST_NO_SRC_NO_RST_ARRAY, None, ClockBit, ResetBit

\* The search for a source finds its first place among the seven sources kept, and
\* for the eighth an index that is shifted into its place too.
LEMMA IndexFacts ==
    ASSUME NEW m \in Sourced, NEW s
    PROVE  /\ get_src_idx(m, s) \in -1 .. 6
           /\ (\E i \in 1 .. 8 : Table[m].mux[i] = s)
                 => Table[m].mux[(get_src_idx(m, s) % 8) + 1] = s
           /\ s = "PLLP_OUT0" => get_src_idx(m, s) = 0
<1> DEFINE eight == Table[m].mux
           list == SRC_ID_LIST(eight)
           Place(i) == list[i] = s /\ \A j \in 1 .. i - 1 : list[j] # s
<1>1. Len(list) = 7 /\ \A i \in 1 .. 7 : list[i] = eight[i]
  <2> DEFINE S == {eight[i] : i \in 1 .. 7}
  <2>1. \A i \in 1 .. 7 : eight[i] \in S
    OBVIOUS
  <2> HIDE DEF S
  <2> QED
    BY <2>1, SubSeqProperties DEF SRC_ID_LIST
<1>2. eight[1] = "PLLP_OUT0"
  BY FirstSource
<1>3. get_src_idx(m, s) = IF \E i \in 1 .. 7 : list[i] = s
                          THEN (CHOOSE i \in 1 .. 7 : Place(i)) - 1
                          ELSE -1
  BY <1>1 DEF get_src_idx
<1> HIDE DEF eight, list
<1>4. CASE \E i \in 1 .. 7 : list[i] = s
  <2>1. \E i \in 1 .. 7 : Place(i)
    <3>1. 1 .. 7 = {1, 2, 3, 4, 5, 6, 7}
      OBVIOUS
    <3> QED
      BY <1>4, <3>1
  <2>2. PICK p \in 1 .. 7 : Place(p) /\ get_src_idx(m, s) = p - 1
    BY <1>3, <1>4, <2>1
  <2>3. ((p - 1) % 8) + 1 = p
    OBVIOUS
  <2> QED
    BY <1>1, <1>2, <2>2, <2>3 DEF eight
<1>5. CASE ~ \E i \in 1 .. 7 : list[i] = s
  <2>1. get_src_idx(m, s) = -1 /\ (get_src_idx(m, s) % 8) + 1 = 8
    <3>1. get_src_idx(m, s) = -1
      BY <1>3, <1>5
    <3>2. \A n \in Int : n < 0 /\ n > -2 => (n % 8) + 1 = 8
      OBVIOUS
    <3>3. get_src_idx(m, s) \in Int /\ get_src_idx(m, s) < 0 /\ get_src_idx(m, s) > -2
      BY <3>1
    <3>4. (get_src_idx(m, s) % 8) + 1 = 8
      BY <3>2, <3>3
    <3> QED
      BY <3>1, <3>4
  <2>2. \A i \in 1 .. 8 : eight[i] = s => i = 8
    BY <1>1, <1>5
  <2> QED
    BY <1>1, <1>2, <1>5, <2>1, <2>2 DEF eight
<1> QED
  BY <1>4, <1>5

---------------------------------------------------------------------------
(* Dividers.                                                               *)

\* The divided rate is a rate, not above that of any smaller divider, and not
\* zero as long as the divider is below the source's rate.
LEMMA DividedType ==
    ASSUME NEW src \in Nat, NEW d \in Nat, NEW type
    PROVE  /\ Divided(src, d, type) \in Nat
           /\ \A e \in Nat : e <= d => Divided(src, d, type) <= Divided(src, e, type)
           /\ d < src => Divided(src, d, type) # 0
           /\ Divided(src, d, type) <= src
<1>1. \A a \in Nat, b, c \in Nat \ {0} :
          /\ a \div b \in Nat
          /\ b <= c => a \div c <= a \div b
          /\ b <= a => a \div b # 0
          /\ a \div b <= a
          /\ b >= 2 => (2 * a) \div b <= a
  OBVIOUS
<1>2. CASE type = "FRACTIONAL"
  <2>1. \A e \in Nat : Divided(src, e, type) = (2 * src) \div (e + 2)
    BY <1>2 DEF Divided
  <2>2. /\ (2 * src) \div (d + 2) \in Nat
        /\ \A e \in Nat : e <= d => (2 * src) \div (d + 2) <= (2 * src) \div (e + 2)
        /\ d < src => (2 * src) \div (d + 2) # 0
        /\ (2 * src) \div (d + 2) <= src
    <3>1. /\ 2 * src \in Nat /\ d + 2 \in Nat \ {0} /\ d + 2 >= 2
          /\ d < src => d + 2 <= 2 * src
          /\ \A e \in Nat : e <= d => e + 2 \in Nat \ {0} /\ e + 2 <= d + 2
      OBVIOUS
    <3> QED
      BY <1>1, <3>1
  <2> QED
    BY <2>1, <2>2
<1>3. CASE type # "FRACTIONAL"
  <2>1. \A e \in Nat : Divided(src, e, type) = src \div (e + 1)
    BY <1>3 DEF Divided
  <2>2. /\ src \div (d + 1) \in Nat
        /\ \A e \in Nat : e <= d => src \div (d + 1) <= src \div (e + 1)
        /\ d < src => src \div (d + 1) # 0
        /\ src \div (d + 1) <= src
    <3>1. /\ d + 1 \in Nat \ {0}
          /\ d < src => d + 1 <= src
          /\ \A e \in Nat : e <= d => e + 1 \in Nat \ {0} /\ e + 1 <= d + 1
      OBVIOUS
    <3> QED
      BY <1>1, <3>1
  <2> QED
    BY <2>1, <2>2
<1> QED
  BY <1>2, <1>3

\* Two steps from the whole quotient on, the loop of get_divider has passed the
\* rate asked for; at the quotient it has not fallen below it.
LEMMA WholeQuotient ==
    ASSUME NEW src \in Nat, NEW rate \in Nat \ {0}, src >= rate
    PROVE  LET from == 2 * (src \div rate - 1)
           IN  /\ from \in Nat
               /\ Divided(src, from, "FRACTIONAL") >= rate
               /\ Divided(src, from + 2, "FRACTIONAL") < rate
<1> DEFINE q == src \div rate
           from == 2 * (q - 1)
<1>1. q \in Nat \ {0} /\ rate * q <= src /\ src < rate * (q + 1)
  OBVIOUS
<1> HIDE DEF q
<1>2. from \in Nat /\ from + 2 = 2 * q /\ (from + 2) + 2 = 2 * (q + 1)
  BY <1>1
<1>3. \A a \in Nat, b \in Nat \ {0}, c \in Nat :
          /\ b * c <= a => c <= a \div b
          /\ a < b * c => a \div b < c
  OBVIOUS
<1>4. (2 * q) * rate <= 2 * src /\ 2 * src < (2 * (q + 1)) * rate
  BY <1>1
<1>5. rate <= (2 * src) \div (2 * q)
  BY <1>1, <1>3, <1>4
<1>6. (2 * src) \div (2 * (q + 1)) < rate
  BY <1>1, <1>3, <1>4
<1> QED
  BY <1>2, <1>5, <1>6 DEF Divided, q

\* The divider found is one of the three the loop looks at: the first that is
\* slow enough, or the one before it when there is one.
LEMMA DividerFound ==
    ASSUME NEW src \in Nat, NEW rate \in Nat \ {0}, src >= rate
    PROVE  LET from == 2 * (src \div rate - 1)
               rateOf(d) == Divided(src, d, "FRACTIONAL")
               found == get_divider(src, rate, "FRACTIONAL")
           IN  \E first \in from .. from + 2 :
                  /\ rateOf(first) <= rate
                  /\ \A e \in from .. first - 1 : rateOf(e) > rate
                  /\ found = first \/ (found = first - 1 /\ first > from)
                  /\ rateOf(first) = rate => rateOf(found) = rate
<1> DEFINE from == 2 * (src \div rate - 1)
           rateOf(d) == Divided(src, d, "FRACTIONAL")
           found == get_divider(src, rate, "FRACTIONAL")
           First(d) == rateOf(d) <= rate /\ \A e \in from .. d - 1 : rateOf(e) > rate
           first == CHOOSE d \in from .. from + 2 : First(d)
           before == IF first = from THEN from ELSE first - 1
<1>1. from \in Nat /\ rateOf(from + 2) < rate
  BY WholeQuotient
<1>2. \A d \in from .. from + 2 : rateOf(d) \in Nat
  BY <1>1, DividedType
<1>3. found = IF Distance(rateOf(first), rate) < Distance(rateOf(before), rate)
              THEN first ELSE before
  BY DEF get_divider
<1>4. from .. from + 2 = {from, from + 1, from + 2}
  BY <1>1
<1> HIDE DEF from, rateOf, found
<1>5. \E d \in from .. from + 2 : First(d)
  BY <1>1, <1>2, <1>4
<1>6. first \in from .. from + 2 /\ First(first)
  BY <1>5
<1> HIDE DEF first
<1>7. first \in Nat /\ before \in Nat
  BY <1>1, <1>6
<1>8. found = first \/ (found = first - 1 /\ first > from)
  BY <1>1, <1>3, <1>6, <1>7
<1>9. ASSUME rateOf(first) = rate PROVE rateOf(found) = rate
  <2>1. CASE first = from
    BY <1>3, <1>9, <2>1
  <2>2. CASE first # from
    <3>1. before = first - 1 /\ before \in from .. first - 1
      BY <1>1, <1>6, <2>2
    <3>2. rateOf(before) > rate /\ rateOf(before) \in Nat
      BY <1>1, <1>2, <1>6, <3>1
    <3>3. Distance(rateOf(first), rate) < Distance(rateOf(before), rate)
      BY <1>9, <3>2 DEF Distance
    <3> QED
      BY <1>3, <1>9, <3>3
  <2> QED
    BY <2>1, <2>2
<1> QED
  BY <1>6, <1>8, <1>9 DEF from, rateOf, found

\* A divider is found for every rate that may be asked for.
LEMMA DividerType ==
    ASSUME NEW src \in Nat \ {0}, NEW rate \in Nat \ {0}, NEW type
    PROVE  get_divider(src, rate, type) \in Nat
<1>1. CASE type = "FRACTIONAL" /\ src < rate
  BY <1>1 DEF get_divider
<1>2. CASE type = "FRACTIONAL" /\ ~(src < rate)
  <2> DEFINE from == 2 * (src \div rate - 1)
  <2>1. from \in Nat
    BY <1>2, WholeQuotient
  <2>2. PICK first \in from .. from + 2 :
            \/ get_divider(src, rate, "FRACTIONAL") = first
            \/ get_divider(src, rate, "FRACTIONAL") = first - 1 /\ first > from
    BY <1>2, DividerFound
  <2> HIDE DEF from
  <2> QED
    BY <1>2, <2>1, <2>2
<1>3. CASE type # "FRACTIONAL"
  <2>1. (src + rate - 1) \div rate - 1 \in Int
    OBVIOUS
  <2>2. (src + rate - 1) \div rate >= 1
    OBVIOUS
  <2> QED
    BY <1>3, <2>1, <2>2 DEF get_divider
<1> QED
  BY <1>1, <1>2, <1>3

\* A rate that some divider gives is given again by the divider found for it.
LEMMA RateAgain ==
    ASSUME NEW src \in Nat, NEW d \in Nat,
           NEW rate \in Nat \ {0}, rate = Divided(src, d, "FRACTIONAL")
    PROVE  Divided(src, get_divider(src, rate, "FRACTIONAL"), "FRACTIONAL") = rate
<1> DEFINE from == 2 * (src \div rate - 1)
           rateOf(e) == Divided(src, e, "FRACTIONAL")
           found == get_divider(src, rate, "FRACTIONAL")
<1>1. src >= rate
  BY DividedType
<1>2. from \in Nat /\ rateOf(from) >= rate /\ rateOf(from + 2) < rate
  BY <1>1, WholeQuotient
<1>3. PICK first \in from .. from + 2 :
          /\ rateOf(first) <= rate
          /\ \A e \in from .. first - 1 : rateOf(e) > rate
          /\ rateOf(first) = rate => rateOf(found) = rate
  BY <1>1, DividerFound
<1>4. \A e \in Nat : rateOf(e) \in Nat
                     /\ \A f \in Nat : e <= f => rateOf(f) <= rateOf(e)
  BY DividedType
<1> HIDE DEF from, rateOf, found
<1>5. d < from + 2
  BY <1>2, <1>4 DEF rateOf
<1>6. rateOf(first) = rate
  <2>1. CASE first = from
    BY <1>2, <1>3, <1>4, <2>1
  <2>2. CASE first # from
    <3>1. from \in from .. first - 1
      BY <1>2, <1>3, <2>2
    <3>2. rateOf(from) > rate
      BY <1>3, <3>1
    <3>3. d > from
      BY <1>2, <1>4, <3>2 DEF rateOf
    <3>4. d = from + 1
      BY <1>2, <1>5, <3>3
    <3>5. first = from + 1 \/ first = from + 2
      BY <1>2, <1>3, <2>2
    <3> QED
      BY <1>2, <1>3, <3>4, <3>5 DEF rateOf
  <2> QED
    BY <2>1, <2>2
<1> QED
  BY <1>3, <1>6 DEF rateOf, found

---------------------------------------------------------------------------
(* Types.                                                                  *)

\* The sources a module may have are faster than its widest divider.
LEMMA SourceFacts ==
    ASSUME NEW s \in DOMAIN SourceRate
    PROVE  /\ SourceRate[s] \in Nat \ {0} /\ SourceRate[s] > DivValues
           /\ DivValues \in Nat \ {0}
           /\ s \in {"CLK_M", "PLLP_OUT0", "PLLM_OUT0", "PLLC4_OUT0_LJ"}
BY ClockAssumption DEF Listed

\* tegrabl_car_set_clk_rate: what is written and remembered.
LEMMA SetsRateFacts ==
    ASSUME TypeOK, NEW m \in Sourced, NEW rate \in Nat \ {0}, SetsRate(m, rate)
    PROVE  /\ mux' = [mux EXCEPT ![m] = clk_src_idx[m] % 8]
           /\ mux' \in [Sourced -> 0 .. 7]
           /\ divisor' \in [Sourced -> 0 .. DivValues - 1]
           /\ clk_rate' \in [Sourced -> Nat]
           /\ iddq' \subseteq iddq
           /\ \E d \in Nat :
                 /\ d = get_divider(SourceRate[clk_src[m]], rate, Table[m].div)
                 /\ divisor' = [divisor EXCEPT ![m] = d % DivValues]
                 /\ clk_rate' = [clk_rate EXCEPT ![m] =
                                     Divided(SourceRate[clk_src[m]], d, Table[m].div)]
<1> DEFINE src == SourceRate[clk_src[m]]
           d == get_divider(src, rate, Table[m].div)
           r == Divided(src, d, Table[m].div)
<1>1. src \in Nat \ {0} /\ DivValues \in Nat \ {0}
  BY SourceFacts DEF TypeOK
<1>2. d \in Nat
  BY <1>1, DividerType
<1>3. r \in Nat
  BY <1>1, <1>2, DividedType
<1>4. /\ mux' = [mux EXCEPT ![m] = clk_src_idx[m] % 8]
      /\ divisor' = [divisor EXCEPT ![m] = d % DivValues]
      /\ clk_rate' = [clk_rate EXCEPT ![m] = r]
      /\ iddq' \subseteq iddq
  BY DEF SetsRate, update_clk_src_reg
<1> HIDE DEF d, r
<1>5. d % DivValues \in 0 .. DivValues - 1
  BY <1>1, <1>2
<1>6. clk_src_idx[m] % 8 \in 0 .. 7
  BY DEF TypeOK
<1>7. /\ mux' \in [Sourced -> 0 .. 7]
      /\ divisor' \in [Sourced -> 0 .. DivValues - 1]
      /\ clk_rate' \in [Sourced -> Nat]
  BY <1>3, <1>4, <1>5, <1>6 DEF TypeOK
<1> QED
  BY <1>2, <1>4, <1>7 DEF d, r

\* tegrabl_car_set_clk_src: the rate that the divisor field gives with the new
\* source is never zero.
LEMMA SwitchedRate ==
    ASSUME TypeOK, NEW m \in Sourced, NEW s \in DOMAIN SourceRate
    PROVE  Divided(SourceRate[s], divisor[m], Table[m].div) \in Nat \ {0}
<1>1. divisor[m] \in Nat /\ divisor[m] < SourceRate[s] /\ SourceRate[s] \in Nat
  BY SourceFacts DEF TypeOK
<1> QED
  BY <1>1, DividedType

\* An accepted switch is of a module with a source, to a source of known rate.
LEMMA AcceptedFacts ==
    ASSUME NEW m, NEW s, SrcAccepted(m, s)
    PROVE  /\ m \in Sourced /\ s \in DOMAIN SourceRate
           /\ m \in Modules
BY SwitchedIsSourced DEF SrcAccepted, module_support, Modules

\* Every variable has its type when a stage starts with blank registers.
LEMMA InitType == Init => TypeOK
<1> SUFFICES ASSUME Init PROVE TypeOK
  OBVIOUS
<1>1. \A m \in Sourced : Table[m].src \in DOMAIN SourceRate /\ Table[m].rate \in Nat
  BY SourcedRow, ClockAssumption DEF Listed
<1>2. /\ clk_src \in [Sourced -> DOMAIN SourceRate] /\ clk_src_idx \in [Sourced -> -1 .. 6]
      /\ clk_rate \in [Sourced -> Nat] /\ resume_rate \in [Sourced -> Nat]
      /\ left \in [Sourced -> Nat]
  BY <1>1 DEF Init, TableSource, TableIdx, NoRate, TableRate
<1>3. ON \in [WithReset -> BOOLEAN]
  BY Zenon DEF Init, AllOff
<1>4. mux \in [Sourced -> 0 .. 7] /\ divisor \in [Sourced -> 0 .. DivValues - 1]
  BY ClockAssumption DEF Init
<1>5. running \subseteq Plls /\ iddq \subseteq Plls /\ running \cap iddq = {}
  BY DEF Init, Plls
<1>6. /\ driven \in Groups /\ calls \in 0 .. MaxCalls
      /\ last.op = "other" /\ last.module = None
  BY ClockAssumption DEF Init
<1> QED
  BY <1>2, <1>3, <1>4, <1>5, <1>6 DEF TypeOK

\* A call that is noted is counted and remembered.
LEMMA NoteType ==
    ASSUME TypeOK, NEW op \in {"enable", "rate", "other"}, NEW m \in Modules \cup {None},
           NEW arg, Note(op, m, arg)
    PROVE  /\ calls' \in 0 .. MaxCalls
           /\ last'.op = op /\ last'.module = m
BY ClockAssumption DEF TypeOK, Note

\* The modules that a caller may name.
LEMMA ModuleFacts ==
    /\ Sourced \subseteq Modules /\ WithReset \subseteq Modules
    /\ DOMAIN XusbBit \subseteq Modules /\ Generic \subseteq Modules
    /\ "MEM" \in Modules /\ "QSPI" \in Sourced
BY SourcedRow DEF Modules, WithReset, XusbBit, Generic, Sourced, Table

\* Every step keeps the types; a rate to resume at that is not zero is needed for
\* the division by it.
LEMMA TypeStep == TypeOK /\ CanResume /\ [Next]_vars => TypeOK'
<1> SUFFICES ASSUME TypeOK, CanResume, [Next]_vars PROVE TypeOK'
  OBVIOUS
<1> USE ModuleFacts
<1>1. ASSUME NEW onPllm \in BOOLEAN, EnableMem(onPllm) PROVE TypeOK'
  BY <1>1, NoteType DEF EnableMem, Done, TypeOK, info, Plls
<1>2. CASE DisableMem
  BY <1>2, NoteType DEF DisableMem, Done, TypeOK, info, source
<1>3. ASSUME NEW s \in {"PLLP_OUT0", "PLLC4_MUXED", "CLK_M"}, NEW div \in {0, 4},
             EnableQspi(s, div)
      PROVE  TypeOK'
  <2> DEFINE i == CHOOSE i \in 0 .. 7 : qspi[i + 1] = s
  <2>1. i \in 0 .. 7
    <3>1. qspi[1] = "PLLP_OUT0" /\ qspi[5] = "PLLC4_MUXED" /\ qspi[7] = "CLK_M"
      BY DEF qspi
    <3>2. \E k \in 0 .. 7 : qspi[k + 1] = s
      BY <3>1
    <3> QED
      BY <3>2
  <2>2. div % DivValues \in 0 .. DivValues - 1
    BY ClockAssumption
  <2> HIDE DEF i
  <2>3. mux' \in [Sourced -> 0 .. 7] /\ divisor' \in [Sourced -> 0 .. DivValues - 1]
    BY <1>3, <2>1, <2>2 DEF EnableQspi, TypeOK, i
  <2>4. running' \subseteq Plls /\ iddq' \subseteq Plls /\ running' \cap iddq' = {}
    BY <1>3 DEF EnableQspi, TypeOK, Plls
  <2>5. calls' \in 0 .. MaxCalls /\ last'.op = "other" /\ last'.module = "QSPI"
    BY <1>3, NoteType DEF EnableQspi, Done
  <2> QED
    BY <1>3, <2>3, <2>4, <2>5 DEF EnableQspi, TypeOK, info
<1>4. ASSUME NEW m, EnableXusb(m) \/ DisableXusb(m) PROVE TypeOK'
  BY <1>4, NoteType DEF EnableXusb, DisableXusb, Done, TypeOK, info, source
<1>5. ASSUME NEW m, EnableSourced(m) PROVE TypeOK'
  <2>1. m \in Sourced /\ resume_rate[m] \in Nat \ {0}
    BY <1>5 DEF EnableSourced, CanResume, TypeOK
  <2>2. calls' \in 0 .. MaxCalls /\ last'.op = "enable" /\ last'.module = m
    BY <1>5, <2>1, NoteType DEF EnableSourced
  <2>3. SetsRate(m, resume_rate[m])
    BY <1>5 DEF EnableSourced
  <2> QED
    BY <1>5, <2>1, <2>2, <2>3, SetsRateFacts DEF EnableSourced, TypeOK
<1>6. ASSUME NEW m, EnableUnsourced(m) PROVE TypeOK'
  BY <1>6, NoteType DEF EnableUnsourced, Done, TypeOK, info, source
<1>7. ASSUME NEW m, Disable(m) PROVE TypeOK'
  <2>1. calls' \in 0 .. MaxCalls /\ last'.op = "other" /\ last'.module = m /\ m \in Modules
    BY <1>7, NoteType DEF Disable, Done
  <2> QED
    BY <1>7, <2>1 DEF Disable, TypeOK, source
<1>8. ASSUME NEW m, RstSet(m) \/ RstClear(m) PROVE TypeOK'
  <2>1. calls' \in 0 .. MaxCalls /\ last'.op = "other" /\ last'.module = m /\ m \in Modules
    BY <1>8, NoteType DEF RstSet, RstClear, Done
  <2>2. ON' \in [WithReset -> BOOLEAN]
    BY <1>8, Zenon DEF RstSet, RstClear, TypeOK
  <2> QED
    BY <1>8, <2>1, <2>2 DEF RstSet, RstClear, TypeOK, source
<1>9. ASSUME NEW m, NEW s, SetSrc(m, s) PROVE TypeOK'
  <2>1. m \in Sourced /\ s \in DOMAIN SourceRate
    BY <1>9, AcceptedFacts DEF SetSrc
  <2>2. calls' \in 0 .. MaxCalls /\ last'.op = "other" /\ last'.module = m
    BY <1>9, <2>1, NoteType DEF SetSrc, Done
  <2>3. Divided(SourceRate[s], divisor[m], Table[m].div) \in Nat
    BY <2>1, SwitchedRate
  <2>4. get_src_idx(m, s) \in -1 .. 6 /\ get_src_idx(m, s) % 8 \in 0 .. 7
    BY <2>1, IndexFacts
  <2>5. divisor[m] % DivValues \in 0 .. DivValues - 1
    BY <2>1, ClockAssumption DEF TypeOK
  <2>6. /\ mux' \in [Sourced -> 0 .. 7] /\ divisor' \in [Sourced -> 0 .. DivValues - 1]
        /\ clk_rate' \in [Sourced -> Nat] /\ resume_rate' \in [Sourced -> Nat]
        /\ iddq' \subseteq iddq
    BY <1>9, <2>1, <2>3, <2>4, <2>5 DEF SetSrc, update_clk_src_reg, TypeOK, source
  <2>7. /\ clk_src' \in [Sourced -> DOMAIN SourceRate]
        /\ clk_src_idx' \in [Sourced -> -1 .. 6]
        /\ left' \in [Sourced -> Nat]
    BY <1>9, <2>1, <2>4 DEF SetSrc, TypeOK
  <2> QED
    BY <1>9, <2>1, <2>2, <2>6, <2>7 DEF SetSrc, TypeOK
<1>10. ASSUME NEW m, NEW rate \in Rates, SetRate(m, rate) PROVE TypeOK'
  <2>1. m \in Sourced /\ rate \in Nat \ {0}
    BY <1>10, ClockAssumption DEF SetRate
  <2>2. calls' \in 0 .. MaxCalls /\ last'.op = "rate" /\ last'.module = m
    BY <1>10, <2>1, NoteType DEF SetRate
  <2>3. SetsRate(m, rate)
    BY <1>10 DEF SetRate
  <2> QED
    BY <1>10, <2>1, <2>2, <2>3, SetsRateFacts DEF SetRate, TypeOK
<1>11. ASSUME NEW p \in Plls, InitPll(p) PROVE TypeOK'
  BY <1>11, NoteType DEF InitPll, Done, TypeOK, info
<1>12. CASE DisablePlle
  BY <1>12, NoteType DEF DisablePlle, Done, TypeOK, info, Plls
<1>13. CASE NextStage
  <2>1. calls' \in 0 .. MaxCalls /\ last'.op = "other" /\ last'.module = None
    BY <1>13, NoteType DEF NextStage, Done
  <2>2. \A m \in Sourced : Table[m].src \in DOMAIN SourceRate /\ Table[m].rate \in Nat
    BY SourcedRow, ClockAssumption DEF Listed
  <2>3. /\ clk_src' \in [Sourced -> DOMAIN SourceRate]
        /\ clk_src_idx' \in [Sourced -> -1 .. 6]
        /\ clk_rate' \in [Sourced -> Nat] /\ resume_rate' \in [Sourced -> Nat]
        /\ left' \in [Sourced -> Nat]
    BY <1>13, <2>2 DEF NextStage, TableSource, TableIdx, NoRate, TableRate
  <2>4. ON' \in [WithReset -> BOOLEAN]
    BY <1>13, Zenon DEF NextStage, AllOff
  <2> QED
    BY <1>13, <2>1, <2>3, <2>4 DEF NextStage, TypeOK, source
<1>14. CASE UNCHANGED vars
  BY <1>14 DEF vars, info, TypeOK
<1> QED
  BY <1>1, <1>2, <1>3, <1>4, <1>5, <1>6, <1>7, <1>8, <1>9, <1>10, <1>11, <1>12, <1>13, <1>14
     DEF Next, EnableRefused, DisableRefused, RstRefused, SetSrcRefused, SetRateRefused

---------------------------------------------------------------------------
(* What the driver remembers.                                              *)

\* What a call leaves alone that sets no rate and no source: all the driver
\* remembers of rates, and the source registers but that of QSPI.
Still ==
    /\ UNCHANGED << clk_src, clk_src_idx, clk_rate, resume_rate, left >>
    /\ \A m \in Sourced \ {"QSPI"} : mux'[m] = mux[m] /\ divisor'[m] = divisor[m]

\* Five calls set rates or sources; the others leave them still.
LEMMA RateSteps ==
    ASSUME TypeOK, CanResume, [Next]_vars
    PROVE  \/ Still
           \/ \E m \in Sourced :
                 \/ EnableSourced(m)
                 \/ \E rate \in Rates : SetRate(m, rate)
                 \/ Disable(m) /\ clk_rate[m] # 0
                 \/ \E s \in DOMAIN SourceRate : SetSrc(m, s)
           \/ NextStage
<1>1. ASSUME NEW s, NEW div, EnableQspi(s, div) PROVE Still
  BY <1>1 DEF EnableQspi, info, Still, TypeOK
<1>2. ASSUME NEW m, Disable(m), ~(m \in Sourced /\ clk_rate[m] # 0) PROVE Still
  BY <1>2 DEF Disable, source, Still
<1>3. ASSUME NEW m, \/ EnableXusb(m) \/ DisableXusb(m) \/ EnableUnsourced(m)
                    \/ RstSet(m) \/ RstClear(m) \/ InitPll(m) \/ EnableMem(m)
      PROVE  Still
  BY <1>3 DEF EnableXusb, DisableXusb, EnableUnsourced, RstSet, RstClear, InitPll, EnableMem,
              info, source, Still
<1>4. CASE DisableMem \/ DisablePlle \/ UNCHANGED vars
  BY <1>4 DEF DisableMem, DisablePlle, vars, info, source, Still
<1>5. ASSUME NEW m, NEW s, SetSrc(m, s) PROVE m \in Sourced /\ s \in DOMAIN SourceRate
  BY <1>5, AcceptedFacts DEF SetSrc
<1>6. ASSUME NEW m, EnableSourced(m) \/ \E rate \in Rates : SetRate(m, rate)
      PROVE  m \in Sourced
  BY <1>6 DEF EnableSourced, SetRate
<1> QED
  BY <1>1, <1>2, <1>3, <1>4, <1>5, <1>6
     DEF Next, EnableRefused, DisableRefused, RstRefused, SetSrcRefused, SetRateRefused

\* What setting a rate changes of what the driver remembers: the rate of the
\* module, to what a divider makes of its source.
LEMMA RateSet ==
    ASSUME TypeOK, CanResume, NEW m \in Sourced,
           EnableSourced(m) \/ \E rate \in Rates : SetRate(m, rate)
    PROVE  /\ UNCHANGED << clk_src, clk_src_idx, resume_rate, ON, rst, running >>
           /\ left' = [left EXCEPT ![m] = 0]
           /\ mux' = [mux EXCEPT ![m] = clk_src_idx[m] % 8]
           /\ \E d \in Nat :
                 /\ divisor' = [divisor EXCEPT ![m] = d % DivValues]
                 /\ clk_rate' = [clk_rate EXCEPT ![m] =
                                     Divided(SourceRate[clk_src[m]], d, Table[m].div)]
           /\ enb \subseteq enb'
           /\ clk_rate[m] = 0 => << Table[m].enbReg, 0 >> \in enb'
<1>1. PICK rate \in Nat \ {0} : SetsRate(m, rate)
  BY ClockAssumption DEF EnableSourced, SetRate, CanResume, TypeOK
<1>2. /\ mux' = [mux EXCEPT ![m] = clk_src_idx[m] % 8]
      /\ \E d \in Nat :
            /\ divisor' = [divisor EXCEPT ![m] = d % DivValues]
            /\ clk_rate' = [clk_rate EXCEPT ![m] =
                                Divided(SourceRate[clk_src[m]], d, Table[m].div)]
  BY <1>1, SetsRateFacts
<1>3. EnablesFirst(m) \subseteq enb' /\ enb \subseteq enb'
  BY DEF EnableSourced, SetRate
<1> QED
  BY <1>2, <1>3 DEF EnableSourced, SetRate, EnablesFirst

\* A rate to resume at is the rate a clock had, or one a divider gives.
LEMMA CanResumeStep == TypeOK /\ CanResume /\ [Next]_vars => CanResume'
<1> SUFFICES ASSUME TypeOK, CanResume, [Next]_vars PROVE CanResume'
  OBVIOUS
<1>1. CASE Still
  BY <1>1 DEF Still, CanResume
<1>2. ASSUME NEW m \in Sourced, EnableSourced(m) \/ \E rate \in Rates : SetRate(m, rate)
      PROVE  CanResume'
  BY <1>2 DEF EnableSourced, SetRate, CanResume
<1>3. ASSUME NEW m \in Sourced, Disable(m), clk_rate[m] # 0 PROVE CanResume'
  BY <1>3 DEF Disable, CanResume, TypeOK
<1>4. ASSUME NEW m \in Sourced, NEW s \in DOMAIN SourceRate, SetSrc(m, s) PROVE CanResume'
  BY <1>4, SwitchedRate DEF SetSrc, CanResume, TypeOK
<1>5. CASE NextStage
  BY <1>5, SourcedRow DEF NextStage, TableRate, CanResume
<1> QED
  BY <1>1, <1>2, <1>3, <1>4, <1>5, RateSteps

\* The index follows the source wherever it changes.
LEMMA IndexStep == TypeOK /\ CanResume /\ IndexOfSource /\ [Next]_vars => IndexOfSource'
<1> SUFFICES ASSUME TypeOK, CanResume, IndexOfSource, [Next]_vars PROVE IndexOfSource'
  OBVIOUS
<1>1. CASE Still
  BY <1>1 DEF Still, IndexOfSource
<1>2. ASSUME NEW m \in Sourced, EnableSourced(m) \/ \E rate \in Rates : SetRate(m, rate)
      PROVE  IndexOfSource'
  BY <1>2 DEF EnableSourced, SetRate, IndexOfSource
<1>3. ASSUME NEW m \in Sourced, Disable(m) PROVE IndexOfSource'
  BY <1>3 DEF Disable, IndexOfSource
<1>4. ASSUME NEW m \in Sourced, NEW s \in DOMAIN SourceRate, SetSrc(m, s)
      PROVE  IndexOfSource'
  BY <1>4 DEF SetSrc, IndexOfSource, TypeOK
<1>5. CASE NextStage
  BY <1>5, SourcedRow, IndexFacts DEF NextStage, TableSource, TableIdx, IndexOfSource
<1> QED
  BY <1>1, <1>2, <1>3, <1>4, <1>5, RateSteps

\* The registers are written whenever a clock gets a rate, and a clock that has
\* one keeps its divider through a switch.
LEMMA ProgrammedStep ==
    TypeOK /\ CanResume /\ IndexOfSource /\ Programmed /\ [Next]_vars => Programmed'
<1> SUFFICES ASSUME TypeOK, CanResume, IndexOfSource, Programmed, [Next]_vars
             PROVE  Programmed'
  OBVIOUS
<1>1. CASE Still
  BY <1>1 DEF Still, Programmed
<1>2. ASSUME NEW m \in Sourced, EnableSourced(m) \/ \E rate \in Rates : SetRate(m, rate)
      PROVE  Programmed'
  <2>1. /\ UNCHANGED << clk_src, clk_src_idx, resume_rate >>
        /\ left' = [left EXCEPT ![m] = 0]
        /\ mux' = [mux EXCEPT ![m] = clk_src_idx[m] % 8]
    BY <1>2, RateSet
  <2>2. PICK d \in Nat :
            /\ divisor' = [divisor EXCEPT ![m] = d % DivValues]
            /\ clk_rate' = [clk_rate EXCEPT ![m] =
                                Divided(SourceRate[clk_src[m]], d, Table[m].div)]
    BY <1>2, RateSet
  <2>3. ASSUME NEW n \in Sourced \ {"QSPI"}, clk_rate'[n] # 0
        PROVE  /\ mux'[n] = clk_src_idx'[n] % 8
               /\ \E e \in Nat :
                     /\ divisor'[n] = e % DivValues
                     /\ clk_rate'[n] = Divided(SourceRate[clk_src'[n]], e, Table[n].div)
    <3>1. CASE n = m
      BY <2>1, <2>2, <3>1 DEF TypeOK
    <3>2. CASE n # m
      <4>1. clk_rate'[n] = clk_rate[n] /\ mux'[n] = mux[n] /\ divisor'[n] = divisor[n]
        BY <2>1, <2>2, <3>2 DEF TypeOK
      <4> QED
        BY <2>1, <2>3, <4>1 DEF Programmed
    <3> QED
      BY <3>1, <3>2
  <2> QED
    BY <2>3 DEF Programmed
<1>3. ASSUME NEW m \in Sourced, Disable(m), clk_rate[m] # 0 PROVE Programmed'
  BY <1>3 DEF Disable, source, Programmed, TypeOK
<1>4. ASSUME NEW m \in Sourced, NEW s \in DOMAIN SourceRate, SetSrc(m, s) PROVE Programmed'
  <2>1. CASE clk_rate[m] = 0
    BY <1>4, <2>1 DEF SetSrc, source, Programmed, TypeOK
  <2>2. CASE clk_rate[m] # 0
    <3>1. divisor[m] \in Nat
      BY SourceFacts DEF TypeOK
    <3> QED
      BY <1>4, <2>2, <3>1 DEF SetSrc, update_clk_src_reg, Programmed, TypeOK
  <2> QED
    BY <2>1, <2>2
<1>5. CASE NextStage
  BY <1>5 DEF NextStage, NoRate, Programmed
<1> QED
  BY <1>1, <1>2, <1>3, <1>4, <1>5, RateSteps

\* Every rate is given by a divider, and so is the one a clock is left at.
LEMMA RateDividedStep ==
    TypeOK /\ CanResume /\ RateDivided /\ LeftKept /\ [Next]_vars
        => RateDivided' /\ LeftKept'
<1> SUFFICES ASSUME TypeOK, CanResume, RateDivided, LeftKept, [Next]_vars
             PROVE  RateDivided' /\ LeftKept'
  OBVIOUS
<1>1. CASE Still
  BY <1>1 DEF Still, RateDivided, LeftKept
<1>2. ASSUME NEW m \in Sourced, EnableSourced(m) \/ \E rate \in Rates : SetRate(m, rate)
      PROVE  RateDivided' /\ LeftKept'
  <2>1. /\ UNCHANGED << clk_src, clk_src_idx, resume_rate >>
        /\ left' = [left EXCEPT ![m] = 0]
        /\ mux' = [mux EXCEPT ![m] = clk_src_idx[m] % 8]
    BY <1>2, RateSet
  <2>2. PICK d \in Nat :
            /\ divisor' = [divisor EXCEPT ![m] = d % DivValues]
            /\ clk_rate' = [clk_rate EXCEPT ![m] =
                                Divided(SourceRate[clk_src[m]], d, Table[m].div)]
    BY <1>2, RateSet
  <2>3. ASSUME NEW n \in Sourced
        PROVE  \E e \in Nat :
                  clk_rate'[n] # 0 =>
                      clk_rate'[n] = Divided(SourceRate[clk_src'[n]], e, Table[n].div)
    <3>1. CASE n = m
      BY <2>1, <2>2, <3>1 DEF TypeOK
    <3>2. CASE n # m
      <4>1. clk_rate'[n] = clk_rate[n]
        BY <2>2, <3>2 DEF TypeOK
      <4> QED
        BY <2>1, <4>1 DEF RateDivided
    <3> QED
      BY <3>1, <3>2
  <2>4. LeftKept'
    BY <2>1 DEF LeftKept, TypeOK
  <2> QED
    BY <2>3, <2>4 DEF RateDivided
<1>3. ASSUME NEW m \in Sourced, Disable(m), clk_rate[m] # 0 PROVE RateDivided' /\ LeftKept'
  BY <1>3 DEF Disable, RateDivided, LeftKept, TypeOK
<1>4. ASSUME NEW m \in Sourced, NEW s \in DOMAIN SourceRate, SetSrc(m, s)
      PROVE  RateDivided' /\ LeftKept'
  <2>1. divisor[m] \in Nat
    BY SourceFacts DEF TypeOK
  <2>2. RateDivided'
    BY <1>4, <2>1 DEF SetSrc, source, RateDivided, TypeOK
  <2>3. LeftKept'
    BY <1>4 DEF SetSrc, LeftKept, TypeOK
  <2> QED
    BY <2>2, <2>3
<1>5. CASE NextStage
  <2>1. 0 \in Nat
    OBVIOUS
  <2> QED
    BY <1>5, <2>1 DEF NextStage, NoRate, RateDivided, LeftKept
<1> QED
  BY <1>1, <1>2, <1>3, <1>4, <1>5, RateSteps

---------------------------------------------------------------------------
(* PLLs, gates and resets.                                                 *)

\* PLLE alone is ever disabled, and no source of known rate hangs on it.
LEMMA RunningSteps ==
    ASSUME [Next]_vars
    PROVE  running \ {"PLLE"} \subseteq running'
BY DEF Next, EnableMem, DisableMem, EnableXusb, DisableXusb, EnableQspi, EnableRefused,
       DisableRefused, EnableSourced, EnableUnsourced, Disable, RstSet, RstClear, RstRefused,
       SetSrc, SetSrcRefused, SetRate, SetRateRefused, InitPll, DisablePlle, NextStage, vars

\* The source of a clock runs from the time it is chosen.
LEMMA SourcesRunStep ==
    TypeOK /\ CanResume /\ SourcesRun /\ [Next]_vars => SourcesRun'
<1> SUFFICES ASSUME TypeOK, CanResume, SourcesRun, [Next]_vars PROVE SourcesRun'
  OBVIOUS
<1> DEFINE Runs(s) == s = "CLK_M" \/ PllOf[s] \in running'
<1>1. /\ PllOf["PLLP_OUT0"] = "PLLP"
      /\ \A s \in DOMAIN SourceRate \ {"CLK_M"} : PllOf[s] # "PLLE"
  BY SourceFacts DEF PllOf
<1>2. "PLLP" \in running'
  BY RunningSteps DEF SourcesRun
<1>3. \A s \in DOMAIN SourceRate : s = "CLK_M" \/ PllOf[s] \in running => Runs(s)
  BY <1>1, RunningSteps
<1>4. \A m \in Sourced : Runs(clk_src[m])
  BY <1>3 DEF SourcesRun, TypeOK
<1>5. CASE NextStage
  BY <1>1, <1>2, <1>5, SourcedRow DEF NextStage, TableSource, SourcesRun
<1>6. ASSUME NEW m \in Sourced, NEW s \in DOMAIN SourceRate, SetSrc(m, s)
      PROVE  SourcesRun'
  <2>1. s = "CLK_M" \/ PllOf[s] \in running
    BY <1>6 DEF SetSrc, SrcAccepted, check_clk_src_enable
  <2>2. clk_src' = [clk_src EXCEPT ![m] = s]
    BY <1>6 DEF SetSrc
  <2>3. Runs(s)
    BY <1>3, <2>1
  <2> HIDE DEF Runs
  <2>4. \A n \in Sourced : Runs(clk_src'[n])
    BY <1>4, <2>2, <2>3 DEF TypeOK
  <2> QED
    BY <1>2, <2>4 DEF SourcesRun, Runs
<1>7. CASE UNCHANGED clk_src
  BY <1>2, <1>4, <1>7 DEF SourcesRun
<1>8. \/ NextStage \/ UNCHANGED clk_src
      \/ \E m \in Sourced, s \in DOMAIN SourceRate : SetSrc(m, s)
  BY RateSteps DEF Still, EnableSourced, SetRate, Disable
<1> QED
  BY <1>5, <1>6, <1>7, <1>8

\* No multiplexer has PLLE, the one PLL that is ever disabled.
LEMMA NoPlle ==
    ASSUME NEW m \in Sourced, NEW i \in 1 .. 8
    PROVE  Table[m].mux[i] # "PLLE"
BY DEF Sourced, Table, Row, CLK_RST_ARRAY, CLK_RST_ARRAY_ALLOW_SWITCH,
       CLK_RST_NO_RST_ARRAY_ALLOW_SWITCH, None, sdmmc, qspi, sata, i2c, fixed

\* What a multiplexer selects goes on toggling.
LEMMA StaysFed ==
    ASSUME TypeOK, [Next]_vars, NEW m \in Sourced, Toggles(Selected(m)), mux'[m] = mux[m]
    PROVE  Toggles(Selected(m))'
<1>1. Selected(m) # "PLLE" /\ Selected(m)' = Selected(m)
  BY NoPlle DEF Selected, TypeOK
<1>2. \A s \in Listed : PllOf[s] = "PLLE" => s = "PLLE"
  BY DEF Listed, PllOf, None
<1>3. running \ {"PLLE"} \subseteq running'
  BY RunningSteps
<1> QED
  BY <1>1, <1>2, <1>3 DEF Toggles

\* The multiplexers are written by four calls.
LEMMA MuxSteps ==
    ASSUME [Next]_vars
    PROVE  \/ UNCHANGED mux
           \/ \E s \in {"PLLP_OUT0", "PLLC4_MUXED", "CLK_M"}, div \in {0, 4} : EnableQspi(s, div)
           \/ \E m \in driven :
                 \/ EnableSourced(m)
                 \/ \E rate \in Rates : SetRate(m, rate)
                 \/ \E s \in Listed : SetSrc(m, s)
BY DEF Next, EnableMem, DisableMem, EnableXusb, DisableXusb, EnableRefused, DisableRefused,
       EnableUnsourced, Disable, RstSet, RstClear, RstRefused, SetSrcRefused, SetRateRefused,
       InitPll, DisablePlle, NextStage, source, vars

\* The input of QSPI is one that its enabling starts.
LEMMA QspiFed ==
    ASSUME TypeOK, SourcesRun, NEW s \in {"PLLP_OUT0", "PLLC4_MUXED", "CLK_M"}, NEW div,
           EnableQspi(s, div)
    PROVE  Toggles(Selected("QSPI"))'
<1> DEFINE i == CHOOSE i \in 0 .. 7 : qspi[i + 1] = s
<1>1. qspi[i + 1] = s
  <2>1. qspi[1] = "PLLP_OUT0" /\ qspi[5] = "PLLC4_MUXED" /\ qspi[7] = "CLK_M"
    BY DEF qspi
  <2>2. \E k \in 0 .. 7 : qspi[k + 1] = s
    BY <2>1
  <2> QED
    BY <2>2
<1> HIDE DEF i
<1>2. Table["QSPI"].mux = qspi /\ "QSPI" \in Sourced
  BY DEF Table, Row, CLK_RST_ARRAY_ALLOW_SWITCH, Sourced
<1>3. mux'["QSPI"] = i
  BY <1>2 DEF EnableQspi, TypeOK, i
<1>4. Selected("QSPI")' = s
  BY <1>1, <1>2, <1>3 DEF Selected
<1>5. "PLLP" \in running' /\ (s = "PLLC4_MUXED" => "PLLC4" \in running')
  BY DEF EnableQspi, SourcesRun
<1>6. "PLLP_OUT0" \in Listed /\ PllOf["PLLP_OUT0"] = "PLLP" /\ "PLLC4_MUXED" \in Outputs
  BY DEF Listed, PllOf, Outputs
<1> QED
  BY <1>4, <1>5, <1>6 DEF Toggles

\* A clock with a rate hangs on what toggles: its source when the register has been
\* written, what it hung on otherwise.
LEMMA FedStep ==
    TypeOK /\ CanResume /\ SourcesRun /\ Fed /\ [Next]_vars
    /\ TypeOK' /\ SourcesRun' /\ IndexOfSource' => Fed'
<1> SUFFICES ASSUME TypeOK, CanResume, SourcesRun, Fed, [Next]_vars,
                    TypeOK', SourcesRun', IndexOfSource',
                    NEW n \in Sourced, clk_rate'[n] # 0, OwnSource(n)'
             PROVE  Toggles(Selected(n))'
  BY DEF Fed
<1>1. CASE mux'[n] = clk_src_idx'[n] % 8
  <2>1. clk_src_idx'[n] = get_src_idx(n, clk_src'[n])
    BY DEF IndexOfSource
  <2>2. Selected(n)' = clk_src'[n]
    BY <1>1, <2>1, IndexFacts DEF Selected, OwnSource
  <2>3. clk_src'[n] \in Listed
    BY ClockAssumption DEF TypeOK
  <2>4. clk_src'[n] = "CLK_M" \/ PllOf[clk_src'[n]] \in running'
    BY DEF SourcesRun
  <2> QED
    BY <2>2, <2>3, <2>4 DEF Toggles
<1>2. CASE mux'[n] = mux[n] /\ clk_src'[n] = clk_src[n] /\ clk_rate[n] # 0
  BY <1>2, StaysFed DEF Fed, OwnSource
<1>3. ASSUME NEW s \in {"PLLP_OUT0", "PLLC4_MUXED", "CLK_M"}, NEW div, EnableQspi(s, div)
      PROVE  Toggles(Selected(n))'
  <2>1. CASE n = "QSPI"
    BY <1>3, <2>1, QspiFed
  <2>2. CASE n # "QSPI"
    BY <1>2, <1>3, <2>2 DEF EnableQspi, info, TypeOK
  <2> QED
    BY <2>1, <2>2
<1>4. ASSUME NEW m \in Sourced, EnableSourced(m) \/ \E rate \in Rates : SetRate(m, rate)
      PROVE  Toggles(Selected(n))'
  <2>1. /\ UNCHANGED << clk_src, clk_src_idx >>
        /\ mux' = [mux EXCEPT ![m] = clk_src_idx[m] % 8]
        /\ \E r : clk_rate' = [clk_rate EXCEPT ![m] = r]
    BY <1>4, RateSet
  <2>2. CASE n = m
    BY <1>1, <2>1, <2>2 DEF TypeOK
  <2>3. CASE n # m
    BY <1>2, <2>1, <2>3 DEF TypeOK
  <2> QED
    BY <2>2, <2>3
<1>5. ASSUME NEW m, NEW s, SetSrc(m, s) PROVE Toggles(Selected(n))'
  <2>1. m \in Sourced
    BY <1>5, AcceptedFacts DEF SetSrc
  <2>2. CASE n = m
    <3>1. clk_rate[m] # 0
      BY <1>5, <2>2 DEF SetSrc
    <3>2. mux'[n] = clk_src_idx'[n] % 8
      BY <1>5, <2>1, <2>2, <3>1 DEF SetSrc, update_clk_src_reg, TypeOK
    <3> QED
      BY <1>1, <3>2
  <2>3. CASE n # m
    BY <1>2, <1>5, <2>1, <2>3 DEF SetSrc, update_clk_src_reg, source, TypeOK
  <2> QED
    BY <2>2, <2>3
<1>6. CASE UNCHANGED mux
  <2>1. CASE Still
    BY <1>2, <1>6, <2>1 DEF Still
  <2>2. CASE \E m \in Sourced : Disable(m)
    BY <1>2, <1>6, <2>2 DEF Disable, TypeOK
  <2>3. CASE NextStage
    BY <2>3 DEF NextStage, NoRate
  <2> QED
    BY <1>4, <1>5, <2>1, <2>2, <2>3, RateSteps
<1> QED
  BY <1>3, <1>4, <1>5, <1>6, MuxSteps DEF EnableSourced, SetRate

\* The registers of the memory clocks are no module's.
LEMMA EmcApart == \A m \in Sourced : ClockBit(m) \notin EmcBits
BY DEF Sourced, Table, Row, CLK_RST_ARRAY, CLK_RST_ARRAY_ALLOW_SWITCH,
       CLK_RST_NO_RST_ARRAY_ALLOW_SWITCH, None, ClockBit, EmcBits

\* Only disabling clears bits of the enable registers.
LEMMA GateSteps ==
    ASSUME [Next]_vars
    PROVE  enb \subseteq enb' \/ DisableMem \/ \E m \in driven : Disable(m)
BY DEF Next, EnableMem, EnableXusb, DisableXusb, EnableQspi, EnableRefused,
       DisableRefused, EnableSourced, EnableUnsourced, RstSet, RstClear, RstRefused,
       SetSrc, SetSrcRefused, SetRate, SetRateRefused, InitPll, DisablePlle, NextStage, vars

\* A clock keeps its bit while it has a rate, and gets it with the rate.
LEMMA UngatedStep ==
    TypeOK /\ CanResume /\ Ungated /\ [Next]_vars => Ungated'
<1> SUFFICES ASSUME TypeOK, CanResume, Ungated, [Next]_vars,
                    NEW n \in Sourced, clk_rate'[n] # 0, Table[n].bit = 0
             PROVE  ClockBit(n) \in enb'
  BY DEF Ungated, ClockBit
<1>1. CASE DisableMem
  <2>1. clk_rate[n] # 0
    BY <1>1 DEF DisableMem, info
  <2> QED
    BY <1>1, <2>1, EmcApart DEF DisableMem, Ungated
<1>2. ASSUME NEW m, Disable(m) PROVE ClockBit(n) \in enb'
  <2>1. n # m /\ clk_rate[n] # 0
    BY <1>2 DEF Disable, TypeOK
  <2>2. m \in DOMAIN Table /\ n \in DOMAIN Table
    BY <1>2, SourcedRow DEF Disable, Generic, Modules
  <2>3. ClockBit(n) # ClockBit(m)
    BY <2>1, <2>2, BitsApart, SourcedRow
  <2> QED
    BY <1>2, <2>1, <2>3 DEF Disable, Ungated
<1>3. CASE enb \subseteq enb'
  <2>1. CASE clk_rate[n] # 0
    BY <1>3, <2>1 DEF Ungated
  <2>2. CASE clk_rate[n] = 0
    <3>1. ASSUME NEW m \in Sourced,
                 EnableSourced(m) \/ \E rate \in Rates : SetRate(m, rate)
          PROVE  ClockBit(n) \in enb'
      <4>1. m = n
        <5>1. PICK r : clk_rate' = [clk_rate EXCEPT ![m] = r]
          BY <3>1, RateSet
        <5> QED
          BY <2>2, <5>1 DEF TypeOK
      <4>2. << Table[n].enbReg, 0 >> \in enb'
        BY <2>2, <3>1, <4>1, RateSet
      <4> QED
        BY <4>2 DEF ClockBit
    <3>2. ASSUME NEW m \in Sourced, NEW s \in DOMAIN SourceRate, SetSrc(m, s) PROVE FALSE
      BY <2>2, <3>2 DEF SetSrc, TypeOK
    <3>3. ~Still /\ ~NextStage
      BY <2>2 DEF Still, NextStage, NoRate
    <3> QED
      BY <1>2, <3>1, <3>2, <3>3, RateSteps
  <2> QED
    BY <2>1, <2>2
<1> QED
  BY <1>1, <1>2, <1>3, GateSteps

\* A module is marked as out of reset with its bit, and with no other's.
LEMMA OutOfResetStep == TypeOK /\ OutOfReset /\ [Next]_vars => OutOfReset'
<1> SUFFICES ASSUME TypeOK, OutOfReset, [Next]_vars PROVE OutOfReset'
  OBVIOUS
<1>1. ASSUME NEW m, RstSet(m) PROVE OutOfReset'
  <2>1. /\ m \in WithReset /\ rst' = rst \cup {ResetBit(m)}
        /\ ON' = [ON EXCEPT ![m] = FALSE]
    BY <1>1 DEF RstSet, RstBits
  <2>2. \A n \in WithReset : ON'[n] => n # m /\ ON[n]
    BY <2>1 DEF TypeOK
  <2> QED
    BY <2>1, <2>2, BitsApart DEF OutOfReset, ResetBit
<1>2. ASSUME NEW m, RstClear(m) PROVE OutOfReset'
  <2>1. /\ m \in WithReset /\ rst' = rst \ {ResetBit(m)}
        /\ ON' = [ON EXCEPT ![m] = TRUE]
    BY <1>2 DEF RstClear, RstBits
  <2>2. \A n \in WithReset : ON'[n] => n = m \/ ON[n]
    BY <2>1 DEF TypeOK
  <2> QED
    BY <2>1, <2>2 DEF OutOfReset, ResetBit
<1>3. CASE NextStage
  BY <1>3 DEF NextStage, AllOff, OutOfReset
<1>4. CASE UNCHANGED << ON, rst >>
  BY <1>4 DEF OutOfReset, ResetBit
<1>5. \/ NextStage \/ UNCHANGED << ON, rst >>
      \/ \E m \in driven : RstSet(m) \/ RstClear(m)
  BY DEF Next, EnableMem, DisableMem, EnableXusb, DisableXusb, EnableQspi, EnableRefused,
         DisableRefused, EnableSourced, EnableUnsourced, Disable, RstRefused, SetSrc,
         SetSrcRefused, SetRate, SetRateRefused, InitPll, DisablePlle, info, vars
<1> QED
  BY <1>1, <1>2, <1>3, <1>4, <1>5

\* Every call but enabling is noted as another.
LEMMA EnabledStep == TypeOK /\ CanResume /\ EnabledNotLeft /\ [Next]_vars => EnabledNotLeft'
<1> SUFFICES ASSUME TypeOK, CanResume, EnabledNotLeft, [Next]_vars PROVE EnabledNotLeft'
  OBVIOUS
<1>1. ASSUME NEW m, EnableSourced(m) PROVE EnabledNotLeft'
  BY <1>1 DEF EnableSourced, Note, EnabledNotLeft, TypeOK
<1>2. CASE UNCHANGED vars
  BY <1>2 DEF vars, EnabledNotLeft
<1>3. CASE last'.op # "enable"
  BY <1>3 DEF EnabledNotLeft
<1>4. UNCHANGED vars \/ last'.op # "enable" \/ \E m \in driven : EnableSourced(m)
  BY DEF Next, EnableMem, DisableMem, EnableXusb, DisableXusb, EnableQspi, EnableRefused,
         DisableRefused, EnableUnsourced, Disable, RstSet, RstClear, RstRefused, SetSrc,
         SetSrcRefused, SetRate, SetRateRefused, InitPll, DisablePlle, NextStage, Done, Note
<1> QED
  BY <1>1, <1>2, <1>3, <1>4

---------------------------------------------------------------------------
(* The theorems.                                                           *)

\* The inductive invariant holds in every reachable state.
THEOREM Invariance == Spec => []IInv
<1>1. Init => IInv
  <2> SUFFICES ASSUME Init PROVE IInv
    OBVIOUS
  <2>1. TypeOK
    BY InitType
  <2>2. /\ CanResume /\ RateDivided /\ LeftKept /\ Ungated /\ Fed /\ Programmed
        /\ EnabledNotLeft
    <3>1. 0 \in Nat
      OBVIOUS
    <3>2. CanResume
      BY SourcedRow DEF Init, TableRate, CanResume
    <3> QED
      BY <3>1, <3>2 DEF Init, NoRate, RateDivided, LeftKept, Ungated, Fed,
                        Programmed, EnabledNotLeft
  <2>3. SourcesRun
    <3>1. "PLLP" \in running
      BY DEF Init
    <3> QED
      BY <3>1, SourcedRow DEF Init, TableSource, SourcesRun, PllOf
  <2>4. IndexOfSource
    BY SourcedRow, IndexFacts DEF Init, TableSource, TableIdx, IndexOfSource
  <2>5. OutOfReset
    BY DEF Init, AllOff, OutOfReset
  <2> QED
    BY <2>1, <2>2, <2>3, <2>4, <2>5 DEF IInv
<1>2. IInv /\ [Next]_vars => IInv'
  BY TypeStep, CanResumeStep, IndexStep, ProgrammedStep, RateDividedStep, SourcesRunStep,
     FedStep, UngatedStep, OutOfResetStep, EnabledStep DEF IInv
<1> QED
  BY <1>1, <1>2, PTL DEF Spec

\* The next enable of a clock never divides by zero: the rate to resume at is not
\* zero, however often it was disabled and its source switched.
THEOREM AlwaysResumes == Spec => []CanResume
<1>1. IInv => CanResume
  BY DEF IInv
<1> QED
  BY <1>1, Invariance, PTL

\* No clock with a rate, whose source is one the module has, is fed by an input of
\* its multiplexer that does not toggle, a PLL that is off or a dummy; nor is one
\* gated whose bit is the one the driver sets.
THEOREM RatedClocksRun == Spec => []RatedRuns
<1>1. IInv => RatedRuns
  BY DEF IInv, Fed, Ungated, RatedRuns
<1> QED
  BY <1>1, Invariance, PTL

\* What the driver remembers of a clock it has set is what the registers make of
\* it, and what it reports a rate of is out of reset.
THEOREM CacheIsTrue == Spec => []RegistersAsCached
<1>1. ASSUME IInv PROVE RegistersAsCached
  <2>1. ASSUME NEW m \in Sourced \ {"QSPI"}, clk_rate[m] # 0, Expressible(m)
        PROVE  /\ Selected(m) = clk_src[m]
               /\ Divided(SourceRate[clk_src[m]], divisor[m], Table[m].div) = clk_rate[m]
               /\ GetRate(m) # 0 => ResetBit(m) \notin rst
    <3> DEFINE src == SourceRate[clk_src[m]]
               type == Table[m].div
    <3>1. clk_src[m] \in DOMAIN SourceRate /\ clk_rate[m] \in Nat
      BY <1>1 DEF IInv, TypeOK
    <3>2. src \in Nat /\ DivValues \in Nat \ {0}
      BY <3>1, SourceFacts
    <3>3. PICK d \in Nat : divisor[m] = d % DivValues /\ clk_rate[m] = Divided(src, d, type)
      BY <1>1, <2>1 DEF IInv, Programmed
    <3>4. mux[m] = get_src_idx(m, clk_src[m]) % 8
      BY <1>1, <2>1 DEF IInv, Programmed, IndexOfSource
    <3>5. Table[m].mux[(get_src_idx(m, clk_src[m]) % 8) + 1] = clk_src[m]
      BY <2>1, IndexFacts DEF Expressible, OwnSource
    <3>6. Divided(src, d, type) > Divided(src, DivValues, type)
      BY <2>1, <3>3 DEF Expressible
    <3>7. d < DivValues
      <4>1. /\ Divided(src, d, type) \in Nat /\ Divided(src, DivValues, type) \in Nat
            /\ DivValues <= d => Divided(src, d, type) <= Divided(src, DivValues, type)
        BY <3>2, DividedType
      <4> HIDE DEF src, type
      <4> QED
        BY <3>2, <3>6, <4>1
    <3>8. d % DivValues = d
      BY <3>2, <3>7
    <3>9. GetRate(m) # 0 => ResetBit(m) \notin rst
      BY <1>1 DEF IInv, OutOfReset, GetRate
    <3> QED
      BY <3>3, <3>4, <3>5, <3>8, <3>9 DEF Selected
  <2> QED
    BY <1>1, <2>1 DEF IInv, RegistersAsCached
<1> QED
  BY <1>1, Invariance, PTL

\* A clock with a fractional divider is enabled at the rate it was disabled at.
THEOREM ResumesWhereLeft == Spec => ResumesAsLeft
<1> DEFINE m == last'.module
           Resumed == last'.op = "enable" /\ left[m] # 0 /\ Table[m].div = "FRACTIONAL"
                          => clk_rate'[m] = left[m]
<1>1. IInv /\ IInv' /\ [Next]_vars => [Resumed]_vars
  <2> SUFFICES ASSUME IInv, IInv', Next, last'.op = "enable", left[m] # 0,
                      Table[m].div = "FRACTIONAL", ~UNCHANGED vars
               PROVE  clk_rate'[m] = left[m]
    OBVIOUS
  <2>1. PICK n \in driven : EnableSourced(n)
    BY DEF Next, EnableMem, DisableMem, EnableXusb, DisableXusb, EnableQspi, EnableRefused,
           DisableRefused, EnableUnsourced, Disable, RstSet, RstClear, RstRefused, SetSrc,
           SetSrcRefused, SetRate, SetRateRefused, InitPll, DisablePlle, NextStage, Done,
           Note
  <2>2. n = m /\ n \in Sourced
    BY <2>1 DEF EnableSourced, Note
  <2> DEFINE src == SourceRate[clk_src[n]]
  <2>3. PICK d \in Nat :
            resume_rate[n] = left[n] /\ left[n] = Divided(src, d, "FRACTIONAL")
    BY <2>2 DEF IInv, LeftKept
  <2>4. src \in Nat /\ left[n] \in Nat \ {0}
    BY <2>2, SourceFacts DEF IInv, TypeOK
  <2>5. Divided(src, get_divider(src, left[n], "FRACTIONAL"), "FRACTIONAL") = left[n]
    BY <2>3, <2>4, RateAgain
  <2>6. clk_rate'[n] =
            Divided(src, get_divider(src, left[n], Table[n].div), Table[n].div)
    BY <2>1, <2>2, <2>3 DEF EnableSourced, SetsRate, IInv, TypeOK
  <2> QED
    BY <2>2, <2>5, <2>6
<1> QED
  BY <1>1, Invariance, PTL DEF ResumesAsLeft, Spec

===============================================================================
