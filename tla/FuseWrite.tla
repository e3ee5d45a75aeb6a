------------------------------ MODULE FuseWrite ------------------------------
(***************************************************************************)
(* tegrabl_fuse_write, step by step.                                       *)
(*                                                                         *)
(* A fuse bit goes from 0 to 1 once, for ever.  Writing a fuse reads its   *)
(* register, XORs the request with it so that only the bits still to burn  *)
(* remain, and burns the macro rows of the fuse one after the other.  A    *)
(* row burn opens the macro (write access, mirroring off, powered), issues *)
(* the WRITE command, closes the macro and senses it again, so that the    *)
(* registers show what was burnt.  Power may be lost at any moment: what   *)
(* the macro holds survives, the controller and the call do not.           *)
(***************************************************************************)
EXTENDS Integers, Sequences, FiniteSetsExt, FuseRead

CONSTANTS
    Types,          \* the fuse types a caller asks to write
    Rows,           \* type -> the macro rows its case of the switch burns, in order
    Read,           \* type -> the register each of its words is read from
    Requests,       \* type -> the values a caller asks for, one bit set per word
    Bits,           \* the bits of a word that the instance tells apart
    HighBits,       \* those that ADDR_1 rows hold; ADDR_0 rows hold the others
    BurnsReliable,  \* FALSE: the hardware may leave some bits of a row unburnt
    MaxCalls,       \* bound on the calls of a behaviour
    MaxPowerLoss    \* bound on the power losses of a behaviour

Copies == { "primary", "redundant" }
RowRecord == [reg : STRING, half : {0, 1}, copy : Copies, word : Nat \ {0}]

ASSUME LayoutAssumption ==
    /\ Types \subseteq STRING
    /\ Rows \in [Types -> Seq(RowRecord)]
    /\ Read \in [Types -> Seq(STRING)]
    /\ \A t \in Types : \A k \in DOMAIN Rows[t] :
            Read[t] = << >> \/ Rows[t][k].word \in DOMAIN Read[t]

ASSUME ValueAssumption ==
    /\ "BOOT_SECURITY_INFO" \in Types => {0, 1, 2} \subseteq Bits
    /\ HighBits \subseteq Bits
    /\ DOMAIN Requests = Types
    /\ \A t \in Types : Requests[t] \subseteq [DOMAIN Read[t] -> SUBSET Bits]

\* A word is read from the register its rows feed, and no two words of a fuse
\* from the same one.
ASSUME ReadBackAssumption ==
    \A t \in Types :
        /\ \A w, v \in DOMAIN Read[t] : Read[t][w] = Read[t][v] => w = v
        /\ Read[t] # << >> =>
              \A k \in DOMAIN Rows[t] : Rows[t][k].reg = Read[t][Rows[t][k].word]

ASSUME BoundsAssumption ==
    BurnsReliable \in BOOLEAN /\ MaxCalls \in Nat /\ MaxPowerLoss \in Nat

VARIABLES
    burnt,          \* cells of the macro that are blown, as <<reg, bit, copy>>
    sensed,         \* what the fuse registers show, as <<reg, bit>>
    visible,        \* CFG_ALL_VISIBLE: fuse registers can be accessed
    latched,        \* the PS18 latch that powers the burn is set
    mirroring,      \* ENABLE_REDIRECTION of the PMC
    pd,             \* FUSECTRL_PD_CTRL: TRUE power-gates the macro
    swAccess,       \* FUSE_WRITE_ACCESS_SW
    writeDisabled,  \* FUSE_DISABLEREGPROGRAM, sticky until power is lost
    pc,             \* where the call stands
    type, want,     \* the fuse asked for, and the value the caller passed
    buffer,         \* the caller's buffer, which the call overwrites
    row,            \* the row the switch has come to
    origVisible,    \* original_visibility
    result,         \* what the last call returned
    before,         \* history: burnt when the last call began
    asked,          \* history: every <<reg, bit>> some call asked for
    torn,           \* history: registers whose burn was once left unfinished
    calls, losses   \* counters for the bounds

macro == << burnt, sensed >>
control == << visible, latched, mirroring, pd, swAccess >>
request == << type, want, origVisible, before, asked >>
vars == << macro, control, writeDisabled, pc, request, buffer, row, result,
           torn, calls, losses >>

---------------------------------------------------------------------------
(* The macro and its registers.                                            *)

RowBits(half) == IF half = 0 THEN Bits \ HighBits ELSE HighBits

TypeRegs(t) == {Rows[t][k].reg : k \in DOMAIN Rows[t]}
ReadRegs(t) == {Read[t][w] : w \in DOMAIN Read[t]}
Regs == UNION {TypeRegs(t) \cup ReadRegs(t) : t \in Types}
Cells == Regs \X Bits \X Copies

RedundantRegs ==
    {r \in Regs : \E t \in Types : \E k \in DOMAIN Rows[t] :
        Rows[t][k].reg = r /\ Rows[t][k].copy = "redundant"}

\* Every fuse that burns a register with a redundant copy burns both copies alike.
ASSUME RedundancyAssumption ==
    \A t \in Types : \A k \in DOMAIN Rows[t] :
        Rows[t][k].reg \in RedundantRegs =>
            \A c \in Copies : \E j \in DOMAIN Rows[t] :
                Rows[t][j] = [Rows[t][k] EXCEPT !.copy = c]

\* The words that are not compared after a burn are those of fuses that are read
\* as they are, and the switch burns both halves of each.
ASSUME WordsAssumption ==
    /\ "BOOT_SECURITY_INFO" \in Types => DOMAIN Read["BOOT_SECURITY_INFO"] \subseteq {1}
    /\ \A t \in Types : Rows[t] # << >> =>
          \A w \in DOMAIN Read[t] \ {1} : \A half \in {0, 1} :
             \E k \in DOMAIN Rows[t] : Rows[t][k].word = w /\ Rows[t][k].half = half

\* What a sense of the macro loads into the registers: a bit reads 1 when
\* either of its copies is blown.
Sense(cells) ==
    {rb \in Regs \X Bits : \E c \in Copies : << rb[1], rb[2], c >> \in cells}

Raw(reg) == {b \in Bits : << reg, b >> \in sensed}

\* The value tegrabl_fuse_read returns for word w of a type.
FuseValue(t, w) == ReadAs(t, Raw(Read[t][w]))

Init ==
    /\ burnt = {} /\ sensed = {}
    /\ visible \in BOOLEAN
    /\ latched = FALSE /\ mirroring = TRUE /\ pd = TRUE /\ swAccess = FALSE
    /\ writeDisabled = FALSE
    /\ pc = "idle" /\ result = "none"
    /\ type \in Types /\ want \in Requests[type] /\ buffer = want
    /\ row = 1 /\ origVisible = visible
    /\ before = {} /\ asked = {} /\ torn = {}
    /\ calls = 0 /\ losses = 0

---------------------------------------------------------------------------
(* tegrabl_fuse_write: the frame of the call.                              *)

Return(outcome) ==
    /\ pc' = "idle"
    /\ result' = outcome

\* A call without a buffer returns before it touches anything.
CallWithoutBuffer ==
    /\ pc = "idle"
    /\ Return("null")
    /\ UNCHANGED << macro, control, writeDisabled, request, buffer, row, torn,
                    calls, losses >>

AskedCells(t, v) ==
    UNION {{Rows[t][k].reg} \X v[Rows[t][k].word] :
              k \in {j \in DOMAIN Rows[t] : Rows[t][j].word \in DOMAIN v}}

Call(t, v) ==
    /\ pc = "idle" /\ calls < MaxCalls
    /\ calls' = calls + 1
    /\ type' = t /\ want' = v /\ buffer' = v
    /\ origVisible' = visible
    /\ visible' = TRUE
    /\ latched' = TRUE
    /\ pc' = "read" /\ row' = 1 /\ result' = "none"
    /\ before' = burnt
    /\ asked' = asked \cup AskedCells(t, v)
    /\ UNCHANGED << macro, mirroring, pd, swAccess, writeDisabled, torn, losses >>

---------------------------------------------------------------------------
(* fuse_set_macro_and_burn, up to the switch.                              *)

Words == DOMAIN Read[type]

\* Words in which the register already holds a 1 that the request clears.
Clearing == {w \in Words : FuseValue(type, w) \ want[w] # {}}

\* The request XORed with the register.
Delta(w) == SymDiff(want[w], FuseValue(type, w))

\* The type has no size, the caller's buffer is too small for it, or there is
\* no memory for a copy of the fuse.
RefuseSize ==
    /\ pc = "read"
    /\ Return("size")
    /\ UNCHANGED << macro, control, writeDisabled, request, buffer, row, torn,
                    calls, losses >>

\* The words are XORed in order; the first that would clear a bit stops the
\* call, and the words after it are left as the caller wrote them.
RefuseClearing ==
    /\ pc = "read" /\ Words # {} /\ Clearing # {}
    /\ buffer' = [w \in Words |-> IF w <= Min(Clearing) THEN Delta(w) ELSE want[w]]
    /\ visible' = TRUE
    /\ Return("oneToZero")
    /\ UNCHANGED << macro, latched, mirroring, pd, swAccess, writeDisabled,
                    request, row, torn, calls, losses >>

ComputeDelta ==
    /\ pc = "read" /\ Words # {} /\ Clearing = {}
    /\ buffer' = [w \in Words |-> Delta(w)]
    /\ visible' = TRUE
    /\ IF Rows[type] = << >>
          THEN Return("unknown")        \* the switch's default case
          ELSE pc' = "row" /\ UNCHANGED result
    /\ UNCHANGED << macro, latched, mirroring, pd, swAccess, writeDisabled,
                    request, row, torn, calls, losses >>

---------------------------------------------------------------------------
(* fuse_burn, once per row.                                                *)

\* Mutant of RowCells: the buffer pointer is never advanced.
RowCellsOfFirstWord ==
    LET r == Rows[type][row]
    IN  {<< r.reg, b, r.copy >> : b \in buffer[1] \cap RowBits(r.half)}

RowCells ==
    LET r == Rows[type][row]
    IN  {<< r.reg, b, r.copy >> : b \in buffer[r.word] \cap RowBits(r.half)}

AtRow == pc = "row" /\ row <= Len(Rows[type])

\* Mutant of SkipRow: a row without bits takes the next one with it.
SkipTwoRows ==
    /\ AtRow /\ RowCells = {}
    /\ row' = row + 2
    /\ UNCHANGED << macro, control, writeDisabled, pc, request, buffer, result,
                    torn, calls, losses >>

\* fuse_word is zero.
SkipRow ==
    /\ AtRow /\ RowCells = {}
    /\ row' = row + 1
    /\ UNCHANGED << macro, control, writeDisabled, pc, request, buffer, result,
                    torn, calls, losses >>

\* fuse_write_pre_process finds programming disabled.
RefuseDisabled ==
    /\ AtRow /\ RowCells # {} /\ writeDisabled
    /\ Return("disabled")
    /\ UNCHANGED << macro, control, writeDisabled, request, buffer, row, torn,
                    calls, losses >>

\* The call stops here: rows before this one may be burnt, later ones are not.
LeaveTorn == torn' = torn \cup TypeRegs(type)

\* fuse_write_pre_process cannot compute the strobe width (the oscillator
\* frequency is unknown), or the core voltage cannot be raised.
StrobeFails ==
    /\ AtRow /\ RowCells # {} /\ ~writeDisabled
    /\ swAccess' = TRUE
    /\ Return("strobe")
    /\ LeaveTorn
    /\ UNCHANGED << macro, visible, latched, mirroring, pd, writeDisabled,
                    request, buffer, row, calls, losses >>

OpenMacro ==
    /\ AtRow /\ RowCells # {} /\ ~writeDisabled
    /\ swAccess' = TRUE
    /\ mirroring' = FALSE
    /\ pd' = FALSE

\* The state machine of the fuse wrapper is not idle: the macro stays open.
WrapperBusy ==
    /\ OpenMacro
    /\ Return("busy")
    /\ LeaveTorn
    /\ UNCHANGED << macro, visible, latched, writeDisabled, request, buffer,
                    row, calls, losses >>

StartBurn ==
    /\ OpenMacro
    /\ pc' = "burn"
    /\ UNCHANGED << macro, visible, latched, writeDisabled, request, buffer,
                    row, result, torn, calls, losses >>

\* fuse_initiate_burn: the WRITE command completes.  The read back that
\* follows it has no effect: its data is dropped.
Burn ==
    /\ pc = "burn"
    /\ \E cells \in SUBSET RowCells :
          /\ BurnsReliable => cells = RowCells
          /\ burnt' = burnt \cup cells
          /\ torn' = IF cells = RowCells THEN torn ELSE torn \cup TypeRegs(type)
    /\ pc' = "post"
    /\ UNCHANGED << sensed, control, writeDisabled, request, buffer, row,
                    result, calls, losses >>

\* Mutants of PostProcess: the macro is not sensed; the row is not left; the
\* switch goes back a row.
PostProcessUnsensed ==
    /\ pc = "post" /\ pc' = "row" /\ row' = row + 1
    /\ mirroring' = TRUE /\ pd' = TRUE
    /\ UNCHANGED << macro, visible, latched, swAccess, writeDisabled, request,
                    buffer, result, torn, calls, losses >>

PostProcessMovingRow(step) ==
    /\ pc = "post" /\ pc' = "row" /\ row' = row + step
    /\ mirroring' = TRUE /\ pd' = TRUE /\ sensed' = Sense(burnt)
    /\ UNCHANGED << burnt, visible, latched, swAccess, writeDisabled, request,
                    buffer, result, torn, calls, losses >>

PostProcessSameRow == PostProcessMovingRow(0)
PostProcessBackARow == PostProcessMovingRow(0 - 1)

\* fuse_write_post_process.
PostProcess ==
    /\ pc = "post"
    /\ mirroring' = TRUE
    /\ pd' = TRUE
    /\ sensed' = Sense(burnt)
    /\ row' = row + 1
    /\ pc' = "row"
    /\ UNCHANGED << burnt, visible, latched, swAccess, writeDisabled, request,
                    buffer, result, torn, calls, losses >>

---------------------------------------------------------------------------
(* tegrabl_fuse_write after the switch, and tegrabl_fuse_confirm_burn.     *)

FinishRows ==
    /\ pc = "row" /\ row > Len(Rows[type])
    /\ latched' = FALSE
    /\ visible' = origVisible
    /\ pc' = "confirm"
    /\ UNCHANGED << macro, mirroring, pd, swAccess, writeDisabled, request,
                    buffer, row, result, torn, calls, losses >>

\* No memory for the value to compare.
ConfirmWithoutMemory ==
    /\ pc = "confirm"
    /\ Return("memory")
    /\ UNCHANGED << macro, control, writeDisabled, request, buffer, row, torn,
                    calls, losses >>

\* Only the first word is compared.  The boot security fuse is read raw, with
\* the visibility put back; any other goes through tegrabl_fuse_read, which
\* leaves the registers visible.
Confirm ==
    /\ pc = "confirm"
    /\ visible' = (visible \/ type # "BOOT_SECURITY_INFO")
    /\ Return(IF Raw(Read[type][1]) = want[1] THEN "ok" ELSE "notBurnt")
    /\ UNCHANGED << macro, latched, mirroring, pd, swAccess, writeDisabled,
                    request, buffer, row, torn, calls, losses >>

---------------------------------------------------------------------------
(* The environment.                                                        *)

\* A later boot stage disables programming for the rest of the power cycle.
DisableProgramming ==
    /\ pc = "idle" /\ ~writeDisabled
    /\ writeDisabled' = TRUE
    /\ UNCHANGED << macro, control, pc, request, buffer, row, result, torn,
                    calls, losses >>

\* Power is lost and comes back: the controller is reset and the macro is
\* sensed.  A burn under way may have blown any of the row's cells.
PowerLoss ==
    /\ losses < MaxPowerLoss
    /\ losses' = losses + 1
    /\ \E cells \in SUBSET (IF pc = "burn" THEN RowCells ELSE {}) :
          /\ burnt' = burnt \cup cells
          /\ sensed' = Sense(burnt \cup cells)
    /\ visible' \in BOOLEAN
    /\ latched' = FALSE /\ mirroring' = TRUE /\ pd' = TRUE /\ swAccess' = FALSE
    /\ writeDisabled' = FALSE
    /\ pc' = "idle" /\ result' = "none"
    /\ torn' = IF pc \in {"row", "burn", "post"} THEN torn \cup TypeRegs(type)
                                                 ELSE torn
    /\ UNCHANGED << request, buffer, row, calls >>

---------------------------------------------------------------------------
\* The steps of a call in progress.
CallStep ==
    \/ RefuseSize \/ RefuseClearing \/ ComputeDelta
    \/ SkipRow \/ RefuseDisabled \/ StrobeFails \/ WrapperBusy \/ StartBurn
    \/ Burn \/ PostProcess
    \/ FinishRows \/ ConfirmWithoutMemory \/ Confirm

Next ==
    \/ CallWithoutBuffer
    \/ \E t \in Types : \E v \in Requests[t] : Call(t, v)
    \/ CallStep
    \/ DisableProgramming
    \/ PowerLoss

Spec == Init /\ [][Next]_vars

\* A call runs on one CPU without waiting for any other, and each poll of the
\* controller ends: its commands complete.
FairSpec == Spec /\ WF_vars(CallStep)

---------------------------------------------------------------------------
(* Properties.                                                             *)

Outcomes == { "none", "null", "size", "oneToZero", "unknown", "disabled",
              "strobe", "busy", "memory", "notBurnt", "ok" }

\* Type invariant.
TypeOK ==
    /\ burnt \subseteq Cells /\ sensed \subseteq Regs \X Bits
    /\ visible \in BOOLEAN /\ latched \in BOOLEAN /\ mirroring \in BOOLEAN
    /\ pd \in BOOLEAN /\ swAccess \in BOOLEAN
    /\ writeDisabled \in BOOLEAN /\ origVisible \in BOOLEAN
    /\ pc \in {"idle", "read", "row", "burn", "post", "confirm"}
    /\ type \in Types
    /\ want \in [Words -> SUBSET Bits] /\ buffer \in [Words -> SUBSET Bits]
    /\ row \in Nat \ {0}
    /\ result \in Outcomes
    /\ before \subseteq Cells
    /\ asked \subseteq Regs \X Bits
    /\ torn \subseteq Regs
    /\ calls \in Nat /\ losses \in Nat

\* No fuse is ever blown that no caller asked for: a bit outside every request
\* stays 0 whatever calls fail, restart or overlap on a register.
OnlyAskedForBurnt == \A c \in burnt : << c[1], c[2] >> \in asked

\* The macro changes only while it is open and powered: registers visible,
\* latch set, software access on, mirroring off, PD released, and programming
\* not disabled.
MacroArmed ==
    visible /\ latched /\ swAccess /\ ~mirroring /\ ~pd /\ ~writeDisabled
BurnOnlyWhenArmed == [][burnt' # burnt => MacroArmed]_vars

\* A call refused for its value, its type or its size has blown nothing.
RefusalBurnsNothing ==
    result \in {"size", "oneToZero", "unknown", "disabled"} => burnt = before

\* A call that reports success leaves every word of the fuse reading back as
\* the caller asked, not only the first, which is the one compared.
SuccessMeansValue ==
    result = "ok" => \A w \in Words : Raw(Read[type][w]) = want[w]

\* Whenever the registers are compared with a request they show the macro as
\* it is: no delta and no confirmation is computed from a stale sense.
SensedIsCurrent == pc # "post" => sensed = Sense(burnt)

\* Outside a call, a fuse that has a redundant copy holds the same bits in
\* both, unless one of its burns was once stopped between two rows.
CopiesAgree ==
    pc = "idle" =>
        \A r \in RedundantRegs \ torn : \A b \in Bits :
            << r, b, "primary" >> \in burnt <=> << r, b, "redundant" >> \in burnt

\* "confirm fuses are burnt": after a success, every row of the fuse holds
\* the bits asked for.
ConfirmedMeansBurnt ==
    result = "ok" =>
        \A k \in DOMAIN Rows[type] : LET r == Rows[type][k] IN
            \A b \in want[r.word] \cap RowBits(r.half) :
                << r.reg, b, r.copy >> \in burnt

\* The call as its callers see it (FuseCall): the value as register bits, the
\* word that is compared, the registers, and the kind of outcome.
AskedValue == UNION {{Read[type][w]} \X want[w] : w \in Words}
ComparedWord == IF Words = {} THEN {} ELSE {Read[type][1]} \X Bits
RefusedResults == { "null", "size", "oneToZero", "unknown", "disabled" }
CallOutcome ==
    IF pc # "idle" THEN "pending"
    ELSE IF result \in RefusedResults THEN "refused"
    ELSE IF result \in {"none", "ok"} THEN result ELSE "failed"

Promise == INSTANCE FuseCall WITH
    Cells <- Regs \X Bits, blown <- Sense(burnt), asked <- AskedValue,
    compared <- ComparedWord, begun <- Sense(before), outcome <- CallOutcome

\* Whatever the hardware leaves unburnt and wherever power is lost, a call does
\* what FuseCall promises: it blows bits of the value asked for only, a refusal
\* has blown none, and success means that the word compared is as asked.
KeepsPromise == Promise!CallSpec

\* Every call returns, or power is lost.
CallReturns == (pc # "idle") ~> (pc = "idle")
===============================================================================
