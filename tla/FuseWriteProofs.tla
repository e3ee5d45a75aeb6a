--------------------------- MODULE FuseWriteProofs ---------------------------
(***************************************************************************)
(* What holds of tegrabl_fuse_write for every table of fuses, every value  *)
(* asked for, any number of calls and of power losses, and hardware that   *)
(* may leave bits unburnt.                                                 *)
(***************************************************************************)
EXTENDS FuseWrite, TLAPS

(* The parts of the inductive invariant.                                   *)

\* The call in progress has been recorded.
CallRecorded == pc # "idle" => AskedCells(type, want) \subseteq asked

\* From the XOR to the end of the switch the buffer holds a part of the
\* request, and the type is one the macro has rows for.
BufferWithinWant ==
    pc \in {"row", "burn", "post"} =>
        /\ Read[type] # << >>
        /\ \A w \in Words : buffer[w] \subseteq want[w]

\* Up to the end of the switch the registers are visible and the latch is set.
Powered == pc \in {"read", "row", "burn", "post"} => visible /\ latched

\* A burn is under way on a row of the fuse, with the macro armed.
BurnArmed == pc = "burn" => row \in DOMAIN Rows[type] /\ MacroArmed

\* Nothing is blown before the value is accepted, nor while programming is
\* disabled; a call in progress has no outcome yet.
NothingYet ==
    /\ pc = "read" \/ (pc # "idle" /\ writeDisabled) => burnt = before
    /\ pc # "idle" => result = "none"

IInv ==
    /\ TypeOK
    /\ OnlyAskedForBurnt
    /\ CallRecorded
    /\ BufferWithinWant
    /\ Powered
    /\ BurnArmed
    /\ NothingYet
    /\ RefusalBurnsNothing
    /\ SensedIsCurrent

---------------------------------------------------------------------------
(* The table and the registers.                                            *)

\* A row of the table has the fields that write_fuse_word_0 and _1 and
\* fuse_burn take.
LEMMA RowFacts ==
    ASSUME NEW t \in Types, NEW k \in DOMAIN Rows[t]
    PROVE  /\ Rows[t][k].reg \in Regs
           /\ Rows[t][k].half \in {0, 1}
           /\ Rows[t][k].copy \in Copies
           /\ Rows[t][k].reg \in TypeRegs(t)
<1>1. Rows[t] \in Seq(RowRecord)
  BY LayoutAssumption
<1>2. Rows[t][k] \in RowRecord
  BY <1>1
<1>3. Rows[t][k].reg \in TypeRegs(t)
  BY DEF TypeRegs
<1>4. TypeRegs(t) \subseteq Regs
  BY DEF Regs
<1> QED
  BY <1>2, <1>3, <1>4 DEF RowRecord

\* The registers a fuse is burnt through are registers of the macro.
LEMMA TypeRegsInRegs == \A t \in Types : TypeRegs(t) \subseteq Regs
BY DEF Regs

\* Sensing the macro (fuse_assert_pd) loads bits of its registers only.
LEMMA SenseType == \A cells : Sense(cells) \subseteq Regs \X Bits
BY DEF Sense

\* fuse_get_boot_security_info answers a mode made of the three low bits.
LEMMA ModeType ==
    ASSUME {0, 1, 2} \subseteq Bits, NEW raw
    PROVE  BootSecurityMode(raw) \subseteq Bits
BY DEF BootSecurityMode

\* tegrabl_fuse_read returns a word of the bits a register has.
LEMMA FuseValueType ==
    ASSUME NEW t \in Types, NEW w
    PROVE  FuseValue(t, w) \subseteq Bits
<1>1. Raw(Read[t][w]) \subseteq Bits
  BY DEF Raw
<1>2. CASE t = "BOOT_SECURITY_INFO"
  BY <1>2, ModeType, ValueAssumption DEF FuseValue, ReadAs
<1>3. CASE t # "BOOT_SECURITY_INFO"
  BY <1>1, <1>3 DEF FuseValue, ReadAs
<1> QED
  BY <1>2, <1>3

\* Burning a row burns cells of the macro, all of them asked for by the call.
LEMMA RowCellsFacts ==
    ASSUME TypeOK, BufferWithinWant, row \in DOMAIN Rows[type],
           pc \in {"row", "burn", "post"}
    PROVE  /\ RowCells \subseteq Cells
           /\ \A c \in RowCells : << c[1], c[2] >> \in AskedCells(type, want)
<1> DEFINE r == Rows[type][row]
<1>1. type \in Types /\ Read[type] # << >>
  BY DEF TypeOK, BufferWithinWant
<1>2. r.word \in DOMAIN Read[type]
  BY <1>1, LayoutAssumption
<1>3. r.reg \in Regs /\ r.copy \in Copies
  BY <1>1, RowFacts
<1>4. buffer[r.word] \subseteq want[r.word] /\ want[r.word] \subseteq Bits
  BY <1>2 DEF BufferWithinWant, TypeOK, Words
<1>5. \A c \in RowCells :
         /\ c \in Cells
         /\ \E b \in buffer[r.word] : c = << r.reg, b, r.copy >>
  BY <1>3, <1>4 DEF RowCells, Cells
<1>6. DOMAIN want = DOMAIN Read[type]
  BY DEF TypeOK, Words
<1>7. \A b \in want[r.word] : << r.reg, b >> \in AskedCells(type, want)
  BY <1>2, <1>6 DEF AskedCells
<1> QED
  BY <1>4, <1>5, <1>7

\* The cells recorded for a request are bits of registers.
LEMMA AskedType ==
    ASSUME NEW t \in Types, NEW v \in Requests[t]
    PROVE  AskedCells(t, v) \subseteq Regs \X Bits
<1>1. v \in [DOMAIN Read[t] -> SUBSET Bits]
  BY ValueAssumption
<1> QED
  BY <1>1, RowFacts DEF AskedCells

---------------------------------------------------------------------------
(* IInv holds at the start and every step keeps it.                        *)

\* The inductive invariant holds when the boot loader starts.
LEMMA InitIInv == Init => IInv
<1> SUFFICES ASSUME Init PROVE IInv
  OBVIOUS
<1>1. want \in [Words -> SUBSET Bits]
  BY ValueAssumption DEF Init, Words
<1>2. TypeOK
  <2>1. buffer \in [Words -> SUBSET Bits]
    BY <1>1 DEF Init
  <2>2. /\ burnt \subseteq Cells /\ sensed \subseteq Regs \X Bits
        /\ before \subseteq Cells /\ asked \subseteq Regs \X Bits
        /\ torn \subseteq Regs
    BY DEF Init
  <2>3. /\ visible \in BOOLEAN /\ origVisible \in BOOLEAN
        /\ latched \in BOOLEAN /\ mirroring \in BOOLEAN /\ pd \in BOOLEAN
        /\ swAccess \in BOOLEAN /\ writeDisabled \in BOOLEAN
    BY DEF Init
  <2>4. /\ row \in Nat \ {0} /\ result \in Outcomes /\ type \in Types
        /\ pc \in {"idle", "read", "row", "burn", "post", "confirm"}
        /\ calls \in Nat /\ losses \in Nat
    BY DEF Init, Outcomes
  <2> QED
    BY <1>1, <2>1, <2>2, <2>3, <2>4 DEF TypeOK
<1>3. Sense({}) = {}
  BY DEF Sense
<1> QED
  BY <1>2, <1>3 DEF Init, IInv, OnlyAskedForBurnt, CallRecorded, BufferWithinWant,
     Powered, BurnArmed, NothingYet, RefusalBurnsNothing, SensedIsCurrent

\* Every step of tegrabl_fuse_write, and a power loss, keeps the types.
LEMMA TypeStep == IInv /\ [Next]_vars => TypeOK'
<1> SUFFICES ASSUME IInv, [Next]_vars PROVE TypeOK'
  OBVIOUS
<1> USE DEF IInv, TypeOK, Return, Outcomes, macro, control, request, Words
<1>1. CASE CallWithoutBuffer
  BY <1>1 DEF CallWithoutBuffer
<1>2. ASSUME NEW t \in Types, NEW v \in Requests[t], Call(t, v) PROVE TypeOK'
  <2>1. v \in [DOMAIN Read[t] -> SUBSET Bits]
    BY ValueAssumption
  <2>2. asked' \subseteq Regs \X Bits
    BY <1>2, AskedType DEF Call
  <2> QED
    BY <1>2, <2>1, <2>2 DEF Call
<1>3. CASE RefuseSize
  BY <1>3 DEF RefuseSize
<1>4. ASSUME NEW w \in Words PROVE Delta(w) \subseteq Bits /\ want[w] \subseteq Bits
  BY FuseValueType DEF Delta, SymDiff
<1>5. CASE RefuseClearing
  BY <1>4, <1>5 DEF RefuseClearing
<1>6. CASE ComputeDelta
  BY <1>4, <1>6 DEF ComputeDelta
<1>7. CASE SkipRow
  BY <1>7 DEF SkipRow, AtRow
<1>8. CASE RefuseDisabled
  BY <1>8 DEF RefuseDisabled
<1>9. CASE StrobeFails
  BY <1>9, TypeRegsInRegs DEF StrobeFails, LeaveTorn
<1>10. CASE WrapperBusy
  BY <1>10, TypeRegsInRegs DEF WrapperBusy, LeaveTorn, OpenMacro
<1>11. CASE StartBurn
  BY <1>11 DEF StartBurn, OpenMacro
<1>12. CASE Burn
  BY <1>12, RowCellsFacts, TypeRegsInRegs DEF Burn, BurnArmed
<1>13. CASE PostProcess
  BY <1>13, SenseType DEF PostProcess
<1>14. CASE FinishRows
  BY <1>14 DEF FinishRows
<1>15. CASE ConfirmWithoutMemory
  BY <1>15 DEF ConfirmWithoutMemory
<1>16. CASE Confirm
  BY <1>16 DEF Confirm
<1>17. CASE DisableProgramming
  BY <1>17 DEF DisableProgramming
<1>18. CASE PowerLoss
  <2>1. PICK cells \in SUBSET (IF pc = "burn" THEN RowCells ELSE {}) :
           burnt' = burnt \cup cells /\ sensed' = Sense(burnt \cup cells)
    BY <1>18 DEF PowerLoss
  <2>2. cells \subseteq Cells
    BY <2>1, RowCellsFacts DEF BurnArmed
  <2>3. burnt' \subseteq Cells /\ sensed' \subseteq Regs \X Bits
    BY <2>1, <2>2, SenseType
  <2>4. torn' \subseteq Regs
    BY <1>18, TypeRegsInRegs DEF PowerLoss
  <2>5. /\ visible' \in BOOLEAN /\ latched' \in BOOLEAN
        /\ mirroring' \in BOOLEAN /\ pd' \in BOOLEAN /\ swAccess' \in BOOLEAN
        /\ writeDisabled' \in BOOLEAN
    BY <1>18 DEF PowerLoss
  <2>6. /\ pc' = "idle" /\ result' = "none"
        /\ UNCHANGED << type, want, origVisible, before, asked, buffer, row,
                        calls >>
        /\ losses' \in Nat
    BY <1>18 DEF PowerLoss
  <2> QED
    BY <2>3, <2>4, <2>5, <2>6
<1>19. CASE UNCHANGED vars
  BY <1>19 DEF vars
<1> QED
  BY <1>1, <1>2, <1>3, <1>5, <1>6, <1>7, <1>8, <1>9, <1>10, <1>11, <1>12, <1>13,
     <1>14, <1>15, <1>16, <1>17, <1>18, <1>19 DEF Next, CallStep

\* Every step blows only bits that the call in progress, or one before it,
\* asked for.
LEMMA AskedStep == IInv /\ [Next]_vars => OnlyAskedForBurnt' /\ CallRecorded'
<1> SUFFICES ASSUME IInv, [Next]_vars PROVE OnlyAskedForBurnt' /\ CallRecorded'
  OBVIOUS
<1> USE DEF IInv, Return, macro, control, request
<1>1. ASSUME UNCHANGED << burnt, type, want, asked >>, pc # "idle" \/ pc' = "idle"
      PROVE  OnlyAskedForBurnt' /\ CallRecorded'
  BY <1>1 DEF OnlyAskedForBurnt, CallRecorded, AskedCells
<1>2. ASSUME NEW t \in Types, NEW v \in Requests[t], Call(t, v)
      PROVE  OnlyAskedForBurnt' /\ CallRecorded'
  BY <1>2 DEF Call, OnlyAskedForBurnt, CallRecorded, AskedCells
<1>3. ASSUME pc = "burn", NEW cells \in SUBSET RowCells, burnt' = burnt \cup cells,
             UNCHANGED << type, want, asked >>
      PROVE  OnlyAskedForBurnt' /\ CallRecorded'
  <2>1. \A c \in cells : << c[1], c[2] >> \in AskedCells(type, want)
    BY <1>3, RowCellsFacts DEF BurnArmed
  <2>2. AskedCells(type, want) \subseteq asked
    BY <1>3 DEF CallRecorded
  <2>3. OnlyAskedForBurnt'
    BY <1>3, <2>1, <2>2 DEF OnlyAskedForBurnt
  <2>4. CallRecorded'
    BY <1>3, <2>2 DEF CallRecorded, AskedCells
  <2> QED
    BY <2>3, <2>4
<1>4. CASE Burn
  BY <1>3, <1>4 DEF Burn
<1>5. CASE PowerLoss
  <2>1. CASE pc = "burn"
    BY <1>3, <1>5, <2>1 DEF PowerLoss
  <2>2. CASE pc # "burn"
    BY <1>1, <1>5, <2>2 DEF PowerLoss
  <2> QED
    BY <2>1, <2>2
<1>6. CASE CallStep /\ ~Burn
  BY <1>1, <1>6 DEF CallStep, RefuseSize, RefuseClearing, ComputeDelta, SkipRow,
     RefuseDisabled, StrobeFails, WrapperBusy, OpenMacro, StartBurn, PostProcess,
     FinishRows, ConfirmWithoutMemory, Confirm, AtRow
<1>7. CASE CallWithoutBuffer \/ DisableProgramming \/ UNCHANGED vars
  BY <1>1, <1>7 DEF CallWithoutBuffer, DisableProgramming, vars
<1> QED
  BY <1>2, <1>4, <1>5, <1>6, <1>7 DEF Next

\* The XOR leaves a part of the request in the buffer, and no later step of the
\* call puts a bit back.
LEMMA BufferStep == IInv /\ [Next]_vars => BufferWithinWant'
<1> SUFFICES ASSUME IInv, [Next]_vars, pc' \in {"row", "burn", "post"}
             PROVE  BufferWithinWant'
  BY DEF BufferWithinWant
<1> USE DEF IInv, Return, macro, control, request
<1>1. ASSUME UNCHANGED << type, want, buffer >>, pc \in {"row", "burn", "post"}
      PROVE  BufferWithinWant'
  BY <1>1 DEF BufferWithinWant, Words
<1>2. CASE ComputeDelta
  <2>1. UNCHANGED << type, want >> /\ Words # {}
    BY <1>2 DEF ComputeDelta
  <2>2. \A w \in Words : FuseValue(type, w) \subseteq want[w]
    BY <1>2 DEF ComputeDelta, Clearing
  <2>3. \A w \in Words : buffer'[w] \subseteq want[w]
    BY <1>2, <2>2 DEF ComputeDelta, Delta, SymDiff
  <2>4. Read[type] # << >>
    BY <2>1 DEF Words
  <2> QED
    BY <2>1, <2>3, <2>4 DEF BufferWithinWant, Words
<1>3. CASE SkipRow \/ StartBurn \/ Burn \/ PostProcess
  BY <1>1, <1>3 DEF SkipRow, AtRow, StartBurn, OpenMacro, Burn, PostProcess
<1>4. CASE DisableProgramming \/ UNCHANGED vars
  BY <1>1, <1>4 DEF DisableProgramming, vars
<1> QED
  BY <1>2, <1>3, <1>4 DEF Next, CallStep, CallWithoutBuffer, Call, RefuseSize,
     RefuseClearing, RefuseDisabled, StrobeFails, WrapperBusy, FinishRows,
     ConfirmWithoutMemory, Confirm, PowerLoss

\* A burn is entered only through fuse_write_pre_process, and nothing closes the
\* macro before the WRITE command.
LEMMA ArmedStep == IInv /\ [Next]_vars => Powered' /\ BurnArmed'
<1> SUFFICES ASSUME IInv, [Next]_vars PROVE Powered' /\ BurnArmed'
  OBVIOUS
<1> USE DEF IInv, Return, macro, control, request, Powered, BurnArmed, MacroArmed
<1>1. CASE StartBurn
  <2>1. row \in DOMAIN Rows[type]
    <3>1. Rows[type] \in Seq(RowRecord) /\ row \in Nat \ {0}
      BY LayoutAssumption DEF TypeOK
    <3> QED
      BY <1>1, <3>1 DEF StartBurn, OpenMacro, AtRow
  <2> QED
    BY <1>1, <2>1 DEF StartBurn, OpenMacro, AtRow
<1>2. ASSUME NEW t \in Types, NEW v \in Requests[t], Call(t, v)
      PROVE  Powered' /\ BurnArmed'
  BY <1>2 DEF Call
<1>3. CASE CallStep /\ ~StartBurn
  BY <1>3 DEF CallStep, RefuseSize, RefuseClearing, ComputeDelta, SkipRow, AtRow,
     RefuseDisabled, StrobeFails, WrapperBusy, OpenMacro, Burn, PostProcess,
     FinishRows, ConfirmWithoutMemory, Confirm
<1>4. CASE CallWithoutBuffer \/ DisableProgramming \/ PowerLoss \/ UNCHANGED vars
  BY <1>4 DEF CallWithoutBuffer, DisableProgramming, PowerLoss, vars
<1> QED
  BY <1>1, <1>2, <1>3, <1>4 DEF Next

\* A call that is refused has not got as far as a burn.
LEMMA RefusalStep == IInv /\ [Next]_vars => NothingYet' /\ RefusalBurnsNothing'
<1> SUFFICES ASSUME IInv, [Next]_vars PROVE NothingYet' /\ RefusalBurnsNothing'
  OBVIOUS
<1> USE DEF IInv, Return, macro, control, request, NothingYet, RefusalBurnsNothing
<1>1. ASSUME NEW t \in Types, NEW v \in Requests[t], Call(t, v)
      PROVE  NothingYet' /\ RefusalBurnsNothing'
  BY <1>1 DEF Call
<1>2. CASE Burn
  BY <1>2 DEF Burn, BurnArmed, MacroArmed
<1>3. CASE RefuseSize \/ RefuseClearing \/ ComputeDelta
  BY <1>3 DEF RefuseSize, RefuseClearing, ComputeDelta
<1>4. CASE SkipRow \/ RefuseDisabled \/ StrobeFails \/ WrapperBusy \/ StartBurn
  BY <1>4 DEF SkipRow, AtRow, RefuseDisabled, StrobeFails, WrapperBusy, OpenMacro,
     StartBurn
<1>5. CASE PostProcess \/ FinishRows \/ ConfirmWithoutMemory \/ Confirm
  BY <1>5 DEF PostProcess, FinishRows, ConfirmWithoutMemory, Confirm
<1>6. CASE CallWithoutBuffer \/ DisableProgramming \/ PowerLoss \/ UNCHANGED vars
  BY <1>6 DEF CallWithoutBuffer, DisableProgramming, PowerLoss, vars
<1> QED
  BY <1>1, <1>2, <1>3, <1>4, <1>5, <1>6 DEF Next, CallStep

\* Whatever blows a cell is followed by a sense before a register is read.
LEMMA SenseStep == IInv /\ [Next]_vars => SensedIsCurrent'
<1> SUFFICES ASSUME IInv, [Next]_vars PROVE SensedIsCurrent'
  OBVIOUS
<1> USE DEF IInv, Return, macro, control, request, SensedIsCurrent, Sense
<1>1. ASSUME NEW t \in Types, NEW v \in Requests[t], Call(t, v)
      PROVE  SensedIsCurrent'
  BY <1>1 DEF Call
<1>2. CASE PostProcess \/ PowerLoss
  BY <1>2 DEF PostProcess, PowerLoss
<1>3. CASE Burn
  BY <1>3 DEF Burn
<1>4. CASE RefuseSize \/ RefuseClearing \/ ComputeDelta
  BY <1>4 DEF RefuseSize, RefuseClearing, ComputeDelta
<1>5. CASE SkipRow \/ RefuseDisabled \/ StrobeFails \/ WrapperBusy \/ StartBurn
  BY <1>5 DEF SkipRow, AtRow, RefuseDisabled, StrobeFails, WrapperBusy, OpenMacro,
     StartBurn
<1>6. CASE FinishRows \/ ConfirmWithoutMemory \/ Confirm
  BY <1>6 DEF FinishRows, ConfirmWithoutMemory, Confirm
<1>7. CASE CallWithoutBuffer \/ DisableProgramming \/ UNCHANGED vars
  BY <1>7 DEF CallWithoutBuffer, DisableProgramming, vars
<1> QED
  BY <1>1, <1>2, <1>3, <1>4, <1>5, <1>6, <1>7 DEF Next, CallStep

---------------------------------------------------------------------------
(* The rows of a fuse: what a call has burnt when it leaves the switch.    *)

\* What row k of the fuse burns of the buffer.
CellsOf(k) ==
    LET r == Rows[type][k]
    IN  {<< r.reg, b, r.copy >> : b \in buffer[r.word] \cap RowBits(r.half)}

InSwitch == pc \in {"row", "burn", "post"}
Done == {k \in DOMAIN Rows[type] : k < row \/ (pc = "post" /\ k = row)}

\* The call has burnt of a register what its rows so far hold, and no more, unless
\* a burn of the register was once left unfinished.
RowsDone ==
    /\ pc = "read" => row = 1
    /\ InSwitch =>
        \A r \in Regs, b \in Bits, c \in Copies :
            BurnsReliable \/ r \notin torn =>
                (<< r, b, c >> \in burnt <=>
                    \/ << r, b, c >> \in before
                    \/ \E k \in Done : << r, b, c >> \in CellsOf(k))

\* The copies agree outside the switch, and inside it they did when the call began.
Agree(cells) ==
    \A r \in RedundantRegs \ torn : \A b \in Bits :
        << r, b, "primary" >> \in cells <=> << r, b, "redundant" >> \in cells
Agreement == Agree(IF InSwitch THEN before ELSE burnt)

\* The switch knows the fuse, and the buffer holds what the request asks for beyond
\* what the registers showed.
DeltaKept ==
    InSwitch =>
        /\ Rows[type] # << >>
        /\ type # "BOOT_SECURITY_INFO" =>
              \A w \in Words, b \in Bits :
                 b \in want[w] <=> b \in buffer[w] \/ << Read[type][w], b >> \in Sense(before)

CopiesInv == RowsDone /\ Agreement

\* The words that are not compared read as the caller asked.
Unconfirmed ==
    pc = "confirm" => \A w \in Words \ {1} : Raw(Read[type][w]) = want[w]

ValueInv == DeltaKept /\ Unconfirmed /\ SuccessMeansValue

\* A row burns bits of its word into one copy of its register.
LEMMA CellsOfFacts ==
    /\ RowCells = CellsOf(row)
    /\ \A k, r, b, c :
          << r, b, c >> \in CellsOf(k) <=>
              /\ r = Rows[type][k].reg /\ c = Rows[type][k].copy
              /\ b \in buffer[Rows[type][k].word] \cap RowBits(Rows[type][k].half)
BY DEF RowCells, CellsOf

\* As long as the call stands in the switch its rows hold the same cells.
LEMMA RowsStep == IInv /\ RowsDone /\ [Next]_vars => RowsDone'
<1> SUFFICES ASSUME IInv, RowsDone, [Next]_vars PROVE RowsDone'
  OBVIOUS
<1> USE DEF Return, macro, control, request
<1>1. /\ type \in Types /\ row \in Nat \ {0} /\ burnt \subseteq Cells
      /\ DOMAIN Rows[type] \subseteq Nat \ {0}
  BY LayoutAssumption DEF IInv, TypeOK
<1>2. ASSUME UNCHANGED << type, buffer >>
      PROVE  \A k : CellsOf(k)' = CellsOf(k)
  BY <1>2 DEF CellsOf
<1>3. ASSUME InSwitch, InSwitch', UNCHANGED << type, buffer, burnt, before, torn >>,
             \/ Done' = Done
             \/ Done' = Done \cup {row} /\ CellsOf(row) = {}
      PROVE  RowsDone'
  BY <1>2, <1>3 DEF RowsDone, InSwitch
<1>4. CASE SkipRow
  <2>1. Done' = IF row \in DOMAIN Rows[type] THEN Done \cup {row} ELSE Done
    BY <1>1, <1>4 DEF SkipRow, AtRow, Done
  <2>2. CellsOf(row) = {}
    BY <1>4, CellsOfFacts DEF SkipRow
  <2> QED
    BY <1>3, <1>4, <2>1, <2>2 DEF SkipRow, AtRow, InSwitch
<1>5. CASE StartBurn
  <2>1. Done' = Done
    BY <1>5 DEF StartBurn, OpenMacro, AtRow, Done
  <2> QED
    BY <1>3, <1>5, <2>1 DEF StartBurn, OpenMacro, AtRow, InSwitch
<1>6. CASE PostProcess
  <2>1. Done' = Done
    BY <1>1, <1>6 DEF PostProcess, Done
  <2> QED
    BY <1>3, <1>6, <2>1 DEF PostProcess, InSwitch
<1>7. CASE Burn
  <2>1. PICK cells \in SUBSET RowCells :
           /\ BurnsReliable => cells = RowCells
           /\ burnt' = burnt \cup cells
           /\ torn' = IF cells = RowCells THEN torn ELSE torn \cup TypeRegs(type)
    BY <1>7 DEF Burn
  <2>2. /\ row \in DOMAIN Rows[type] /\ pc = "burn" /\ pc' = "post"
        /\ UNCHANGED << type, buffer, before, row >>
    BY <1>7 DEF Burn, IInv, BurnArmed
  <2>3. Done' = Done \cup {row}
    BY <2>2 DEF Done
  <2>4. ASSUME NEW r \in Regs, NEW b \in Bits, NEW c \in Copies,
               BurnsReliable \/ r \notin torn'
        PROVE  << r, b, c >> \in burnt' <=>
                   \/ << r, b, c >> \in before'
                   \/ \E k \in Done' : << r, b, c >> \in CellsOf(k)'
    <3>1. << r, b, c >> \in burnt <=>
              << r, b, c >> \in before \/ \E k \in Done : << r, b, c >> \in CellsOf(k)
      BY <2>1, <2>2, <2>4 DEF RowsDone, InSwitch
    <3>2. << r, b, c >> \in cells <=> << r, b, c >> \in CellsOf(row)
      <4>1. CASE cells = RowCells
        BY <4>1, CellsOfFacts
      <4>2. CASE cells # RowCells
        <5>1. r \notin TypeRegs(type)
          BY <2>1, <2>4, <4>2
        <5>2. << r, b, c >> \notin CellsOf(row)
          BY <1>1, <2>2, <5>1, CellsOfFacts, RowFacts
        <5> QED
          BY <2>1, <5>2, CellsOfFacts
      <4> QED
        BY <4>1, <4>2
    <3>3. \A k : CellsOf(k)' = CellsOf(k)
      BY <1>2, <2>2
    <3> QED
      BY <2>1, <2>2, <2>3, <3>1, <3>2, <3>3
  <2> QED
    BY <2>2, <2>4 DEF RowsDone
<1>8. CASE ComputeDelta
  <2>1. pc = "read" /\ row = 1 /\ burnt = before /\ UNCHANGED << type, row, burnt, before >>
    BY <1>8 DEF ComputeDelta, RowsDone, IInv, NothingYet
  <2>2. pc' # "read" /\ pc' # "post"
    BY <1>8 DEF ComputeDelta
  <2>3. Done' = {}
    BY <1>1, <2>1, <2>2 DEF Done
  <2> QED
    BY <2>1, <2>2, <2>3 DEF RowsDone
<1>9. ASSUME NEW t \in Types, NEW v \in Requests[t], Call(t, v) PROVE RowsDone'
  BY <1>9 DEF Call, RowsDone, InSwitch
<1>10. CASE CallWithoutBuffer \/ RefuseSize \/ RefuseClearing \/ RefuseDisabled \/ StrobeFails
            \/ WrapperBusy \/ FinishRows \/ ConfirmWithoutMemory \/ Confirm \/ PowerLoss
            \/ DisableProgramming
  BY <1>10 DEF CallWithoutBuffer, RefuseSize, RefuseClearing, RefuseDisabled, StrobeFails,
               WrapperBusy, FinishRows, ConfirmWithoutMemory, Confirm, PowerLoss,
               DisableProgramming, RowsDone, InSwitch
<1>11. CASE UNCHANGED vars
  BY <1>11 DEF vars, RowsDone, InSwitch, Done, CellsOf
<1> QED
  BY <1>4, <1>5, <1>6, <1>7, <1>8, <1>9, <1>10, <1>11 DEF Next, CallStep

\* At the end of the switch both copies of a register have gained the same bits.
LEMMA RowsAgree ==
    ASSUME IInv, CopiesInv, pc = "row", row > Len(Rows[type])
    PROVE  Agree(burnt)
<1>1. type \in Types /\ row \in Nat /\ DOMAIN Rows[type] = 1 .. Len(Rows[type])
      /\ Len(Rows[type]) \in Nat
  BY LayoutAssumption DEF IInv, TypeOK
<1>2. Done = DOMAIN Rows[type]
  BY <1>1 DEF Done
<1> SUFFICES ASSUME NEW r \in RedundantRegs, r \notin torn, NEW b \in Bits,
                    NEW c \in Copies, NEW d \in Copies, << r, b, c >> \in burnt
             PROVE  << r, b, d >> \in burnt
  BY DEF Agree, Copies
<1>3. r \in Regs
  BY DEF RedundantRegs
<1>4. \A e \in Copies :
         << r, b, e >> \in burnt <=>
             << r, b, e >> \in before \/ \E k \in Done : << r, b, e >> \in CellsOf(k)
  BY <1>3 DEF CopiesInv, RowsDone, InSwitch
<1>5. CASE << r, b, c >> \in before
  <2>1. << r, b, d >> \in before
    BY <1>5 DEF CopiesInv, Agreement, Agree, InSwitch, Copies
  <2> QED
    BY <1>4, <2>1
<1>6. ASSUME NEW k \in Done, << r, b, c >> \in CellsOf(k) PROVE << r, b, d >> \in burnt
  <2>1. /\ r = Rows[type][k].reg
        /\ b \in buffer[Rows[type][k].word] \cap RowBits(Rows[type][k].half)
    BY <1>6, CellsOfFacts
  <2>2. Rows[type][k] \in RowRecord
    BY <1>1, <1>2, LayoutAssumption
  <2>3. PICK j \in DOMAIN Rows[type] : Rows[type][j] = [Rows[type][k] EXCEPT !.copy = d]
    BY <1>1, <1>2, <2>1, RedundancyAssumption
  <2>4. /\ Rows[type][j].reg = Rows[type][k].reg /\ Rows[type][j].copy = d
        /\ Rows[type][j].word = Rows[type][k].word /\ Rows[type][j].half = Rows[type][k].half
    BY <2>2, <2>3 DEF RowRecord
  <2>5. << r, b, d >> \in CellsOf(j)
    BY <2>1, <2>4, CellsOfFacts
  <2> QED
    BY <1>2, <1>4, <2>5
<1> QED
  BY <1>4, <1>5, <1>6

\* A call that leaves the switch elsewhere has burnt nothing, or is noted.
LEMMA AgreementStep == IInv /\ CopiesInv /\ [Next]_vars => Agreement'
<1> SUFFICES ASSUME IInv, CopiesInv, [Next]_vars PROVE Agreement'
  OBVIOUS
<1> USE DEF Return, macro, control, request, CopiesInv
<1>1. ASSUME Agree(burnt), torn' = torn, burnt' = burnt, ~ InSwitch' PROVE Agreement'
  BY <1>1 DEF Agreement, Agree
<1>2. ASSUME InSwitch, InSwitch', torn \subseteq torn', before' = before PROVE Agreement'
  BY <1>2 DEF Agreement, Agree
<1>3. ASSUME InSwitch, ~ InSwitch', torn' = torn \cup TypeRegs(type),
             NEW cells \in SUBSET RowCells, burnt' = burnt \cup cells,
             cells # {} => pc = "burn"
      PROVE  Agreement'
  <2>1. type \in Types
    BY DEF IInv, TypeOK
  <2>2. ASSUME NEW r \in RedundantRegs \ torn', NEW b \in Bits, NEW c \in Copies
        PROVE  << r, b, c >> \in burnt' <=> << r, b, c >> \in before
    <3>1. r \in Regs /\ r \notin torn /\ r \notin TypeRegs(type)
      BY <1>3 DEF RedundantRegs
    <3>2. \A k \in DOMAIN Rows[type] : << r, b, c >> \notin CellsOf(k)
      BY <2>1, <3>1, CellsOfFacts, RowFacts
    <3>3. << r, b, c >> \in burnt <=> << r, b, c >> \in before
      BY <1>3, <3>1, <3>2 DEF RowsDone, Done
    <3>4. << r, b, c >> \notin cells
      <4>1. CASE pc = "burn"
        BY <1>3, <3>2, <4>1, CellsOfFacts DEF IInv, BurnArmed
      <4> QED
        BY <1>3, <4>1
    <3> QED
      BY <1>3, <3>3, <3>4
  <2> QED
    BY <1>3, <2>2 DEF Agreement, Agree, Copies
<1>4. CASE CallWithoutBuffer \/ RefuseSize \/ RefuseClearing \/ ConfirmWithoutMemory
           \/ Confirm \/ DisableProgramming
  BY <1>1, <1>4 DEF CallWithoutBuffer, RefuseSize, RefuseClearing, ConfirmWithoutMemory,
                    Confirm, DisableProgramming, Agreement, InSwitch
<1>5. ASSUME NEW t \in Types, NEW v \in Requests[t], Call(t, v) PROVE Agreement'
  BY <1>1, <1>5 DEF Call, Agreement, InSwitch
<1>6. CASE ComputeDelta
  <2>1. burnt = before /\ Agree(burnt)
    BY <1>6 DEF ComputeDelta, IInv, NothingYet, Agreement, InSwitch
  <2> QED
    BY <1>6, <2>1 DEF ComputeDelta, Agreement, Agree, InSwitch
<1>7. CASE SkipRow \/ StartBurn \/ Burn \/ PostProcess
  BY <1>2, <1>7 DEF SkipRow, AtRow, StartBurn, OpenMacro, Burn, PostProcess, InSwitch
<1>8. CASE RefuseDisabled
  <2>1. burnt = before /\ Agree(before)
    BY <1>8 DEF RefuseDisabled, AtRow, IInv, NothingYet, Agreement, InSwitch
  <2> QED
    BY <1>1, <1>8, <2>1 DEF RefuseDisabled, InSwitch
<1>9. CASE StrobeFails \/ WrapperBusy
  <2>1. {} \in SUBSET RowCells /\ burnt' = burnt \cup {}
    BY <1>9 DEF StrobeFails, WrapperBusy
  <2> QED
    BY <1>3, <1>9, <2>1 DEF StrobeFails, WrapperBusy, OpenMacro, AtRow, LeaveTorn, InSwitch
<1>10. CASE FinishRows
  BY <1>1, <1>10, RowsAgree DEF FinishRows, InSwitch
<1>11. CASE PowerLoss
  <2>1. PICK cells \in SUBSET (IF pc = "burn" THEN RowCells ELSE {}) :
           burnt' = burnt \cup cells
    BY <1>11 DEF PowerLoss
  <2>2. CASE InSwitch
    BY <1>3, <1>11, <2>1, <2>2 DEF PowerLoss, InSwitch
  <2>3. CASE ~ InSwitch
    <3>1. burnt' = burnt
      BY <2>1, <2>3 DEF InSwitch
    <3> QED
      BY <1>1, <1>11, <2>3, <3>1 DEF PowerLoss, InSwitch, Agreement
  <2> QED
    BY <2>2, <2>3
<1>12. CASE UNCHANGED vars
  BY <1>12 DEF vars, Agreement, Agree, InSwitch
<1> QED
  BY <1>4, <1>5, <1>6, <1>7, <1>8, <1>9, <1>10, <1>11, <1>12 DEF Next, CallStep

\* The request is what the registers showed and what is left to burn: the XOR of a
\* value that clears no bit loses none.
LEMMA DeltaStep == IInv /\ DeltaKept /\ [Next]_vars => DeltaKept'
<1> SUFFICES ASSUME IInv, DeltaKept, [Next]_vars, InSwitch'
             PROVE  DeltaKept'
  BY DEF DeltaKept
<1> USE DEF Return, macro, control, request
<1>1. ASSUME InSwitch, UNCHANGED << type, want, buffer, before >> PROVE DeltaKept'
  BY <1>1 DEF DeltaKept, InSwitch, Words, Sense
<1>2. CASE ComputeDelta
  <2>1. /\ UNCHANGED << type, want, before >> /\ buffer' = [w \in Words |-> Delta(w)]
        /\ \A w \in Words : FuseValue(type, w) \subseteq want[w]
    BY <1>2 DEF ComputeDelta, Clearing
  <2>2. sensed = Sense(before) /\ want \in [Words -> SUBSET Bits]
    BY <1>2 DEF ComputeDelta, IInv, NothingYet, SensedIsCurrent, TypeOK
  <2>3. ASSUME type # "BOOT_SECURITY_INFO", NEW w \in Words, NEW b \in Bits
        PROVE  b \in want[w] <=>
                   b \in buffer'[w] \/ << Read[type][w], b >> \in Sense(before)
    <3>1. FuseValue(type, w) = {a \in Bits : << Read[type][w], a >> \in Sense(before)}
      BY <2>2, <2>3 DEF FuseValue, ReadAs, Raw
    <3>2. buffer'[w] = SymDiff(want[w], FuseValue(type, w))
      BY <2>1 DEF Delta
    <3> QED
      BY <2>1, <3>1, <3>2 DEF SymDiff
  <2>4. Rows[type] # << >>
    BY <1>2 DEF ComputeDelta, InSwitch
  <2> QED
    BY <2>1, <2>3, <2>4 DEF DeltaKept, Words, Sense
<1>3. CASE SkipRow \/ StartBurn \/ Burn \/ PostProcess
  BY <1>1, <1>3 DEF SkipRow, AtRow, StartBurn, OpenMacro, Burn, PostProcess, InSwitch
<1>4. CASE DisableProgramming \/ UNCHANGED vars
  BY <1>1, <1>4 DEF DisableProgramming, vars, InSwitch
<1> QED
  BY <1>2, <1>3, <1>4 DEF Next, CallStep, CallWithoutBuffer, Call, RefuseSize,
     RefuseClearing, RefuseDisabled, StrobeFails, WrapperBusy, FinishRows,
     ConfirmWithoutMemory, Confirm, PowerLoss, InSwitch

\* At the end of the switch every word but the first reads as it was asked for, when
\* the hardware burns what it is told to.
LEMMA WordsBurnt ==
    ASSUME BurnsReliable, IInv, RowsDone, DeltaKept, pc = "row", row > Len(Rows[type]),
           NEW w \in Words \ {1}
    PROVE  Raw(Read[type][w]) = want[w]
<1>1. /\ type \in Types /\ row \in Nat /\ DOMAIN Rows[type] = 1 .. Len(Rows[type])
      /\ Len(Rows[type]) \in Nat /\ want[w] \subseteq Bits
  BY LayoutAssumption DEF IInv, TypeOK
<1>2. Done = DOMAIN Rows[type]
  BY <1>1 DEF Done
<1>3. type # "BOOT_SECURITY_INFO"
  BY <1>1, WordsAssumption DEF Words
<1> DEFINE r == Read[type][w]
<1>4. r \in Regs
  BY <1>1 DEF Regs, ReadRegs, Words
<1>5. ASSUME NEW b \in Bits, NEW c \in Copies
      PROVE  << r, b, c >> \in burnt <=>
                 << r, b, c >> \in before \/ \E k \in Done : << r, b, c >> \in CellsOf(k)
  BY <1>4 DEF RowsDone, InSwitch
<1>6. ASSUME NEW b \in Bits, b \in Raw(r) PROVE b \in want[w]
  <2>1. PICK c \in Copies : << r, b, c >> \in burnt
    BY <1>6 DEF Raw, IInv, SensedIsCurrent, Sense
  <2>2. CASE << r, b, c >> \in before
    <3>1. << r, b >> \in Sense(before)
      BY <1>4, <2>2 DEF Sense
    <3> QED
      BY <1>3, <3>1 DEF DeltaKept, InSwitch
  <2>3. ASSUME NEW k \in Done, << r, b, c >> \in CellsOf(k) PROVE b \in want[w]
    <3>1. r = Rows[type][k].reg /\ b \in buffer[Rows[type][k].word]
      BY <2>3, CellsOfFacts
    <3>2. Read[type] # << >>
      BY DEF Words
    <3>3. Rows[type][k].word = w
      <4>1. Rows[type][k].word \in DOMAIN Read[type]
        BY <1>1, <1>2, <3>2, LayoutAssumption
      <4>2. Rows[type][k].reg = Read[type][Rows[type][k].word]
        BY <1>1, <1>2, <3>2, ReadBackAssumption
      <4> QED
        BY <1>1, <3>1, <4>1, <4>2, ReadBackAssumption DEF Words
    <3> QED
      BY <1>3, <3>1, <3>3 DEF DeltaKept, InSwitch
  <2> QED
    BY <1>5, <2>1, <2>2, <2>3
<1>7. ASSUME NEW b \in want[w] PROVE b \in Raw(r)
  <2>1. b \in Bits /\ (b \in buffer[w] \/ << r, b >> \in Sense(before))
    BY <1>1, <1>3 DEF DeltaKept, InSwitch
  <2>2. \E c \in Copies : << r, b, c >> \in burnt
    <3>1. CASE << r, b >> \in Sense(before)
      <4>1. PICK c \in Copies : << r, b, c >> \in before
        BY <3>1 DEF Sense
      <4> QED
        BY <1>5, <2>1, <4>1
    <3>2. CASE b \in buffer[w]
      <4>1. PICK half \in {0, 1} : b \in RowBits(half)
        BY <2>1 DEF RowBits
      <4>2. Rows[type] # << >>
        BY DEF DeltaKept, InSwitch
      <4>3. PICK k \in DOMAIN Rows[type] :
               Rows[type][k].word = w /\ Rows[type][k].half = half
        BY <1>1, <4>2, WordsAssumption DEF Words
      <4>4. Rows[type][k].reg = r /\ Rows[type][k].copy \in Copies
        <5>1. Read[type] # << >>
          BY DEF Words
        <5> QED
          BY <1>1, <4>3, <5>1, ReadBackAssumption, RowFacts
      <4>5. << r, b, Rows[type][k].copy >> \in CellsOf(k)
        BY <3>2, <4>1, <4>3, <4>4, CellsOfFacts
      <4> QED
        BY <1>2, <1>5, <2>1, <4>4, <4>5
    <3> QED
      BY <2>1, <3>1, <3>2
  <2> QED
    BY <1>4, <2>1, <2>2 DEF Raw, IInv, SensedIsCurrent, Sense
<1>8. Raw(r) \subseteq Bits
  BY DEF Raw
<1> QED
  BY <1>6, <1>7, <1>8

\* The call compares the first word, and finds the others as they are.
LEMMA ValueStep ==
    BurnsReliable /\ IInv /\ RowsDone /\ ValueInv /\ [Next]_vars => ValueInv'
<1> SUFFICES ASSUME BurnsReliable, IInv, RowsDone, ValueInv, [Next]_vars PROVE ValueInv'
  OBVIOUS
<1> USE DEF Return, macro, control, request
<1>1. DeltaKept'
  BY DeltaStep DEF ValueInv
<1>2. ASSUME pc' # "confirm", result' # "ok" PROVE ValueInv'
  BY <1>1, <1>2 DEF ValueInv, Unconfirmed, SuccessMeansValue
<1>3. pc # "idle" => result # "ok"
  BY DEF IInv, NothingYet
<1>4. CASE FinishRows
  <2>1. \A w \in Words \ {1} : Raw(Read[type][w]) = want[w]
    BY <1>4, WordsBurnt DEF FinishRows, ValueInv
  <2> QED
    BY <1>1, <1>3, <1>4, <2>1
       DEF FinishRows, ValueInv, Unconfirmed, SuccessMeansValue, Words, Raw
<1>5. CASE Confirm
  <2>1. \A w \in Words \ {1} : Raw(Read[type][w]) = want[w]
    BY <1>5 DEF Confirm, ValueInv, Unconfirmed
  <2>2. result' = "ok" => Raw(Read[type][1]) = want[1]
    BY <1>5 DEF Confirm
  <2>3. pc' # "confirm" /\ UNCHANGED << type, want, sensed >>
    BY <1>5 DEF Confirm
  <2>4. result' = "ok" => \A w \in Words : Raw(Read[type][w]) = want[w]
    BY <2>1, <2>2
  <2> QED
    BY <1>1, <2>3, <2>4 DEF ValueInv, Unconfirmed, SuccessMeansValue, Words, Raw
<1>6. ASSUME NEW t \in Types, NEW v \in Requests[t], Call(t, v) PROVE ValueInv'
  BY <1>2, <1>6 DEF Call
<1>7. CASE CallWithoutBuffer \/ RefuseSize \/ RefuseClearing \/ RefuseDisabled \/ StrobeFails
           \/ WrapperBusy \/ ConfirmWithoutMemory \/ PowerLoss
  BY <1>2, <1>7 DEF CallWithoutBuffer, RefuseSize, RefuseClearing, RefuseDisabled,
                    StrobeFails, WrapperBusy, ConfirmWithoutMemory, PowerLoss
<1>8. CASE ComputeDelta \/ SkipRow \/ StartBurn \/ Burn \/ PostProcess
  BY <1>2, <1>3, <1>8 DEF ComputeDelta, SkipRow, AtRow, StartBurn, OpenMacro, Burn,
                          PostProcess
<1>9. CASE DisableProgramming \/ UNCHANGED vars
  BY <1>1, <1>9 DEF DisableProgramming, vars, ValueInv, Unconfirmed, SuccessMeansValue,
                    Words, Raw
<1> QED
  BY <1>4, <1>5, <1>6, <1>7, <1>8, <1>9 DEF Next, CallStep

---------------------------------------------------------------------------
(* The theorems.                                                           *)

\* The inductive invariant holds in every reachable state.
THEOREM Invariance == Spec => []IInv
<1>1. IInv /\ [Next]_vars => IInv'
  BY TypeStep, AskedStep, BufferStep, ArmedStep, RefusalStep, SenseStep DEF IInv
<1> QED
  BY InitIInv, <1>1, PTL DEF Spec

\* Every variable of tegrabl_fuse_write keeps its type.
THEOREM TypeCorrect == Spec => []TypeOK
<1>1. IInv => TypeOK
  BY DEF IInv
<1> QED
  BY Invariance, <1>1, PTL

\* For every fuse table and every history of calls, failures and power losses,
\* a blown fuse bit is one that a caller asked tegrabl_fuse_write for.
THEOREM OnlyAskedForIsBurnt == Spec => []OnlyAskedForBurnt
<1>1. IInv => OnlyAskedForBurnt
  BY DEF IInv
<1> QED
  BY Invariance, <1>1, PTL

\* A request that tegrabl_fuse_write refuses for its size, its type, its value
\* or because programming is disabled leaves the macro as it was.
THEOREM RefusalsBurnNothing == Spec => []RefusalBurnsNothing
<1>1. IInv => RefusalBurnsNothing
  BY DEF IInv
<1> QED
  BY Invariance, <1>1, PTL

\* The XOR of a request and the confirmation of a burn read registers that show
\* the macro as it is.
THEOREM RegistersAreCurrent == Spec => []SensedIsCurrent
<1>1. IInv => SensedIsCurrent
  BY DEF IInv
<1> QED
  BY Invariance, <1>1, PTL

\* The fuse macro is blown only by a burn that fuse_write_pre_process has armed.
THEOREM BurnsAreArmed == Spec => BurnOnlyWhenArmed
<1>1. IInv /\ [Next]_vars => [burnt' # burnt => MacroArmed]_vars
  <2> SUFFICES ASSUME IInv, [Next]_vars, burnt' # burnt PROVE MacroArmed
    OBVIOUS
  <2>1. Burn \/ PowerLoss
    BY DEF Next, CallStep, CallWithoutBuffer, Call, RefuseSize, RefuseClearing,
       ComputeDelta, SkipRow, RefuseDisabled, StrobeFails, WrapperBusy, StartBurn,
       PostProcess, FinishRows, ConfirmWithoutMemory, Confirm, DisableProgramming,
       vars, macro
  <2>2. pc = "burn"
    BY <2>1 DEF Burn, PowerLoss
  <2> QED
    BY <2>2 DEF IInv, BurnArmed
<1> QED
  BY Invariance, <1>1, PTL DEF Spec, BurnOnlyWhenArmed

\* A fuse with a redundant copy holds the same bits in both, for every table and
\* whatever the hardware leaves unburnt, unless a burn of it was left unfinished.
THEOREM CopiesAlwaysAgree == Spec => []CopiesAgree
<1>1. Init => CopiesInv
  BY DEF Init, CopiesInv, RowsDone, Agreement, Agree, InSwitch
<1>2. IInv /\ CopiesInv /\ [Next]_vars => CopiesInv'
  BY RowsStep, AgreementStep DEF CopiesInv
<1>3. CopiesInv => CopiesAgree
  BY DEF CopiesInv, Agreement, Agree, InSwitch, CopiesAgree
<1> QED
  BY Invariance, <1>1, <1>2, <1>3, PTL DEF Spec

\* Hardware that burns what it is told to leaves every word of a fuse reading as it
\* was asked for when the call reports success, though it compares the first only.
THEOREM SuccessIsValue == BurnsReliable => (Spec => []SuccessMeansValue)
<1> SUFFICES ASSUME BurnsReliable PROVE Spec => []SuccessMeansValue
  OBVIOUS
<1>1. Init => RowsDone /\ ValueInv
  BY DEF Init, RowsDone, ValueInv, DeltaKept, Unconfirmed, SuccessMeansValue, InSwitch
<1>2. IInv /\ RowsDone /\ ValueInv /\ [Next]_vars => (RowsDone /\ ValueInv)'
  BY RowsStep, ValueStep
<1>3. ValueInv => SuccessMeansValue
  BY DEF ValueInv
<1> QED
  BY Invariance, <1>1, <1>2, <1>3, PTL DEF Spec

-------------------------------------------------------------------------------
(***************************************************************************)
(* tegrabl_fuse_write, row by row, does what FuseCall promises its         *)
(* callers: for every table of fuses and every history of calls, failures  *)
(* and power losses, on hardware that may leave bits unburnt.              *)
(***************************************************************************)

\* The promise of a call that keeps its type and value, and blows nothing,
\* depends on its outcome alone.
LEMMA SameRequest ==
    ASSUME UNCHANGED << type, want, burnt, before >>
    PROVE  /\ Sense(burnt)' = Sense(burnt) /\ Sense(before)' = Sense(before)
           /\ AskedValue' = AskedValue /\ ComparedWord' = ComparedWord
BY DEF Sense, AskedValue, ComparedWord, Words, Cells

\* The value asked for is made of bits of registers.
LEMMA AskedValueType ==
    ASSUME TypeOK PROVE AskedValue \subseteq Regs \X Bits /\ ComparedWord \subseteq Regs \X Bits
<1>1. \A w \in Words : Read[type][w] \in Regs
  BY DEF TypeOK, Words, Regs, ReadRegs
<1>2. AskedValue \subseteq Regs \X Bits
  BY <1>1 DEF AskedValue, TypeOK
<1>3. ComparedWord \subseteq Regs \X Bits
  <2>1. CASE Words = {}
    BY <2>1 DEF ComparedWord
  <2>2. CASE Words # {}
    <3>1. Read[type] \in Seq(STRING)
      BY LayoutAssumption DEF TypeOK
    <3>2. 1 \in Words
      BY <2>2, <3>1 DEF Words
    <3> QED
      BY <1>1, <2>2, <3>2 DEF ComparedWord
  <2> QED
    BY <2>1, <2>2
<1> QED
  BY <1>2, <1>3

\* The registers show more after cells of the row at hand are blown, and only
\* bits of the value.
LEMMA RowGrows ==
    ASSUME IInv, pc = "burn", NEW cells \in SUBSET RowCells, burnt' = burnt \cup cells
    PROVE  /\ Sense(burnt) \subseteq Sense(burnt)'
           /\ Sense(burnt)' \subseteq Sense(burnt) \cup AskedValue
<1> DEFINE r == Rows[type][row]
<1>1. type \in Types /\ row \in DOMAIN Rows[type] /\ Read[type] # << >>
  BY DEF IInv, TypeOK, BurnArmed, BufferWithinWant
<1>2. r.word \in Words /\ r.reg = Read[type][r.word]
  BY <1>1, LayoutAssumption, ReadBackAssumption DEF Words
<1>3. buffer[r.word] \subseteq want[r.word]
  BY <1>2 DEF IInv, BufferWithinWant
<1>4. \A c \in cells : << c[1], c[2] >> \in AskedValue
  BY <1>2, <1>3 DEF RowCells, AskedValue
<1>5. Sense(burnt)' = Sense(burnt \cup cells)
  BY DEF Sense
<1>6. Sense(burnt) \subseteq Sense(burnt \cup cells)
  BY DEF Sense
<1>7. Sense(burnt \cup cells) \subseteq Sense(burnt) \cup AskedValue
  <2> SUFFICES ASSUME NEW rb \in Regs \X Bits, NEW c \in Copies,
                      << rb[1], rb[2], c >> \in cells
               PROVE  rb \in AskedValue
    BY DEF Sense
  <2> QED
    BY <1>4
<1> QED
  BY <1>5, <1>6, <1>7

\* A confirmation that finds the first word as asked has compared it with the
\* registers as they are.
LEMMA ConfirmedWord ==
    ASSUME IInv, pc = "confirm", Raw(Read[type][1]) = want[1]
    PROVE  Sense(burnt) \cap ComparedWord = AskedValue \cap ComparedWord
<1>1. CASE Words = {}
  BY <1>1 DEF ComparedWord
<1>2. CASE Words # {}
  <2>1. Read[type] \in Seq(STRING) /\ type \in Types
    BY LayoutAssumption DEF IInv, TypeOK
  <2>2. 1 \in Words
    BY <1>2, <2>1 DEF Words
  <2>3. sensed = Sense(burnt)
    BY DEF IInv, SensedIsCurrent
  <2>4. \A b \in Bits : << Read[type][1], b >> \in sensed <=> b \in want[1]
    BY DEF Raw
  <2>5. \A b \in Bits : << Read[type][1], b >> \in AskedValue <=> b \in want[1]
    <3> SUFFICES ASSUME NEW b \in Bits, << Read[type][1], b >> \in AskedValue
                 PROVE  b \in want[1]
      BY <2>2 DEF AskedValue
    <3>1. PICK w \in Words : << Read[type][1], b >> \in {Read[type][w]} \X want[w]
      BY DEF AskedValue
    <3>2. w = 1
      BY <2>1, <2>2, <3>1, ReadBackAssumption DEF Words
    <3> QED
      BY <3>1, <3>2
  <2> QED
    BY <1>2, <2>3, <2>4, <2>5 DEF ComparedWord
<1> QED
  BY <1>1, <1>2

---------------------------------------------------------------------------
(* The steps.                                                              *)

\* A boot starts as FuseCall does: nothing is blown, no call was made.
LEMMA StartsAsPromised == Init => Promise!CallInit
<1> SUFFICES ASSUME Init PROVE Promise!CallInit
  OBVIOUS
<1>1. TypeOK
  BY InitIInv DEF IInv
<1>2. Sense({}) = {}
  BY DEF Sense
<1> QED
  BY <1>1, <1>2, AskedValueType DEF Init, Promise!CallInit, CallOutcome, RefusedResults

\* Every step of a call, and a power loss, is a step that FuseCall allows.
LEMMA StepsAsPromised ==
    IInv /\ IInv' /\ [Next]_vars => [Promise!CallNext]_(Promise!callVars)
<1> SUFFICES ASSUME IInv, IInv', [Next]_vars, ~ UNCHANGED Promise!callVars
             PROVE  Promise!CallNext
  OBVIOUS
<1> USE DEF Return, macro, control, request, RefusedResults, Promise!CallNext, Promise!callVars
<1>1. ASSUME UNCHANGED << type, want, burnt, before >>, CallOutcome' = CallOutcome
      PROVE  FALSE
  BY <1>1, SameRequest
<1>2. CASE CallWithoutBuffer
  BY <1>2, SameRequest DEF CallWithoutBuffer, CallOutcome, Promise!RefuseAtOnce
<1>3. ASSUME NEW t \in Types, NEW v \in Requests[t], Call(t, v)
      PROVE  Promise!CallNext
  <2>1. CallOutcome # "pending" /\ CallOutcome' = "pending"
    BY <1>3 DEF Call, CallOutcome
  <2>2. AskedValue' \subseteq Regs \X Bits /\ ComparedWord' \subseteq Regs \X Bits
    <3>1. TypeOK'
      BY DEF IInv
    <3>2. (TypeOK => AskedValue \subseteq Regs \X Bits /\ ComparedWord \subseteq Regs \X Bits)'
      BY AskedValueType, PTL
    <3> QED
      BY <3>1, <3>2
  <2>3. Sense(before)' = Sense(burnt) /\ Sense(burnt)' = Sense(burnt)
    BY <1>3 DEF Call, Sense
  <2> QED
    BY <2>1, <2>2, <2>3 DEF Promise!Ask
<1>4. CASE RefuseSize \/ RefuseClearing \/ ComputeDelta \/ RefuseDisabled
  <2>1. burnt = before
    BY <1>4 DEF IInv, NothingYet, RefuseSize, RefuseClearing, ComputeDelta,
       RefuseDisabled, AtRow
  <2>2. UNCHANGED << type, want, burnt, before >> /\ CallOutcome = "pending"
    BY <1>4 DEF RefuseSize, RefuseClearing, ComputeDelta, RefuseDisabled, AtRow,
       CallOutcome
  <2>3. CallOutcome' \in {"pending", "refused"}
    BY <1>4 DEF RefuseSize, RefuseClearing, ComputeDelta, RefuseDisabled, AtRow,
       CallOutcome
  <2> QED
    BY <1>1, <2>1, <2>2, <2>3, SameRequest DEF Promise!Refuse, Promise!Answer
<1>5. CASE StrobeFails \/ WrapperBusy \/ ConfirmWithoutMemory
  <2>1. UNCHANGED << type, want, burnt, before >> /\ CallOutcome = "pending"
    BY <1>5 DEF StrobeFails, WrapperBusy, ConfirmWithoutMemory, OpenMacro, AtRow,
       CallOutcome
  <2>2. CallOutcome' = "failed"
    BY <1>5 DEF StrobeFails, WrapperBusy, ConfirmWithoutMemory, CallOutcome
  <2> QED
    BY <2>1, <2>2, SameRequest DEF Promise!Fail, Promise!Answer
<1>6. CASE SkipRow \/ StartBurn \/ PostProcess \/ FinishRows \/ DisableProgramming
  <2>1. UNCHANGED << type, want, burnt, before >> /\ CallOutcome' = CallOutcome
    BY <1>6 DEF SkipRow, AtRow, StartBurn, OpenMacro, PostProcess, FinishRows,
       DisableProgramming, CallOutcome
  <2> QED
    BY <1>1, <2>1
<1>7. CASE Burn
  <2>1. PICK cells \in SUBSET RowCells : burnt' = burnt \cup cells
    BY <1>7 DEF Burn
  <2>2. AskedValue' = AskedValue /\ ComparedWord' = ComparedWord
        /\ Sense(before)' = Sense(before)
    BY <1>7 DEF Burn, AskedValue, ComparedWord, Words, Sense
  <2>3. CallOutcome = "pending" /\ CallOutcome' = "pending"
    BY <1>7 DEF Burn, CallOutcome
  <2> QED
    BY <1>7, <2>1, <2>2, <2>3, RowGrows DEF Burn, Promise!Burn, Promise!Grow
<1>8. CASE Confirm
  <2>1. UNCHANGED << type, want, burnt, before >> /\ CallOutcome = "pending"
    BY <1>8 DEF Confirm, CallOutcome
  <2>2. CASE Raw(Read[type][1]) = want[1]
    <3>1. CallOutcome' = "ok"
      BY <1>8, <2>2 DEF Confirm, CallOutcome
    <3>2. Sense(burnt) \cap ComparedWord = AskedValue \cap ComparedWord
      BY <1>8, <2>2, ConfirmedWord DEF Confirm
    <3> QED
      BY <2>1, <3>1, <3>2, SameRequest DEF Promise!Succeed, Promise!Answer
  <2>3. CASE Raw(Read[type][1]) # want[1]
    <3>1. CallOutcome' = "failed"
      BY <1>8, <2>3 DEF Confirm, CallOutcome
    <3> QED
      BY <2>1, <3>1, SameRequest DEF Promise!Fail, Promise!Answer
  <2> QED
    BY <2>2, <2>3
<1>9. CASE PowerLoss
  <2>1. CallOutcome' = "none"
    BY <1>9 DEF PowerLoss, CallOutcome
  <2>2. AskedValue' = AskedValue /\ ComparedWord' = ComparedWord
        /\ Sense(before)' = Sense(before)
    BY <1>9 DEF PowerLoss, AskedValue, ComparedWord, Words, Sense
  <2>3. PICK cells \in SUBSET (IF pc = "burn" THEN RowCells ELSE {}) :
           burnt' = burnt \cup cells
    BY <1>9 DEF PowerLoss
  <2>4. CASE pc = "burn"
    <3>1. CallOutcome = "pending"
      BY <2>4 DEF CallOutcome
    <3> QED
      BY <2>1, <2>2, <2>3, <2>4, <3>1, RowGrows DEF Promise!Interrupt, Promise!Grow
  <2>5. CASE pc # "burn"
    <3>1. Sense(burnt)' = Sense(burnt)
      BY <2>3, <2>5 DEF Sense
    <3> QED
      BY <2>1, <2>2, <3>1 DEF Promise!Interrupt
  <2> QED
    BY <2>4, <2>5
<1>10. CASE UNCHANGED vars
  BY <1>1, <1>10 DEF vars, CallOutcome
<1> QED
  BY <1>2, <1>3, <1>4, <1>5, <1>6, <1>7, <1>8, <1>9, <1>10 DEF Next, CallStep

\* tegrabl_fuse_write implements FuseCall: only bits of the value asked for are
\* blown, a refusal has blown none, and success means that the word compared is
\* as asked, whatever the hardware and the power supply do.
THEOREM CallsKeepPromise == Spec => KeepsPromise
<1>1. Init => Promise!CallInit
  BY StartsAsPromised
<1>2. IInv /\ IInv' /\ [Next]_vars => [Promise!CallNext]_(Promise!callVars)
  BY StepsAsPromised
<1> QED
  BY <1>1, <1>2, Invariance, PTL DEF Spec, KeepsPromise, Promise!CallSpec
===============================================================================
