--------------------------- MODULE RollbackProofs ---------------------------
(***************************************************************************)
(* Proofs about Rollback for every width of a fuse, every set of images    *)
(* and any number of boots.  That images of any level never lead a fuse    *)
(* past the levels offered needs no assumption; that the ratchet holds     *)
(* needs levels that 1U << level can express.                              *)
(***************************************************************************)
EXTENDS Rollback, FiniteSetTheorems, TLAPS

---------------------------------------------------------------------------
(* The inductive invariant.                                                *)

\* A fuse write under way is for the level of the data in memory.
WriteOfLevel ==
    pc # "idle" =>
        /\ stage \in Stages /\ rb.fuseIdx \in 0 .. LastOdmFuse
        /\ asked = {rb.fuseIdx} \X LevelToFuseValue(rb.level)
        /\ compared = {rb.fuseIdx} \X Bit

\* So is the value left in the scratch register.
ScratchOfLevel == scratch = {} \/ scratch = LevelToFuseValue(rb.level)

LevelOffered ==
    stage # "off" /\ rb.fuseIdx \in Readable => rb.level <= offered[rb.fuseIdx]

\* Bit by bit, what NeverAheadOfImages says of the level.
BlownOffered == \A c \in blown : c[2] < offered[c[1]]

Bounded ==
    TypeOK /\ WriteOfLevel /\ ScratchOfLevel /\ LevelOffered /\ BlownOffered
           /\ OnlyOdmFusesBurnt

\* Levels that LevelToFuseValue and FuseValueToLevel take there and back.
LevelsFit ==
    \A img \in Images : img.level < FuseBits \/ (~ShiftWraps /\ img.level = FuseBits)

\* A level reported burnt is in the fuse.
RatchetBurnt == \A i \in Readable : ratchet[i] <= FuseValueToLevel(Value(i))

\* The image whose write is under way was compared with the fuse.
AheadOfRatchet ==
    /\ pc = "prevent" => rb.level >= ratchet[rb.fuseIdx]
    /\ verdict = "passed" => rb.fuseIdx \in Readable
    /\ stage # "off" => rb.level = image.level

Ratcheting == RatchetBurnt /\ AheadOfRatchet /\ RatchetHolds

---------------------------------------------------------------------------
(* Levels and fuse values.                                                 *)

LEMMA ShiftBounds ==
    ASSUME NEW level \in Nat
    PROVE  level % FuseBits \in Nat /\ level % FuseBits <= level
BY RollbackAssumption

LEMMA ShiftFits ==
    ASSUME NEW level \in Nat, level < FuseBits
    PROVE  level % FuseBits = level
BY RollbackAssumption

\* The value of a level has bits below it only.
LEMMA BitsOfLevel ==
    ASSUME NEW level \in Nat
    PROVE  /\ LevelToFuseValue(level) \subseteq Bit
           /\ \A b \in LevelToFuseValue(level) : b < level
BY ShiftBounds, RollbackAssumption DEF LevelToFuseValue, Bit

LEMMA PositionsFinite ==
    ASSUME NEW bits
    PROVE  /\ IsFiniteSet({n \in Bit : \E b \in bits : n <= b})
           /\ FuseValueToLevel(bits) \in Nat
<1>1. IsFiniteSet(Bit)
  BY FS_Interval, RollbackAssumption DEF Bit
<1>2. IsFiniteSet({n \in Bit : \E b \in bits : n <= b})
  BY <1>1, FS_Subset
<1> QED
  BY <1>2, FS_CardinalityType DEF FuseValueToLevel

\* More bits never count fewer levels.
LEMMA LevelGrows ==
    ASSUME NEW more, NEW bits \in SUBSET more
    PROVE  FuseValueToLevel(bits) <= FuseValueToLevel(more)
<1> DEFINE upTo(s) == {n \in Bit : \E b \in s : n <= b}
<1>1. upTo(bits) \subseteq upTo(more)
  OBVIOUS
<1>2. IsFiniteSet(upTo(more))
  BY PositionsFinite
<1> QED
  BY <1>1, <1>2, FS_Subset DEF FuseValueToLevel

\* Bits below a level count no more than it.
LEMMA LevelBelow ==
    ASSUME NEW bits \in SUBSET Bit, NEW level \in Nat, \A b \in bits : b < level
    PROVE  FuseValueToLevel(bits) <= level
<1> DEFINE upTo == {n \in Bit : \E b \in bits : n <= b}
<1>1. upTo \subseteq 0 .. level - 1
  BY RollbackAssumption DEF Bit
<1>2. IsFiniteSet(0 .. level - 1) /\ Cardinality(0 .. level - 1) = level
  BY FS_Interval
<1> QED
  BY <1>1, <1>2, FS_Subset DEF FuseValueToLevel

\* A level that fits comes back from its fuse value.
LEMMA LevelThereAndBack ==
    ASSUME NEW level \in Nat,
           level < FuseBits \/ (~ShiftWraps /\ level = FuseBits)
    PROVE  FuseValueToLevel(LevelToFuseValue(level)) = level
<1> DEFINE bits == LevelToFuseValue(level)
           upTo == {n \in Bit : \E b \in bits : n <= b}
<1>1. bits = 0 .. level - 1
  BY ShiftFits, RollbackAssumption DEF LevelToFuseValue, Bit
<1>2. upTo = 0 .. level - 1
  BY <1>1, RollbackAssumption DEF Bit
<1>3. Cardinality(0 .. level - 1) = level
  BY FS_Interval
<1> QED
  BY <1>2, <1>3 DEF FuseValueToLevel

---------------------------------------------------------------------------
(* Every step keeps the fuses within the levels offered.                   *)

LEMMA EnablingKeepsType ==
    ASSUME rb \in RollbackData, NEW on \in BOOLEAN
    PROVE  /\ [rb EXCEPT !.enabled = on] \in RollbackData
           /\ [rb EXCEPT !.enabled = on].level = rb.level
           /\ [rb EXCEPT !.enabled = on].fuseIdx = rb.fuseIdx
           /\ [rb EXCEPT !.enabled = on].limits = rb.limits
BY DEF RollbackData

LEMMA RaiseRaises ==
    ASSUME NEW levels \in [Readable -> Nat], NEW idx \in Nat, NEW n \in Nat
    PROVE  /\ Raise(levels, idx, n) \in [Readable -> Nat]
           /\ \A i \in Readable : levels[i] <= Raise(levels, idx, n)[i]
           /\ \A i \in Readable \ {idx} : Raise(levels, idx, n)[i] = levels[i]
           /\ idx \in Readable =>
                 n <= Raise(levels, idx, n)[idx]
                 /\ Raise(levels, idx, n)[idx] \in {n, levels[idx]}
BY RollbackAssumption DEF Raise

LEMMA BoundedAtFirst ==
    ASSUME Init PROVE Bounded
<1>1. TypeOK
  BY RollbackAssumption DEF Init, TypeOK, Verdicts, FuseWrite!CallInit
<1>2. WriteOfLevel /\ ScratchOfLevel /\ LevelOffered
  BY DEF Init, WriteOfLevel, ScratchOfLevel, LevelOffered
<1>3. BlownOffered /\ OnlyOdmFusesBurnt
  BY DEF Init, BlownOffered, OnlyOdmFusesBurnt, FuseWrite!CallInit
<1> QED
  BY <1>1, <1>2, <1>3 DEF Bounded

\* What a write under way may blow stays within the level offered, in a
\* reserved ODM fuse.
LEMMA AskedIsOffered ==
    ASSUME Bounded, pc # "idle"
    PROVE  \A c \in asked : /\ c \in Readable \X Bit
                            /\ c[1] <= LastOdmFuse
                            /\ c[2] < offered[c[1]]
<1>1. rb.level \in Nat /\ rb.fuseIdx \in Readable
  BY RollbackAssumption DEF Bounded, TypeOK, WriteOfLevel, RollbackData
<1>2. rb.level <= offered[rb.fuseIdx] /\ offered[rb.fuseIdx] \in Nat
  BY <1>1 DEF Bounded, TypeOK, WriteOfLevel, LevelOffered, Stages
<1>3. \A b \in LevelToFuseValue(rb.level) : b \in Bit /\ b < offered[rb.fuseIdx]
  BY <1>1, <1>2, BitsOfLevel, RollbackAssumption DEF Bit
<1> QED
  BY <1>1, <1>3, RollbackAssumption DEF Bounded, WriteOfLevel

LEMMA BurningStaysBounded ==
    ASSUME Bounded, pc # "idle", blown' \subseteq blown \cup asked,
           UNCHANGED offered
    PROVE  BlownOffered' /\ OnlyOdmFusesBurnt' /\ blown' \subseteq Readable \X Bit
<1>1. \A c \in blown' : c \in blown \/ c \in asked
  OBVIOUS
<1> QED
  BY <1>1, AskedIsOffered DEF Bounded, TypeOK, BlownOffered, OnlyOdmFusesBurnt

\* A step that leaves the fuses, the level and the scratch register alone
\* keeps the bounds.
LEMMA QuietStep ==
    ASSUME Bounded, UNCHANGED << fuseCall, offered, ratchet, pc >>,
           rb'.fuseIdx = rb.fuseIdx, rb'.level = rb.level, rb' \in RollbackData,
           pc # "idle" => stage' \in Stages,
           stage # "off", stage' \in Stages \cup {"hung"},
           scratch' \in {scratch, {}, LevelToFuseValue(rb.level)},
           UNCHANGED << image, production, boots >>, known' \in BOOLEAN,
           verdict' \in Verdicts, bypassed' \in BOOLEAN,
           accepted' \subseteq Limited \X BinaryLevels
    PROVE  Bounded'
<1>1. rb.level \in Nat
  BY DEF Bounded, TypeOK, RollbackData
<1>2. scratch' \subseteq Bit
  BY <1>1, BitsOfLevel DEF Bounded, TypeOK
<1>3. TypeOK'
  BY <1>2 DEF Bounded, TypeOK, fuseCall
<1>4. WriteOfLevel' /\ ScratchOfLevel'
  BY DEF Bounded, WriteOfLevel, ScratchOfLevel, fuseCall
<1>5. LevelOffered' /\ BlownOffered' /\ OnlyOdmFusesBurnt'
  BY DEF Bounded, LevelOffered, BlownOffered, OnlyOdmFusesBurnt, fuseCall
<1> QED
  BY <1>3, <1>4, <1>5 DEF Bounded

\* A write begins for a value of the level.
LEMMA StartStaysBounded ==
    ASSUME Bounded, Calling, NEW value, NEW caller \in {"prevent", "update"},
           value = LevelToFuseValue(rb.level), StartWrite(value, caller),
           UNCHANGED << boot, stage, rb, known, verdict, ratchet >>,
           scratch' \in {scratch, LevelToFuseValue(rb.level)}
    PROVE  Bounded'
<1>1. rb.level \in Nat /\ rb.fuseIdx \in 0 .. LastOdmFuse
  BY RollbackAssumption DEF Bounded, TypeOK, RollbackData, StartWrite
<1>2. rb.fuseIdx \in Readable /\ value \subseteq Bit
  BY <1>1, RollbackAssumption, BitsOfLevel
<1>3. asked' \subseteq Readable \X Bit /\ compared' \subseteq Readable \X Bit
  BY <1>2 DEF StartWrite
<1>4. scratch' \subseteq Bit
  BY <1>2 DEF Bounded, TypeOK
<1>5. TypeOK'
  BY <1>3, <1>4 DEF Bounded, TypeOK, StartWrite, FuseWrite!Ask, boot
<1>6. WriteOfLevel' /\ ScratchOfLevel'
  BY <1>1 DEF Bounded, WriteOfLevel, ScratchOfLevel, StartWrite, Calling
<1>7. LevelOffered' /\ BlownOffered' /\ OnlyOdmFusesBurnt'
  BY DEF Bounded, LevelOffered, BlownOffered, OnlyOdmFusesBurnt, StartWrite,
         FuseWrite!Ask, boot
<1> QED
  BY <1>5, <1>6, <1>7 DEF Bounded

\* A write ends, whatever its outcome.
LEMMA EndStaysBounded ==
    ASSUME Bounded, WriteEnds, UNCHANGED << boot, blown, asked, compared, begun >>,
           outcome' \in {"ok", "refused", "failed"}, ratchet' \in [Readable -> Nat]
    PROVE  Bounded'
<1>1. TypeOK'
  BY DEF Bounded, TypeOK, WriteEnds, Writing, Verdicts, boot
<1>2. WriteOfLevel' /\ ScratchOfLevel'
  BY DEF Bounded, WriteOfLevel, ScratchOfLevel, WriteEnds
<1>3. LevelOffered' /\ BlownOffered' /\ OnlyOdmFusesBurnt'
  BY DEF Bounded, LevelOffered, BlownOffered, OnlyOdmFusesBurnt, WriteEnds, boot
<1> QED
  BY <1>1, <1>2, <1>3 DEF Bounded

LEMMA PowerOnStaysBounded ==
    ASSUME Bounded, NEW img \in Images, PowerOn(img)
    PROVE  Bounded'
<1>1. img \in RollbackData /\ img.level \in Nat /\ img.fuseIdx \in Nat
  BY RollbackAssumption DEF RollbackData
<1>2. /\ offered' \in [Readable -> Nat]
      /\ \A i \in Readable : offered[i] <= offered'[i]
      /\ img.fuseIdx \in Readable => img.level <= offered'[img.fuseIdx]
  BY <1>1, RaiseRaises DEF Bounded, TypeOK, PowerOn
<1>3. TypeOK'
  <2>1. /\ stage' \in Stages /\ image' \in Images /\ rb' \in RollbackData
        /\ known' \in BOOLEAN /\ bypassed' \in BOOLEAN /\ verdict' \in Verdicts
        /\ scratch' = {} /\ accepted' = {} /\ boots' = boots + 1
        /\ UNCHANGED << fuseCall, production, pc, ratchet >>
    BY <1>1 DEF PowerOn, Stages, Verdicts
  <2> QED
    BY <1>2, <2>1 DEF Bounded, TypeOK, fuseCall
<1>4. WriteOfLevel' /\ ScratchOfLevel'
  BY DEF Bounded, WriteOfLevel, ScratchOfLevel, PowerOn, fuseCall, TypeOK, Stages
<1>5. LevelOffered'
  BY <1>2 DEF LevelOffered, PowerOn
<1>6. BlownOffered' /\ OnlyOdmFusesBurnt'
  <2>1. \A c \in blown : c[1] \in Readable /\ c[2] \in Nat
    BY RollbackAssumption DEF Bounded, TypeOK, Bit
  <2>2. \A i \in Readable : offered[i] \in Nat /\ offered'[i] \in Nat
    BY <1>2 DEF Bounded, TypeOK
  <2>3. BlownOffered'
    BY <1>2, <2>1, <2>2 DEF Bounded, BlownOffered, PowerOn, fuseCall
  <2> QED
    BY <2>3 DEF Bounded, OnlyOdmFusesBurnt, PowerOn, fuseCall
<1> QED
  BY <1>3, <1>4, <1>5, <1>6 DEF Bounded

LEMMA PowerOffStaysBounded ==
    ASSUME Bounded, PowerOff
    PROVE  Bounded'
<1>1. blown' \subseteq blown \cup asked /\ (pc = "idle" => blown' = blown)
  BY DEF PowerOff
<1>2. BlownOffered' /\ OnlyOdmFusesBurnt' /\ blown' \subseteq Readable \X Bit
  BY <1>1, BurningStaysBounded
     DEF Bounded, TypeOK, PowerOff, BlownOffered, OnlyOdmFusesBurnt
<1>3. TypeOK'
  BY <1>2 DEF Bounded, TypeOK, PowerOff, FuseWrite!Interrupt, Verdicts
<1>4. WriteOfLevel' /\ ScratchOfLevel' /\ LevelOffered'
  BY DEF Bounded, WriteOfLevel, ScratchOfLevel, LevelOffered, PowerOff
<1> QED
  BY <1>2, <1>3, <1>4 DEF Bounded

LEMMA BoundedKept ==
    ASSUME Bounded, [Next]_vars
    PROVE  Bounded'
<1> USE DEF Calling
<1>1. CASE \E img \in Images : PowerOn(img)
  BY <1>1, PowerOnStaysBounded
<1>2. CASE PowerOff
  BY <1>2, PowerOffStaysBounded
<1>3. CASE NextStage
  BY <1>3, QuietStep DEF Bounded, TypeOK, NextStage, boot, Stages
<1>4. CASE InitEnforced
  <2>1. /\ rb' = [rb EXCEPT !.enabled = TRUE]
        /\ scratch' = LevelToFuseValue(rb.level)
    BY <1>4 DEF InitEnforced
  <2>2. rb' \in RollbackData /\ rb'.fuseIdx = rb.fuseIdx /\ rb'.level = rb.level
    BY <2>1, EnablingKeepsType DEF Bounded, TypeOK
  <2> QED
    BY <1>4, <2>1, <2>2, QuietStep
       DEF Bounded, TypeOK, InitEnforced, boot, Stages
<1>5. CASE InitRefused \/ InitNotEnforced
  BY <1>5, QuietStep DEF Bounded, TypeOK, InitRefused, InitNotEnforced, boot, Stages
<1>6. CASE PreventWithoutData \/ PreventDisabled \/ PreventUnreadable
  BY <1>6, QuietStep
     DEF Bounded, TypeOK, PreventWithoutData, PreventDisabled, PreventUnreadable,
         Preventing, boot, Stages, Verdicts
<1>7. CASE PreventStale \/ PreventCurrent \/ PreventAheadUnsupported
  BY <1>7, QuietStep
     DEF Bounded, TypeOK, PreventStale, PreventCurrent, PreventAheadUnsupported,
         Comparing, Preventing, boot, Stages, Verdicts
<1>8. CASE PreventAhead
  BY <1>8, StartStaysBounded DEF PreventAhead, Comparing, Preventing
<1>9. CASE UpdateFuse
  <2>1. scratch = LevelToFuseValue(rb.level)
    BY <1>9 DEF UpdateFuse, Bounded, ScratchOfLevel
  <2> QED
    BY <1>9, <2>1, StartStaysBounded DEF UpdateFuse
<1>10. CASE WriteGoesOn
  <2>1. BlownOffered' /\ OnlyOdmFusesBurnt' /\ blown' \subseteq Readable \X Bit
    BY <1>10, BurningStaysBounded DEF WriteGoesOn, Writing, boot
  <2>2. TypeOK'
    BY <1>10, <2>1 DEF Bounded, TypeOK, WriteGoesOn, FuseWrite!Burn, boot
  <2>3. WriteOfLevel' /\ ScratchOfLevel' /\ LevelOffered'
    BY <1>10 DEF Bounded, WriteOfLevel, ScratchOfLevel, LevelOffered,
                 WriteGoesOn, FuseWrite!Burn, boot
  <2> QED
    BY <2>1, <2>2, <2>3 DEF Bounded
<1>11. CASE WriteDone
  <2>1. rb.fuseIdx \in Nat /\ rb.level \in Nat
    BY DEF Bounded, TypeOK, RollbackData
  <2>2. ratchet' \in [Readable -> Nat]
    BY <1>11, <2>1, RaiseRaises DEF Bounded, TypeOK, WriteDone, Ratchets
  <2> QED
    BY <1>11, <2>2, EndStaysBounded
       DEF WriteDone, WriteEnds, FuseWrite!Succeed, FuseWrite!Answer
<1>12. CASE WriteNotDone
  BY <1>12, EndStaysBounded
     DEF Bounded, TypeOK, WriteNotDone, WriteEnds, FuseWrite!Refuse,
         FuseWrite!Fail, FuseWrite!Answer
<1>13. CASE \E token \in Tokens : Bypass(token)
  <2>1. PICK token \in Tokens : Bypass(token)
    BY <1>13
  <2>2. rb' = [rb EXCEPT !.enabled = FALSE]
    BY <2>1 DEF Bypass
  <2>3. rb' \in RollbackData /\ rb'.fuseIdx = rb.fuseIdx /\ rb'.level = rb.level
    BY <2>2, EnablingKeepsType DEF Bounded, TypeOK
  <2>4. bypassed' \in BOOLEAN
    BY <2>1 DEF Bypass, Bounded, TypeOK
  <2> QED
    BY <2>1, <2>3, <2>4, QuietStep DEF Bounded, TypeOK, Bypass, Stages
<1>14. CASE DisableOnInternalDevice
  <2>1. rb' = [rb EXCEPT !.enabled = FALSE]
    BY <1>14 DEF DisableOnInternalDevice
  <2>2. rb' \in RollbackData /\ rb'.fuseIdx = rb.fuseIdx /\ rb'.level = rb.level
    BY <2>1, EnablingKeepsType DEF Bounded, TypeOK
  <2> QED
    BY <1>14, <2>2, QuietStep
       DEF Bounded, TypeOK, DisableOnInternalDevice, boot, Stages
<1>15. CASE \E type \in BinaryTypes, level \in BinaryLevels :
               AcceptBinary(type, level) \/ RefuseBinary(type, level)
  <2>1. PICK type \in BinaryTypes, level \in BinaryLevels :
               AcceptBinary(type, level) \/ RefuseBinary(type, level)
    BY <1>15
  <2>2. CASE AcceptBinary(type, level)
    <3>1. accepted' \subseteq Limited \X BinaryLevels
      BY <2>2 DEF AcceptBinary, Bounded, TypeOK
    <3> QED
      BY <2>2, <3>1, QuietStep DEF Bounded, TypeOK, AcceptBinary, Stages
  <2>3. CASE RefuseBinary(type, level)
    BY <2>3, QuietStep DEF Bounded, TypeOK, RefuseBinary, boot, Stages
  <2> QED
    BY <2>1, <2>2, <2>3
<1>16. CASE UNCHANGED vars
  BY <1>16 DEF vars, fuseCall, Bounded, TypeOK, WriteOfLevel, ScratchOfLevel,
               LevelOffered, BlownOffered, OnlyOdmFusesBurnt
<1> QED
  BY <1>1, <1>2, <1>3, <1>4, <1>5, <1>6, <1>7, <1>8, <1>9, <1>10, <1>11, <1>12,
     <1>13, <1>14, <1>15, <1>16 DEF Next

\* The bounds hold in every reachable state, whatever the levels of the images.
THEOREM StaysBounded == Spec => []Bounded
BY BoundedAtFirst, BoundedKept, PTL DEF Spec

\* Every variable keeps its type.
THEOREM TypeCorrect == Spec => []TypeOK
<1>1. Bounded => TypeOK
  BY DEF Bounded
<1> QED
  BY <1>1, StaysBounded, PTL

\* tegrabl_update_rollback_fuse burns reserved ODM fuses only, whatever index
\* an image brings.
THEOREM OnlyOdmFuses == Spec => []OnlyOdmFusesBurnt
<1>1. Bounded => OnlyOdmFusesBurnt
  BY DEF Bounded
<1> QED
  BY <1>1, StaysBounded, PTL

\* However burns are interrupted, repeated or left to a later stage, the fuse
\* counts no more levels than the images booted so far brought.
THEOREM NeverLocksTheNewestOut == Spec => []NeverAheadOfImages
<1>1. ASSUME Bounded PROVE NeverAheadOfImages
  <2> SUFFICES ASSUME NEW i \in Readable
               PROVE  FuseValueToLevel(Value(i)) <= offered[i]
    BY DEF NeverAheadOfImages
  <2>1. Value(i) \in SUBSET Bit /\ \A b \in Value(i) : b < offered[i]
    BY <1>1 DEF Bounded, BlownOffered, Value
  <2>2. offered[i] \in Nat
    BY <1>1 DEF Bounded, TypeOK
  <2> QED
    BY <2>1, <2>2, LevelBelow
<1> QED
  BY <1>1, StaysBounded, PTL

---------------------------------------------------------------------------
(* The ratchet.                                                            *)

LEMMA RatchetTypes ==
    ASSUME Bounded
    PROVE  /\ rb.level \in Nat /\ rb.fuseIdx \in Nat
           /\ \A i \in Readable : ratchet[i] \in Nat
           /\ \A i : FuseValueToLevel(Value(i)) \in Nat
BY PositionsFinite DEF Bounded, TypeOK, RollbackData

\* Blown bits only add up, and so do the levels they count.
LEMMA RatchetStaysBurnt ==
    ASSUME Bounded, RatchetBurnt, blown \subseteq blown', UNCHANGED ratchet
    PROVE  RatchetBurnt'
<1> SUFFICES ASSUME NEW i \in Readable
             PROVE  ratchet[i] <= FuseValueToLevel(Value(i)')
  BY DEF RatchetBurnt
<1>1. Value(i) \subseteq Value(i)'
  BY DEF Value
<1>2. FuseValueToLevel(Value(i)) <= FuseValueToLevel(Value(i)')
  BY <1>1, LevelGrows
<1>3. FuseValueToLevel(Value(i)') \in Nat
  BY PositionsFinite
<1> QED
  BY <1>2, <1>3, RatchetTypes DEF RatchetBurnt

\* A step that changes neither the level, nor the ratchet, nor the verdict.
LEMMA RatchetQuiet ==
    ASSUME Bounded, Ratcheting, blown \subseteq blown', UNCHANGED ratchet,
           pc' \in {pc, "idle", "update"}, verdict' = verdict \/ verdict' # "passed",
           \/ pc' # "prevent" /\ verdict' # "passed"
           \/ rb'.fuseIdx = rb.fuseIdx /\ rb'.level = rb.level,
           stage' # "off" => rb'.level = image'.level
    PROVE  Ratcheting'
<1>1. RatchetBurnt'
  BY RatchetStaysBurnt DEF Ratcheting
<1>2. AheadOfRatchet'
  BY DEF Ratcheting, AheadOfRatchet
<1>3. RatchetHolds'
  BY DEF Ratcheting, RatchetHolds
<1> QED
  BY <1>1, <1>2, <1>3 DEF Ratcheting

\* A comparison that lets the image go on.
LEMMA RatchetCompared ==
    ASSUME Bounded, Ratcheting, Comparing, rb.level >= HwLevel,
           blown' = blown, UNCHANGED << boot, stage, rb, ratchet >>,
           pc' \in {pc, "prevent"}, verdict' \in {verdict, "passed"}
    PROVE  Ratcheting'
<1>1. rb.fuseIdx \in Readable
  BY DEF Comparing
<1>2. ratchet[rb.fuseIdx] <= HwLevel
  BY <1>1 DEF Ratcheting, RatchetBurnt, HwLevel
<1>3. rb.level >= ratchet[rb.fuseIdx]
  BY <1>1, <1>2, RatchetTypes DEF HwLevel
<1>4. RatchetBurnt'
  BY RatchetStaysBurnt DEF Ratcheting
<1>5. AheadOfRatchet'
  BY <1>1, <1>3 DEF Ratcheting, AheadOfRatchet, boot
<1>6. RatchetHolds'
  BY <1>3 DEF RatchetHolds
<1> QED
  BY <1>4, <1>5, <1>6 DEF Ratcheting

\* A write that is done has put its level into the fuse.
LEMMA DoneIsBurnt ==
    ASSUME LevelsFit, Bounded, Ratcheting, WriteDone
    PROVE  FuseValueToLevel(Value(rb.fuseIdx)) = rb.level
<1>1. Value(rb.fuseIdx) = LevelToFuseValue(rb.level)
  <2>1. /\ rb.fuseIdx \in Readable
        /\ asked = {rb.fuseIdx} \X LevelToFuseValue(rb.level)
        /\ compared = {rb.fuseIdx} \X Bit
    BY RollbackAssumption DEF WriteDone, WriteEnds, Writing, Bounded, WriteOfLevel
  <2>2. blown \cap compared = asked \cap compared
    BY DEF WriteDone, FuseWrite!Succeed
  <2>3. LevelToFuseValue(rb.level) \subseteq Bit
    BY RatchetTypes, BitsOfLevel
  <2>4. \A b \in Bit : << rb.fuseIdx, b >> \in blown <=> << rb.fuseIdx, b >> \in asked
    BY <2>1, <2>2
  <2>5. \A b \in Bit : << rb.fuseIdx, b >> \in asked <=> b \in LevelToFuseValue(rb.level)
    BY <2>1
  <2> QED
    BY <2>3, <2>4, <2>5 DEF Value
<1>2. image \in Images /\ rb.level = image.level
  BY DEF Bounded, TypeOK, Ratcheting, AheadOfRatchet, WriteDone, WriteEnds,
         Writing, Stages
<1> QED
  BY <1>1, <1>2, RatchetTypes, LevelThereAndBack DEF LevelsFit

LEMMA RatchetEnds ==
    ASSUME LevelsFit, Bounded, Ratcheting, WriteDone
    PROVE  Ratcheting'
<1>1. rb.fuseIdx \in Readable /\ rb' = rb /\ blown' = blown /\ pc' = "idle"
  BY RollbackAssumption
     DEF WriteDone, WriteEnds, Writing, Bounded, WriteOfLevel, FuseWrite!Succeed,
         FuseWrite!Answer
<1>2. /\ \A i \in Readable \ {rb.fuseIdx} : ratchet'[i] = ratchet[i]
      /\ ratchet'[rb.fuseIdx] \in {rb.level, ratchet[rb.fuseIdx]}
  <2>1. ratchet \in [Readable -> Nat] /\ rb.fuseIdx \in Nat /\ rb.level \in Nat
    BY RatchetTypes DEF Bounded, TypeOK
  <2>2. ratchet' = Raise(ratchet, rb.fuseIdx, rb.level)
    BY DEF WriteDone, Ratchets
  <2> QED
    BY <1>1, <2>1, <2>2 DEF Raise
<1>3. RatchetBurnt'
  <2> SUFFICES ASSUME NEW i \in Readable
               PROVE  ratchet'[i] <= FuseValueToLevel(Value(i)')
    BY DEF RatchetBurnt
  <2>1. Value(i)' = Value(i)
    BY <1>1 DEF Value
  <2> QED
    BY <1>2, <2>1, DoneIsBurnt, RatchetTypes DEF Ratcheting, RatchetBurnt
<1>4. verdict' = "passed" => rb.level >= ratchet[rb.fuseIdx]
  BY DEF WriteDone, WriteEnds, Ratcheting, AheadOfRatchet, RatchetHolds
<1>5. RatchetHolds'
  BY <1>1, <1>2, <1>4, RatchetTypes DEF RatchetHolds
<1>6. AheadOfRatchet'
  BY <1>1 DEF Ratcheting, AheadOfRatchet, WriteDone, WriteEnds, boot
<1> QED
  BY <1>3, <1>5, <1>6 DEF Ratcheting

LEMMA RatchetKept ==
    ASSUME LevelsFit, Bounded, Ratcheting, [Next]_vars
    PROVE  Ratcheting'
<1> USE DEF Calling
<1>1. CASE \E img \in Images : PowerOn(img)
  <2>1. pc = "idle"
    BY <1>1 DEF PowerOn, Bounded, WriteOfLevel, Stages
  <2> QED
    BY <1>1, <2>1, RatchetQuiet DEF PowerOn, fuseCall
<1>2. CASE PowerOff
  BY <1>2, RatchetQuiet DEF PowerOff
<1>3. CASE NextStage \/ InitRefused \/ InitNotEnforced
  BY <1>3, RatchetQuiet
     DEF NextStage, InitRefused, InitNotEnforced, boot, fuseCall, Ratcheting,
         AheadOfRatchet, Stages
<1>4. CASE InitEnforced
  <2>1. rb' = [rb EXCEPT !.enabled = TRUE]
    BY <1>4 DEF InitEnforced
  <2>2. rb'.fuseIdx = rb.fuseIdx /\ rb'.level = rb.level
    BY <2>1, EnablingKeepsType DEF Bounded, TypeOK
  <2> QED
    BY <1>4, <2>2, RatchetQuiet
       DEF InitEnforced, boot, fuseCall, Ratcheting, AheadOfRatchet, Stages
<1>5. CASE PreventWithoutData \/ PreventDisabled \/ PreventUnreadable \/ PreventStale
  BY <1>5, RatchetQuiet
     DEF PreventWithoutData, PreventDisabled, PreventUnreadable, PreventStale,
         Comparing, Preventing, boot, fuseCall, Ratcheting, AheadOfRatchet, Stages
<1>6. CASE PreventCurrent
  BY <1>6, RatchetCompared, RatchetTypes DEF PreventCurrent, fuseCall, HwLevel
<1>7. CASE PreventAheadUnsupported
  BY <1>7, RatchetCompared, RatchetTypes
     DEF PreventAheadUnsupported, fuseCall, HwLevel
<1>8. CASE PreventAhead
  BY <1>8, RatchetCompared, RatchetTypes
     DEF PreventAhead, StartWrite, FuseWrite!Ask, HwLevel
<1>9. CASE UpdateFuse
  BY <1>9, RatchetQuiet
     DEF UpdateFuse, StartWrite, FuseWrite!Ask, boot, Ratcheting, AheadOfRatchet,
         Stages
<1>10. CASE WriteGoesOn
  BY <1>10, RatchetQuiet
     DEF WriteGoesOn, FuseWrite!Burn, FuseWrite!Grow, boot, Ratcheting,
         AheadOfRatchet, Writing, Stages
<1>11. CASE WriteDone
  BY <1>11, RatchetEnds
<1>12. CASE WriteNotDone
  <2>1. /\ pc # "idle" /\ stage \in Stages /\ pc' = "idle" /\ UNCHANGED ratchet
        /\ verdict' = IF pc = "prevent" THEN "passed" ELSE verdict
        /\ UNCHANGED << boot, stage, rb, blown >>
    BY <1>12 DEF WriteNotDone, WriteEnds, Writing, FuseWrite!Refuse, FuseWrite!Fail,
                 FuseWrite!Answer
  <2>2. rb.fuseIdx \in Readable
    BY <2>1, RollbackAssumption DEF Bounded, WriteOfLevel
  <2>3. RatchetBurnt'
    BY <2>1, RatchetStaysBurnt DEF Ratcheting
  <2>4. AheadOfRatchet'
    BY <2>1, <2>2 DEF Ratcheting, AheadOfRatchet, boot
  <2>5. RatchetHolds'
    BY <2>1 DEF Ratcheting, AheadOfRatchet, RatchetHolds
  <2> QED
    BY <2>3, <2>4, <2>5 DEF Ratcheting
<1>13. CASE \E token \in Tokens : Bypass(token)
  <2>1. PICK token \in Tokens : Bypass(token)
    BY <1>13
  <2>2. rb' = [rb EXCEPT !.enabled = FALSE]
    BY <2>1 DEF Bypass
  <2>3. rb'.fuseIdx = rb.fuseIdx /\ rb'.level = rb.level
    BY <2>2, EnablingKeepsType DEF Bounded, TypeOK
  <2> QED
    BY <2>1, <2>3, RatchetQuiet
       DEF Bypass, fuseCall, Ratcheting, AheadOfRatchet, Stages
<1>14. CASE DisableOnInternalDevice
  <2>1. rb' = [rb EXCEPT !.enabled = FALSE]
    BY <1>14 DEF DisableOnInternalDevice
  <2>2. rb'.fuseIdx = rb.fuseIdx /\ rb'.level = rb.level
    BY <2>1, EnablingKeepsType DEF Bounded, TypeOK
  <2> QED
    BY <1>14, <2>2, RatchetQuiet
       DEF DisableOnInternalDevice, boot, fuseCall, Ratcheting, AheadOfRatchet,
           Stages
<1>15. CASE \E type \in BinaryTypes, level \in BinaryLevels :
               AcceptBinary(type, level) \/ RefuseBinary(type, level)
  BY <1>15, RatchetQuiet
     DEF AcceptBinary, RefuseBinary, boot, fuseCall, Ratcheting, AheadOfRatchet,
         Stages
<1>16. CASE UNCHANGED vars
  BY <1>16, RatchetQuiet DEF vars, boot, fuseCall, Ratcheting, AheadOfRatchet
<1> QED
  BY <1>1, <1>2, <1>3, <1>4, <1>5, <1>6, <1>7, <1>8, <1>9, <1>10, <1>11, <1>12,
     <1>13, <1>14, <1>15, <1>16 DEF Next

\* With levels that the shift can express, an image that passes is not behind
\* any image whose level was reported burnt into the same fuse.
THEOREM RatchetNeverTurns ==
    ASSUME LevelsFit
    PROVE  Spec => []RatchetHolds
<1>1. Init => Ratcheting
  <2> SUFFICES ASSUME Init PROVE Ratcheting
    OBVIOUS
  <2>1. Bounded
    BY BoundedAtFirst
  <2>2. RatchetBurnt
    BY <2>1, RatchetTypes DEF Init, RatchetBurnt
  <2> QED
    BY <2>2 DEF Init, Ratcheting, AheadOfRatchet, RatchetHolds
<1>2. Bounded /\ Ratcheting /\ [Next]_vars => Ratcheting'
  BY RatchetKept
<1>3. Ratcheting => RatchetHolds
  BY DEF Ratcheting
<1> QED
  BY <1>1, <1>2, <1>3, StaysBounded, PTL DEF Spec

---------------------------------------------------------------------------
(* The limits of binaries.                                                 *)

\* On a production device only an accepted token turns rollback prevention off
\* in a stage that enforces it.
EnabledUnlessBypassed ==
    production /\ ~bypassed /\ known /\ stage \in Enforced => rb.enabled

Limiting == EnabledUnlessBypassed /\ LimitsEnforced

LEMMA LimitsKept ==
    ASSUME Bounded, Limiting, [Next]_vars
    PROVE  Limiting'
<1> USE DEF Calling, Limiting, EnabledUnlessBypassed, LimitsEnforced, boot
<1>1. CASE (\E img \in Images : PowerOn(img)) \/ PowerOff
  BY <1>1 DEF PowerOn, PowerOff
<1>2. CASE NextStage \/ InitRefused \/ InitNotEnforced
  BY <1>2 DEF NextStage, InitRefused, InitNotEnforced
<1>3. CASE InitEnforced
  <2>1. rb'.enabled = TRUE /\ rb'.limits = rb.limits
    BY <1>3, EnablingKeepsType DEF InitEnforced, Bounded, TypeOK, RollbackData
  <2> QED
    BY <1>3, <2>1 DEF InitEnforced
<1>4. CASE PreventWithoutData \/ PreventDisabled \/ PreventUnreadable \/ PreventStale
             \/ PreventCurrent \/ PreventAhead \/ PreventAheadUnsupported
  BY <1>4
     DEF PreventWithoutData, PreventDisabled, PreventUnreadable, PreventStale,
         PreventCurrent, PreventAhead, PreventAheadUnsupported, StartWrite,
         Comparing, Preventing
<1>5. CASE UpdateFuse \/ WriteGoesOn \/ WriteDone \/ WriteNotDone
  BY <1>5 DEF UpdateFuse, StartWrite, WriteGoesOn, WriteDone, WriteNotDone, WriteEnds
<1>6. CASE \E token \in Tokens : Bypass(token)
  <2>1. PICK token \in Tokens : Bypass(token)
    BY <1>6
  <2>2. rb' = [rb EXCEPT !.enabled = FALSE] /\ bypassed' = TRUE
    BY <2>1 DEF Bypass, Accepts
  <2> QED
    BY <2>2
<1>7. CASE DisableOnInternalDevice
  <2>1. ~production' /\ production' = production
    BY <1>7 DEF DisableOnInternalDevice
  <2> QED
    BY <2>1
<1>8. CASE \E type \in BinaryTypes, level \in BinaryLevels :
              AcceptBinary(type, level) \/ RefuseBinary(type, level)
  <2>1. PICK type \in BinaryTypes, level \in BinaryLevels :
               AcceptBinary(type, level) \/ RefuseBinary(type, level)
    BY <1>8
  <2>2. CASE AcceptBinary(type, level)
    <3>1. UNCHANGED << production, bypassed, known, stage, rb >>
      BY <2>2 DEF AcceptBinary
    <3>2. ASSUME production, ~bypassed, NEW a \in accepted'
          PROVE  a[2] >= rb.limits[a[1]]
      <4>1. CASE a \in accepted
        BY <3>2, <4>1
      <4>2. CASE a \notin accepted
        <5>1. a = << type, level >> /\ known /\ stage \in Enforced /\ type \in Limited
          BY <2>2, <3>2, <4>2 DEF AcceptBinary
        <5>2. rb.enabled
          BY <3>2, <5>1
        <5> QED
          BY <2>2, <5>1, <5>2 DEF AcceptBinary, BinaryAllowed
      <4> QED
        BY <4>1, <4>2
    <3> QED
      BY <3>1, <3>2
  <2>3. CASE RefuseBinary(type, level)
    BY <2>3, RollbackAssumption DEF RefuseBinary, Stages
  <2> QED
    BY <2>1, <2>2, <2>3
<1>9. CASE UNCHANGED vars
  BY <1>9 DEF vars
<1> QED
  BY <1>1, <1>2, <1>3, <1>4, <1>5, <1>6, <1>7, <1>8, <1>9 DEF Next

\* On a production device no binary below its limit is accepted by a stage that
\* enforces it, unless a valid token was presented in this boot.
THEOREM LimitsHold == Spec => []LimitsEnforced
<1>1. Init => Limiting
  BY DEF Init, Limiting, EnabledUnlessBypassed, LimitsEnforced
<1>2. Bounded /\ Limiting /\ [Next]_vars => Limiting'
  BY LimitsKept
<1>3. Limiting => LimitsEnforced
  BY DEF Limiting
<1> QED
  BY <1>1, <1>2, <1>3, StaysBounded, PTL DEF Spec

===============================================================================
