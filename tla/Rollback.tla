------------------------------ MODULE Rollback ------------------------------
(***************************************************************************)
(* tegrabl_prevent_rollback.c over the boots of a device.                  *)
(*                                                                         *)
(* A boot image brings rollback data: its level, the levels its binaries   *)
(* need, and the index of the reserved ODM fuse that counts levels, one    *)
(* bit for each.  A stage of the boot initialises the data, MB1 compares   *)
(* its level with the fuse, refuses an image that is behind and burns the  *)
(* fuse for one that is ahead, and every stage checks the binaries it      *)
(* loads.  The burn is a call of tegrabl_fuse_write, by its promise        *)
(* (FuseCall).  Fuses survive a power loss; everything else is the boot's. *)
(***************************************************************************)
EXTENDS Integers, FiniteSets

CONSTANTS
    FuseBits,       \* the bits of a fuse word (32)
    ShiftWraps,     \* what the build makes of 1U << level beyond them
    LastOdmFuse,    \* the last index that names a reserved ODM fuse (7)
    Readable,       \* the indices tegrabl_fuse_read finds a word for
    Images,         \* the rollback data of the images a device may be given
    Limited,        \* the binary types that have a limit
    BinaryTypes,    \* all of them
    BinaryLevels,   \* fw_ratchet_level of the binaries a device may be given
    Enforced,       \* the stages built with CONFIG_ENFORCE_ROLLBACK_ENBALED
    MaxBoots        \* bound on the boots of a behaviour

Stages == { "mb1", "later" }
Tokens == { "valid", "badMagic", "otherVersion", "otherDevice", "badSignature" }
Bit == 0 .. FuseBits - 1
RollbackData == [version : Nat, enabled : BOOLEAN, level : Nat, fuseIdx : Nat,
                 limits : [Limited -> Nat]]

ASSUME RollbackAssumption ==
    /\ FuseBits \in Nat \ {0} /\ LastOdmFuse \in Nat /\ MaxBoots \in Nat
    /\ ShiftWraps \in BOOLEAN
    /\ Readable \subseteq Nat /\ 0 .. LastOdmFuse \subseteq Readable
    /\ Images \subseteq RollbackData
    /\ Limited \subseteq BinaryTypes /\ BinaryLevels \subseteq Nat
    /\ Enforced \subseteq Stages

VARIABLES
    blown,          \* fuse bits that are blown, as <<index, bit>>
    asked, compared, begun, outcome,    \* the call of tegrabl_fuse_write
    production,     \* fuse_is_nv_production_mode
    stage,          \* the stage that runs; "off" and "hung" are none
    rb,             \* the rollback data in memory, passed from stage to stage
    image,          \* the data as the image brought it
    known,          \* rb_data of the running stage points to it
    scratch,        \* SECURE_RSV56_SCRATCH_0, as the bits of a fuse value (the next
                    \* register repeats the index)
    pc,             \* "idle", or the caller of the fuse write under way
    verdict,        \* what tegrabl_prevent_rollback returned in this boot
    bypassed,       \* history: a valid token was accepted in this boot
    accepted,       \* history: binaries with a limit accepted in this boot
                    \* by a stage that enforces it, as <<type, level>>
    offered,        \* history: highest level an image booted with, by fuse
    ratchet,        \* history: highest level whose burn was reported done
    boots

fuseCall == << blown, asked, compared, begun, outcome >>
boot == << production, image, bypassed, accepted, offered, boots >>
vars == << fuseCall, production, stage, rb, image, known, scratch, pc, verdict,
           bypassed, accepted, offered, ratchet, boots >>

FuseWrite == INSTANCE FuseCall WITH Cells <- Readable \X Bit

---------------------------------------------------------------------------
(* Levels and fuse values.                                                 *)

Value(idx) == {b \in Bit : << idx, b >> \in blown}

\* Mutant of FuseValueToLevel: it counts the bits that are set.
FuseValueToLevelCounted(bits) == Cardinality(bits)

\* tegrabl_rollback_fusevalue_to_level shifts the value right until it is zero:
\* it counts the positions up to the highest bit set.
FuseValueToLevel(bits) == Cardinality({n \in Bit : \E b \in bits : n <= b})

\* Mutant of LevelToFuseValue: 1U << level, without the - 1.
LevelToFuseValueShifted(level) == {b \in Bit : b = level}

\* Mutant of LevelToFuseValue: one bit too many, past the end of the word.
LevelToFuseValueWide(level) == 0 .. level

\* tegrabl_rollback_level_to_fusevalue: (1U << level) - 1.  The shift is not
\* defined when level reaches the width: it takes the level modulo the width
\* on some processors, and shifts every bit out on others.
LevelToFuseValue(level) ==
    {b \in Bit : b < IF ShiftWraps THEN level % FuseBits ELSE level}

HwLevel == FuseValueToLevel(Value(rb.fuseIdx))

---------------------------------------------------------------------------
(* Power, and the order of the stages, which callers decide.               *)

Init ==
    /\ asked = {} /\ compared = {} /\ FuseWrite!CallInit
    /\ production \in BOOLEAN
    /\ stage = "off" /\ known = FALSE /\ pc = "idle"
    /\ image \in Images /\ rb = image
    /\ scratch = {} /\ verdict = "none"
    /\ bypassed = FALSE /\ accepted = {}
    /\ offered = [i \in Readable |-> 0] /\ ratchet = offered
    /\ boots = 0

Raise(levels, i, n) ==
    [j \in Readable |-> IF j = i /\ n > levels[j] THEN n ELSE levels[j]]

PowerOn(img) ==
    /\ stage = "off" /\ boots < MaxBoots
    /\ boots' = boots + 1
    /\ stage' = "mb1" /\ image' = img /\ rb' = img
    /\ known' = FALSE /\ scratch' = {} /\ verdict' = "none"
    /\ bypassed' = FALSE /\ accepted' = {}
    /\ offered' = Raise(offered, img.fuseIdx, img.level)
    /\ UNCHANGED << fuseCall, production, pc, ratchet >>

PowerOff ==
    /\ stage # "off" /\ stage' = "off"
    /\ known' = FALSE /\ pc' = "idle" /\ verdict' = "none"
    /\ bypassed' = FALSE /\ accepted' = {}
    /\ blown' \in {blown \cup more : more \in SUBSET (IF pc = "idle" THEN {} ELSE asked)}
    /\ FuseWrite!Interrupt
    /\ UNCHANGED << production, image, rb, scratch, offered, ratchet, boots >>

\* MB1 goes on when tegrabl_prevent_rollback returned no error; the next stage
\* finds the data where MB1 left it.
NextStage ==
    /\ stage = "mb1" /\ pc = "idle" /\ verdict \in {"passed", "disabled"}
    /\ stage' = "later" /\ known' = FALSE
    /\ UNCHANGED << fuseCall, boot, rb, scratch, pc, verdict, ratchet >>

Calling == stage \in Stages /\ pc = "idle"

---------------------------------------------------------------------------
(* tegrabl_init_rollback_data.                                             *)

\* Mutant of InitEnforced: rollback prevention is not made sure of.
InitEnforcedOff ==
    /\ Calling /\ ~known /\ stage \in Enforced
    /\ rb.version = 3
    /\ scratch' = LevelToFuseValue(rb.level)
    /\ known' = TRUE
    /\ UNCHANGED << fuseCall, boot, stage, rb, pc, verdict, ratchet >>

\* A stage that enforces rollback prevention turns it on again on a device that
\* is not in production, and leaves the level for a later burn.
InitEnforced ==
    /\ Calling /\ ~known /\ stage \in Enforced
    /\ rb.version = 3
    /\ rb.enabled \/ ~production
    /\ rb' = [rb EXCEPT !.enabled = TRUE]
    /\ scratch' = LevelToFuseValue(rb.level)
    /\ known' = TRUE
    /\ UNCHANGED << fuseCall, boot, stage, pc, verdict, ratchet >>

\* It refuses other data; the caller does not go on.
InitRefused ==
    /\ Calling /\ ~known /\ stage \in Enforced
    /\ rb.version # 3 \/ (~rb.enabled /\ production)
    /\ stage' = "hung"
    /\ UNCHANGED << fuseCall, boot, rb, known, scratch, pc, verdict, ratchet >>

InitNotEnforced ==
    /\ Calling /\ ~known /\ stage \notin Enforced
    /\ known' = TRUE
    /\ UNCHANGED << fuseCall, boot, stage, rb, scratch, pc, verdict, ratchet >>

---------------------------------------------------------------------------
(* tegrabl_prevent_rollback, called once by MB1.                           *)

Preventing == Calling /\ stage = "mb1" /\ verdict = "none"

PreventWithoutData ==
    /\ Preventing /\ ~known
    /\ verdict' = "notInitialized"
    /\ UNCHANGED << fuseCall, boot, stage, rb, known, scratch, pc, ratchet >>

PreventDisabled ==
    /\ Preventing /\ known /\ ~rb.enabled
    /\ verdict' = "disabled"
    /\ UNCHANGED << fuseCall, boot, stage, rb, known, scratch, pc, ratchet >>

PreventUnreadable ==
    /\ Preventing /\ known /\ rb.enabled
    /\ rb.fuseIdx \notin Readable
    /\ verdict' = "readFailed"
    /\ UNCHANGED << fuseCall, boot, stage, rb, known, scratch, pc, ratchet >>

Comparing == Preventing /\ known /\ rb.enabled /\ rb.fuseIdx \in Readable

\* "simply hang the device": the caller does.
PreventStale ==
    /\ Comparing /\ rb.level < HwLevel
    /\ verdict' = "stale"
    /\ UNCHANGED << fuseCall, boot, stage, rb, known, scratch, pc, ratchet >>

\* Mutant of PreventCurrent: an image just behind the fuse passes.
PreventCurrentLoosely ==
    /\ Comparing /\ rb.level + 1 >= HwLevel
    /\ scratch' = {} /\ verdict' = "passed"
    /\ UNCHANGED << fuseCall, boot, stage, rb, known, pc, ratchet >>

PreventCurrent ==
    /\ Comparing /\ rb.level = HwLevel
    /\ scratch' = {} /\ verdict' = "passed"
    /\ UNCHANGED << fuseCall, boot, stage, rb, known, pc, ratchet >>

\* tegrabl_fuse_write is called for a value of the fuse of the data.
StartWrite(value, caller) ==
    /\ rb.fuseIdx <= LastOdmFuse
    /\ asked' = {rb.fuseIdx} \X value /\ compared' = {rb.fuseIdx} \X Bit
    /\ FuseWrite!Ask
    /\ pc' = caller

PreventAhead ==
    /\ Comparing /\ rb.level > HwLevel
    /\ scratch' = LevelToFuseValue(rb.level)
    /\ StartWrite(LevelToFuseValue(rb.level), "prevent")
    /\ UNCHANGED << boot, stage, rb, known, verdict, ratchet >>

\* "ReservedODM[0 to 7] are used": tegrabl_update_rollback_fuse does not burn
\* another, and tegrabl_prevent_rollback goes on without.
PreventAheadUnsupported ==
    /\ Comparing /\ rb.level > HwLevel
    /\ rb.fuseIdx > LastOdmFuse
    /\ scratch' = LevelToFuseValue(rb.level) /\ verdict' = "passed"
    /\ UNCHANGED << fuseCall, boot, stage, rb, known, pc, ratchet >>

---------------------------------------------------------------------------
(* tegrabl_update_rollback_fuse.                                           *)

\* A later stage burns the value it finds in the scratch register, if any.
UpdateFuse ==
    /\ Calling /\ stage = "later" /\ known /\ scratch # {}
    /\ StartWrite(scratch, "update")
    /\ UNCHANGED << boot, stage, rb, known, scratch, verdict, ratchet >>

Writing == stage \in Stages /\ pc # "idle"

\* A value that would clear a bit is refused before anything is burnt.
Clearing == (begun \cap compared) \ asked # {}

WriteGoesOn ==
    /\ Writing /\ ~Clearing
    /\ blown' \in {blown \cup more : more \in SUBSET (asked \ blown) \ {{}}}
    /\ FuseWrite!Burn
    /\ UNCHANGED << boot, stage, rb, known, scratch, pc, verdict, ratchet >>

\* tegrabl_prevent_rollback passes the image whether or not the burn is done.
WriteEnds ==
    /\ Writing
    /\ pc' = "idle"
    /\ verdict' = IF pc = "prevent" THEN "passed" ELSE verdict
    /\ UNCHANGED << boot, stage, rb, known, scratch >>

Ratchets == ratchet' = Raise(ratchet, rb.fuseIdx, rb.level)

WriteDone == WriteEnds /\ FuseWrite!Succeed /\ Ratchets

\* Mutant of WriteNotDone: a failure is taken for success.
WriteNotDoneUnnoticed ==
    /\ WriteEnds /\ Ratchets
    /\ (Clearing /\ FuseWrite!Refuse) \/ (~Clearing /\ FuseWrite!Fail)

WriteNotDone ==
    /\ WriteEnds /\ UNCHANGED ratchet
    /\ \/ FuseWrite!Refuse
       \/ ~Clearing /\ FuseWrite!Fail

---------------------------------------------------------------------------
(* tegrabl_bypass_rollback_prevention.                                     *)

\* Mutant of Accepts: the signature is not checked.
AcceptsUnsigned(token) == token \in {"valid", "badSignature"}

\* validate_rpb and check_rpb_signature.
Accepts(token) == token = "valid"

Bypass(token) ==
    /\ Calling /\ known /\ Accepts(token)
    /\ rb' = [rb EXCEPT !.enabled = FALSE]
    /\ bypassed' = (bypassed \/ token = "valid")
    /\ UNCHANGED << fuseCall, production, stage, image, known, scratch, pc,
                    verdict, accepted, offered, ratchet, boots >>

\* "MB1 marks rb->enabled = 0 for internal devices", by
\* tegrabl_disable_rollback_prevention.
DisableOnInternalDevice ==
    /\ Calling /\ stage = "mb1" /\ known /\ ~production
    /\ rb' = [rb EXCEPT !.enabled = FALSE]
    /\ UNCHANGED << fuseCall, boot, stage, known, scratch, pc, verdict, ratchet >>

---------------------------------------------------------------------------
(* tegrabl_check_binary_rollback, from the authentication of a binary.     *)

\* Mutant of BinaryAllowed: a binary just below the limit passes.
BinaryAllowedBelow(type, level) ==
    known /\ rb.enabled /\ type \in Limited => level + 1 >= rb.limits[type]

BinaryAllowed(type, level) ==
    known /\ rb.enabled /\ type \in Limited => level >= rb.limits[type]

AcceptBinary(type, level) ==
    /\ Calling /\ BinaryAllowed(type, level)
    /\ accepted' = accepted \cup
         {a \in {<< type, level >>} : known /\ stage \in Enforced /\ type \in Limited}
    /\ UNCHANGED << fuseCall, production, stage, rb, image, known, scratch, pc,
                    verdict, bypassed, offered, ratchet, boots >>

\* "any rollback attempt should hang the DUT".
RefuseBinary(type, level) ==
    /\ Calling /\ ~BinaryAllowed(type, level)
    /\ stage' = "hung"
    /\ UNCHANGED << fuseCall, boot, rb, known, scratch, pc, verdict, ratchet >>

---------------------------------------------------------------------------
Next ==
    \/ \E img \in Images : PowerOn(img)
    \/ PowerOff \/ NextStage
    \/ InitEnforced \/ InitRefused \/ InitNotEnforced
    \/ PreventWithoutData \/ PreventDisabled \/ PreventUnreadable
    \/ PreventStale \/ PreventCurrent \/ PreventAhead \/ PreventAheadUnsupported
    \/ UpdateFuse \/ WriteGoesOn \/ WriteDone \/ WriteNotDone
    \/ \E token \in Tokens : Bypass(token)
    \/ DisableOnInternalDevice
    \/ \E type \in BinaryTypes, level \in BinaryLevels :
          AcceptBinary(type, level) \/ RefuseBinary(type, level)

Spec == Init /\ [][Next]_vars

---------------------------------------------------------------------------
(* Properties.                                                             *)

Verdicts == { "none", "passed", "disabled", "stale", "notInitialized",
              "readFailed" }

TypeOK ==
    /\ blown \subseteq Readable \X Bit /\ asked \subseteq Readable \X Bit
    /\ compared \subseteq Readable \X Bit /\ begun \subseteq Readable \X Bit
    /\ outcome \in {"none", "pending", "ok", "refused", "failed"}
    /\ production \in BOOLEAN /\ known \in BOOLEAN /\ bypassed \in BOOLEAN
    /\ stage \in Stages \cup {"off", "hung"}
    /\ image \in Images /\ rb \in RollbackData
    /\ scratch \subseteq Bit
    /\ pc \in {"idle", "prevent", "update"} /\ (pc # "idle" <=> outcome = "pending")
    /\ verdict \in Verdicts
    /\ accepted \subseteq Limited \X BinaryLevels
    /\ offered \in [Readable -> Nat] /\ ratchet \in [Readable -> Nat]
    /\ boots \in Nat

\* An image passes with rollback prevention on only if it is not behind any
\* image whose level was reported burnt into the same fuse, in this boot or an
\* earlier one: "If MB1_BCT's rollback level is stale, simply hang the device".
RatchetHolds == verdict = "passed" => rb.level >= ratchet[rb.fuseIdx]

\* A fuse never counts more levels than the images booted so far have: no burn,
\* interrupted, repeated or left to a later stage, locks the newest image out.
NeverAheadOfImages ==
    \A i \in Readable : FuseValueToLevel(Value(i)) <= offered[i]

\* Only reserved ODM fuses are burnt, whatever index an image brings.
OnlyOdmFusesBurnt == \A c \in blown : c[1] <= LastOdmFuse

\* On a production device a stage that enforces rollback prevention accepts no
\* binary below its limit, unless a valid token was presented in this boot.
LimitsEnforced ==
    production /\ ~bypassed =>
        \A a \in accepted : a[2] >= rb.limits[a[1]]
===============================================================================
