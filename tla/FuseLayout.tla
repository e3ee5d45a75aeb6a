------------------------------ MODULE FuseLayout ------------------------------
(***************************************************************************)
(* Where each fuse lives in the fuse macro.                                *)
(*                                                                         *)
(* fuse_set_macro_and_burn (tegrabl_fuse_write.c) is one switch over the   *)
(* fuse type.  Each case shifts a word of the buffer into a macro row with *)
(* write_fuse_word_0 or write_fuse_word_1 and burns that row, one row      *)
(* after the other.  A row is identified by the fuse register it feeds,    *)
(* the part of the register it holds (ADDR_0 or ADDR_1) and whether it is  *)
(* the primary or the REDUNDANT copy.                                      *)
(***************************************************************************)
EXTENDS Naturals, Sequences

Row(reg, half, copy, word) ==
    [reg |-> reg, half |-> half, copy |-> copy, word |-> word]

\* A field that fits in the first row of its register.
OneRow(reg) == << Row(reg, 0, "primary", 1) >>

\* A field that fits in the first row, burnt twice.
RowAndRedundantRow(reg) ==
    << Row(reg, 0, "primary", 1), Row(reg, 0, "redundant", 1) >>

\* A word split over two rows, then the same two rows of the redundant copy.
WordAndRedundantWord(reg) ==
    << Row(reg, 0, "primary", 1),   Row(reg, 1, "primary", 1),
       Row(reg, 0, "redundant", 1), Row(reg, 1, "redundant", 1) >>

\* Consecutive words, each split over two rows, without a redundant copy.
WordsOverRows(regs) ==
    [k \in 1 .. 2 * Len(regs) |->
        Row(regs[(k + 1) \div 2], (k + 1) % 2, "primary", (k + 1) \div 2)]

---------------------------------------------------------------------------
(* The registers that hold the words of the multi-word fuses.              *)

PublicKeyRegs ==
    << "PUBLIC_KEY0", "PUBLIC_KEY1", "PUBLIC_KEY2", "PUBLIC_KEY3",
       "PUBLIC_KEY4", "PUBLIC_KEY5", "PUBLIC_KEY6", "PUBLIC_KEY7" >>
SecureBootKeyRegs ==
    << "PRIVATE_KEY0", "PRIVATE_KEY1", "PRIVATE_KEY2", "PRIVATE_KEY3" >>
Kek0Regs == << "KEK00", "KEK01", "KEK02", "KEK03" >>
Kek1Regs == << "KEK10", "KEK11", "KEK12", "KEK13" >>
Kek2Regs == << "KEK20", "KEK21", "KEK22", "KEK23" >>
\* KEK256 has no fuses of its own: it is KEK0 followed by KEK1.
Kek256Regs == Kek0Regs \o Kek1Regs
EndorsementKeyRegs ==
    << "EK0", "EK1", "EK2", "EK3", "EK4", "EK5", "EK6", "EK7" >>
OdmIdRegs == << "ODMID0", "ODMID1" >>

KeyRegs ==
    [ PKC_PUBKEY_HASH |-> PublicKeyRegs,
      SECURE_BOOT_KEY |-> SecureBootKeyRegs,
      KEK0            |-> Kek0Regs,
      KEK1            |-> Kek1Regs,
      KEK2            |-> Kek2Regs,
      KEK256          |-> Kek256Regs,
      ENDORSEMENT_KEY |-> EndorsementKeyRegs,
      ODMID           |-> OdmIdRegs ]

---------------------------------------------------------------------------
(* The cases of the switch, by the shape of their rows.                    *)

OneRowFuses ==
    { "SKU_INFO", "PRODUCTION_MODE", "RESERVED_SW", "BOOT_DEVICE_SELECT",
      "SKIP_DEV_SEL_STRAPS", "SATA_MPHY_ODM_CALIB" }

TwoRowFuses ==
    { "HYPERVOLTAGING", "RESERVED_CALIB0", "BOOT_DEVICE_INFO", "H2",
      "ODM_INFO" }

RedundantRowFuses ==
    { "SECURITY_MODE", "ODM_LOCK", "ARM_JTAG_DIS", "BOOT_SECURITY_INFO",
      "DBG_AUTHENTICATN", "CCPLEX_DFD_ACCESS_DISABLE" }

ReservedOdmFuses ==
    { "RESERVED_ODM0", "RESERVED_ODM1", "RESERVED_ODM2", "RESERVED_ODM3",
      "RESERVED_ODM4", "RESERVED_ODM5", "RESERVED_ODM6", "RESERVED_ODM7" }

KeyFuses == DOMAIN KeyRegs

\* Fuses with a size and a register but no case in the switch.
ReadOnlyFuses == { "TID", "CPU_SPEEDO0" }

FuseTypes == OneRowFuses \cup TwoRowFuses \cup RedundantRowFuses
                \cup ReservedOdmFuses \cup KeyFuses \cup ReadOnlyFuses

\* The rows the switch burns for a type, in order; none for a type that
\* falls through to its default case.
BurnRows(type) ==
    CASE type \in OneRowFuses       -> OneRow(type)
      [] type \in TwoRowFuses       -> WordsOverRows(<< type >>)
      [] type \in RedundantRowFuses -> RowAndRedundantRow(type)
      [] type \in ReservedOdmFuses  -> WordAndRedundantWord(type)
      [] type \in KeyFuses          -> WordsOverRows(KeyRegs[type])
      [] OTHER                      -> << >>

\* The registers tegrabl_fuse_read copies the words of a type from.  TID is
\* read from RESERVED_ODM1; BOOT_DEVICE_INFO has no entry in
\* tegrabl_fuse_query_size, so its size, and hence its value, is not found.
ReadRegs(type) ==
    CASE type = "TID"              -> << "RESERVED_ODM1" >>
      [] type = "BOOT_DEVICE_INFO" -> << >>
      [] type \in KeyFuses         -> KeyRegs[type]
      [] OTHER                     -> << type >>
===============================================================================
